------------------------- MODULE PacedSenderProofs -------------------------
(***************************************************************************)
(* Proofs about PacedSender.                                               *)
(***************************************************************************)
EXTENDS PacedSender, QueueLemmas, TLAPS

(***************************************************************************)
(* The wake-up chain.  OneWakeUp is inductive once the times are known to  *)
(* be numbers: it says why a task that finds next_process_time_ at minus   *)
(* infinity is always the first start task.                                *)
(***************************************************************************)
WakeUpInv == ThreadTypeOK /\ OneWakeUp

LEMMA ConstantTypes ==
  /\ MinPacketLimit \in Nat /\ HoldBackWindow \in Nat /\ MaxPacket \in Nat
  /\ PacingKbps \in Nat /\ MaxElapsedTime \in Nat /\ MaxProcessingInterval \in Nat
  /\ QueueTimeLimit \in Nat
BY PacedSenderAssumption DEF PacedSenderAssumption

LEMMA StartIsTask == StartTask \in Task
BY DEF StartTask, Task

LEMMA WakeUpInit == Init => WakeUpInv
<1> SUFFICES ASSUME Init PROVE WakeUpInv
  OBVIOUS
<1>1. taskQueue \in Seq(Task) /\ taskQueue # << >> /\ Head(taskQueue) = StartTask
  <2>1. taskQueue = <<StartTask>>
    BY DEF Init
  <2>2. QED
    BY <2>1, StartIsTask
<1>2. ThreadTypeOK
  <2>1. now = 0 /\ lastProcessTime = 0 /\ nextProcessTime = MinusInfinity /\ delayed = {}
    BY DEF Init
  <2>2. processing \in BOOLEAN
    BY DEF Init
  <2>3. QED
    BY <1>1, <2>1, <2>2 DEF ThreadTypeOK, Time
<1>3. QED
  BY <1>1, <1>2 DEF Init, WakeUpInv, OneWakeUp

\* A task appended behind another one leaves the head alone.
LEMMA AppendKeepsHead ==
  ASSUME NEW S, NEW q \in Seq(S), NEW e \in S
  PROVE  /\ Append(q, e) \in Seq(S)
         /\ Append(q, e) # << >>
         /\ q # << >> => Head(Append(q, e)) = Head(q)
<1>1. Append(q, e) \in Seq(S) /\ Len(Append(q, e)) = Len(q) + 1 /\ Len(q) \in Nat
  OBVIOUS
<1>2. Append(q, e) # << >>
  BY <1>1
<1>3. ASSUME q # << >> PROVE Head(Append(q, e)) = Head(q)
  <2>1. Append(q, e)[1] = q[1]
    BY <1>3
  <2>2. QED
    BY <1>1, <1>2, <1>3, <2>1
<1>4. QED
  BY <1>1, <1>2, <1>3

\* Scheduling the next call leaves exactly one delayed task.
LEMMA ScheduleOne ==
  ASSUME ThreadTypeOK, Schedule(NextSendTime, {})
  PROVE  /\ nextProcessTime' \in Nat
         /\ delayed' \subseteq [due : Nat, scheduled : Time]
         /\ \E due \in Nat : delayed' = {[due |-> due, scheduled |-> nextProcessTime']}
<1>1. NextSendTime \in Nat
  BY ConstantTypes DEF NextSendTime, ThreadTypeOK
<1>2. now + Larger(NextSendTime - now, HoldBackWindow) \in Nat
  BY <1>1, ConstantTypes DEF ThreadTypeOK, Larger
<1>3. QED
  BY <1>1, <1>2 DEF Schedule, Time

\* The chain after a call of MaybeProcessPackets that removed its own task.
LEMMA MaybeProcessOne ==
  ASSUME ThreadTypeOK, NEW scheduled \in Time,
         IF nextProcessTime = MinusInfinity THEN scheduled = nextProcessTime
         ELSE TRUE,
         NEW pending, pending \subseteq delayed,
         scheduled = nextProcessTime => pending = {},
         scheduled # nextProcessTime => pending = delayed,
         OneWakeUp, ~processing,
         MaybeProcessPackets(scheduled, pending),
         UNCHANGED now, taskQueue' \in Seq(Task)
  PROVE  WakeUpInv'
<1>1. CASE scheduled = nextProcessTime
  BY <1>1 DEF MaybeProcessPackets, BeginProcessPackets, WakeUpInv, ThreadTypeOK,
              OneWakeUp, Time
<1>2. CASE scheduled # nextProcessTime
  BY <1>2 DEF MaybeProcessPackets, WakeUpInv, ThreadTypeOK, OneWakeUp, controller
<1>3. QED
  BY <1>1, <1>2

LEMMA WakeUpStep == WakeUpInv /\ [Next]_vars => WakeUpInv'
<1> SUFFICES ASSUME WakeUpInv, [Next]_vars PROVE WakeUpInv'
  OBVIOUS
<1> USE DEF WakeUpInv
<1>1. CASE EnsureStarted
  <2>1. taskQueue' = Append(taskQueue, StartTask) /\ taskQueue \in Seq(Task)
    BY <1>1 DEF EnsureStarted, ThreadTypeOK
  <2>2. QED
    BY <1>1, <2>1, AppendKeepsHead, StartIsTask
       DEF EnsureStarted, controller, ThreadTypeOK, OneWakeUp
<1>2. ASSUME NEW s \in Ssrcs, NEW type \in Types, NEW size \in Sizes,
             EnqueuePacket(s, type, size)
      PROVE  WakeUpInv'
  <2>1. PacketTask(s, type, size) \in Task
    BY DEF PacketTask, Task
  <2>2. taskQueue' = Append(taskQueue, PacketTask(s, type, size)) /\ taskQueue \in Seq(Task)
    BY <1>2 DEF EnqueuePacket, ThreadTypeOK
  <2>3. QED
    BY <1>2, <2>1, <2>2, AppendKeepsHead
       DEF EnqueuePacket, controller, ThreadTypeOK, OneWakeUp
<1>3. CASE RunStart
  <2>1. taskQueue' \in Seq(Task) /\ MinusInfinity \in Time
    BY <1>3 DEF RunStart, ThreadTypeOK, Time
  <2>2. MinusInfinity = nextProcessTime => delayed = {}
    BY DEF OneWakeUp
  <2>3. QED
    BY <1>3, <2>1, <2>2, MaybeProcessOne DEF RunStart
<1>4. CASE RunDelayed
  <2>1. PICK d \in delayed : MaybeProcessPackets(d.scheduled, delayed \ {d})
    BY <1>4 DEF RunDelayed
  <2>2. ~processing /\ UNCHANGED <<now, taskQueue>>
    BY <1>4 DEF RunDelayed
  <2>3. nextProcessTime # MinusInfinity /\ delayed = {d} /\ d.scheduled = nextProcessTime
    BY DEF OneWakeUp
  <2>4. d.scheduled \in Time /\ taskQueue' \in Seq(Task)
    BY <2>2, <2>3 DEF ThreadTypeOK
  <2>5. QED
    BY <2>1, <2>2, <2>3, <2>4, MaybeProcessOne
<1>5. CASE RunEnqueue
  <2>1. Head(taskQueue) # StartTask
    BY <1>5 DEF RunEnqueue, StartTask
  <2>2. nextProcessTime # MinusInfinity
    BY <1>5, <2>1 DEF RunEnqueue, OneWakeUp
  <2>3. taskQueue' \in Seq(Task)
    BY <1>5 DEF RunEnqueue, ThreadTypeOK
  <2>4. UNCHANGED <<now, delayed, processing, nextProcessTime, lastProcessTime>>
    BY <1>5 DEF RunEnqueue
  <2>5. QED
    BY <2>2, <2>3, <2>4 DEF ThreadTypeOK, OneWakeUp
<1>6. CASE SendPacket
  BY <1>6 DEF SendPacket, ThreadTypeOK, OneWakeUp
<1>7. CASE EndProcessPackets
  <2>1. delayed = {} /\ Schedule(NextSendTime, {})
    BY <1>7 DEF EndProcessPackets, OneWakeUp
  <2>2. /\ nextProcessTime' \in Nat
        /\ delayed' \subseteq [due : Nat, scheduled : Time]
        /\ \E due \in Nat : delayed' = {[due |-> due, scheduled |-> nextProcessTime']}
    BY <2>1, ScheduleOne
  <2>3. UNCHANGED <<now, taskQueue, lastProcessTime>> /\ processing' = FALSE
    BY <1>7 DEF EndProcessPackets, controller
  <2>4. ThreadTypeOK'
    BY <2>2, <2>3 DEF ThreadTypeOK, Time
  <2>5. OneWakeUp'
    BY <2>2, <2>3 DEF OneWakeUp, MinusInfinity
  <2>6. QED
    BY <2>4, <2>5
<1>8. CASE Tick
  BY <1>8 DEF Tick, controller, ThreadTypeOK, OneWakeUp
<1>9. CASE UNCHANGED vars
  BY <1>9 DEF vars, controller, ThreadTypeOK, OneWakeUp
<1>10. QED
  BY <1>1, <1>2, <1>3, <1>4, <1>5, <1>6, <1>7, <1>8, <1>9 DEF Next

\* The pacer always has exactly one wake-up ahead of it, whatever the limits,
\* the packets and the number of EnsureStarted calls.
THEOREM AlwaysOneWakeUp == Spec => []OneWakeUp
<1>1. WakeUpInv => OneWakeUp
  BY DEF WakeUpInv
<1>2. QED
  BY <1>1, WakeUpInit, WakeUpStep, PTL DEF Spec
-----------------------------------------------------------------------------
(***************************************************************************)
(* The queue inside the controller.  packet_counter_ numbers the packets   *)
(* as order does in MCPacketQueue, so the lemmas about that module hold    *)
(* here: they speak of a queue, whoever calls it.                          *)
(***************************************************************************)
Q == INSTANCE PacketQueueProofs WITH
       Priorities <- 1..4, order <- packetCounter, overtaken <- 0

\* Both modules mean the same by each operator of the queue.
LEMMA SameSets == \A S : Cardinality(S) = Q!Cardinality(S) /\ (IsFiniteSet(S) <=> Q!IsFiniteSet(S))
BY Zenon DEF Cardinality, Q!Cardinality, IsFiniteSet, Q!IsFiniteSet

\* emplace.
LEMMA SameEmplace == \A e, x : Emplace(e, x) = Q!Emplace(e, x)
<1> SUFFICES ASSUME NEW e, NEW x PROVE Emplace(e, x) = Q!Emplace(e, x)
  OBVIOUS
<1>1. \A a, b : KeyLess(a, b) <=> Q!KeyLess(a, b)
  BY Zenon DEF KeyLess, Q!KeyLess
<1>2. {i \in DOMAIN e : ~KeyLess(x, e[i])} = {i \in DOMAIN e : ~Q!KeyLess(x, e[i])}
  BY <1>1, Zenon
<1>3. Cardinality({i \in DOMAIN e : ~KeyLess(x, e[i])}) = Q!Cardinality({i \in DOMAIN e : ~Q!KeyLess(x, e[i])})
  BY <1>2, SameSets, Zenon
<1> QED
  BY <1>3, Zenon DEF Emplace, Q!Emplace

\* UpdateQueueTime.
LEMMA SameUpdate == \A q, t : UpdateQueueTime(q, t) = Q!UpdateQueueTime(q, t)
BY Zenon DEF UpdateQueueTime, Q!UpdateQueueTime

\* Push.
LEMMA SamePush == \A q, p : Push(q, p) = Q!Push(q, p)
<1>1. \A e, s : Position(e, s) = Q!Position(e, s)
  BY Zenon DEF Position, Q!Position
<1>2. \A e, i : Erase(e, i) = Q!Erase(e, i)
  BY Zenon DEF Erase, Q!Erase
<1>3. \A a, n, s : Entry(a, n, s) = Q!Entry(a, n, s)
  BY Zenon DEF Entry, Q!Entry
<1>4. \A e, p : Moves(e, p) <=> Q!Moves(e, p)
  BY Zenon DEF Moves, Q!Moves
<1> SUFFICES ASSUME NEW q, NEW p PROVE Push(q, p) = Q!Push(q, p)
  OBVIOUS
<1> QED
  BY <1>1, <1>2, <1>3, <1>4, SameEmplace, SameUpdate, Zenon DEF Push, Q!Push

\* The packet that is next.
LEMMA SameNext == \A q : NextPacket(q) = Q!NextPacket(q)
BY Zenon DEF NextPacket, Q!NextPacket, HighestPriorityStream, Q!HighestPriorityStream, Top, Q!Top, Before, Q!Before

\* Pop.
LEMMA SamePop == \A q : Pop(q) = Q!Pop(q)
<1>1. \A packets : Top(packets) = Q!Top(packets)
  BY Zenon DEF Top, Q!Top, Before, Q!Before
<1>2. \A q : HighestPriorityStream(q) = Q!HighestPriorityStream(q)
  BY Zenon DEF HighestPriorityStream, Q!HighestPriorityStream
<1>3. \A a, n, s : Entry(a, n, s) = Q!Entry(a, n, s)
  BY Zenon DEF Entry, Q!Entry
<1>4. \A q : LeadingFloor(q) = Q!LeadingFloor(q)
  BY Zenon DEF LeadingFloor, Q!LeadingFloor
<1> SUFFICES ASSUME NEW q PROVE Pop(q) = Q!Pop(q)
  OBVIOUS
<1> QED
  BY <1>1, <1>2, <1>3, <1>4, SameEmplace, SameNext, Zenon DEF Pop, Q!Pop

\* The constants are ones that the queue's lemmas assume.
LEMMA QueueConstants ==
  /\ Q!PacketQueueAssumption /\ Q!QueueAssumption
  /\ MaxPacket \in Nat /\ MaxPacket > 0
  /\ \A n \in Sizes : n \in Nat /\ n > 0 /\ n <= MaxPacket
<1>1. /\ Sizes \subseteq Nat \ {0} /\ Sizes # {} /\ MaxPacket \in Nat
      /\ \A n \in Sizes : n <= MaxPacket
  BY PacedSenderAssumption DEF PacedSenderAssumption
<1>2. \A n \in Sizes : n \in Nat /\ n > 0 /\ n <= MaxPacket
  BY <1>1
<1>3. IsFiniteSet(Sizes)
  <2>1. IsFiniteSet(1..MaxPacket)
    BY <1>1, FS_Interval
  <2>2. Sizes \subseteq 1..MaxPacket
    BY <1>1, <1>2
  <2> QED
    BY <2>1, <2>2, FS_Subset
<1>4. MaxPackets \in Nat /\ MaxTime \in Nat
  BY PacedSenderAssumption DEF PacedSenderAssumption
<1>5. Q!IsFiniteSet(Sizes)
  BY <1>3, SameSets
<1>6. Q!PacketQueueAssumption
  BY <1>1, <1>4, <1>5 DEF Q!PacketQueueAssumption
<1>7. Q!QueueAssumption
  BY QueueAssumption DEF QueueAssumption, Q!QueueAssumption
<1>8. MaxPacket > 0
  <2>1. PICK n \in Sizes : TRUE
    BY <1>1
  <2>2. n \in Nat /\ n > 0 /\ n <= MaxPacket
    BY <1>2
  <2> QED
    BY <1>1, <2>2
<1> QED
  BY <1>1, <1>2, <1>6, <1>7, <1>8

\* The queue after n packets came: its index and its totals are exact.
Consistent(q, n) ==
  /\ Q!QueueOK(q, n) /\ Q!TotalsOK(q)
  /\ q.lastTimeUpdated \in Nat /\ \A p \in Q!Queued(q) : p.enqueueTime \in Nat

\* What the controller reads of such a queue.
LEMMA ConsistentTypes ==
  ASSUME NEW q, NEW n \in Nat, Consistent(q, n)
  PROVE  /\ q.sizePackets \in Nat /\ q.size \in Int /\ q.queueTimeSum \in Int
         /\ q.lastTimeUpdated \in Nat
         /\ ~Empty(q) => Q!Queued(q) # {}
<1>1. Q!QueueOK(q, n) /\ Q!TotalsOK(q)
  BY DEF Consistent
<1>2. /\ q.sizePackets \in Nat /\ q.size \in Int /\ q.queueTimeSum \in Int
      /\ q.sizePackets = 0 <=> Q!Queued(q) = {}
  BY <1>1, QueueConstants, Q!TotalTypes, Zenon
<1> QED
  BY <1>2 DEF Consistent, Empty

\* A queue that was just made.
LEMMA EmptyConsistent == Consistent(EmptyQueue(0), 0)
<1>1. EmptyQueue(0) = Q!EmptyQueue(0)
  BY Zenon DEF EmptyQueue, Q!EmptyQueue, NoPackets, Q!NoPackets
<1>2. 0 \in Int
  OBVIOUS
<1>3. Q!QueueOK(Q!EmptyQueue(0), 0) /\ Q!TotalsOK(Q!EmptyQueue(0))
  BY <1>2, QueueConstants, Q!EmptyOK, Zenon
<1>4. Q!Queued(EmptyQueue(0)) = {}
  BY DEF Q!Queued, EmptyQueue, NoPackets
<1>5. EmptyQueue(0).lastTimeUpdated = 0 /\ EmptyQueue(0).size = 0
  BY DEF EmptyQueue
<1> QED
  BY <1>1, <1>3, <1>4, <1>5, QueueConstants DEF Consistent

\* UpdateQueueTime keeps what is queued.
LEMMA UpdateConsistent ==
  ASSUME NEW q, NEW n \in Nat, Consistent(q, n), NEW t \in Nat
  PROVE  /\ Consistent(UpdateQueueTime(q, t), n)
         /\ UpdateQueueTime(q, t).size = q.size
<1> DEFINE r == UpdateQueueTime(q, t)
<1>1. Q!QueueOK(q, n) /\ Q!TotalsOK(q) /\ t \in Int
  BY DEF Consistent
<1>2. r = Q!UpdateQueueTime(q, t)
  BY SameUpdate
<1>3. /\ Q!QueueOK(r, n) /\ Q!TotalsOK(r) /\ r.streams = q.streams
  BY <1>1, <1>2, QueueConstants, Q!UpdateOK, Zenon
<1>4. q = [streams |-> q.streams, priorities |-> q.priorities,
           sizePackets |-> q.sizePackets, size |-> q.size, maxSize |-> q.maxSize,
           lastTimeUpdated |-> q.lastTimeUpdated, queueTimeSum |-> q.queueTimeSum]
  BY <1>1 DEF Q!QueueOK, Q!Fields
<1>5. r.size = q.size /\ r.lastTimeUpdated = t
  BY <1>4 DEF UpdateQueueTime
<1>6. Q!Queued(r) = Q!Queued(q)
  BY <1>3 DEF Q!Queued
<1> HIDE DEF r
<1>7. Consistent(r, n)
  BY <1>3, <1>5, <1>6 DEF Consistent
<1> QED
  BY <1>5, <1>7 DEF r

\* Push adds one packet.
LEMMA PushConsistent ==
  ASSUME NEW q, NEW n \in Nat, Consistent(q, n),
         NEW p \in Q!Packet, p.order = n, p.enqueueTime \in Nat
  PROVE  Consistent(Push(q, p), n + 1)
<1> DEFINE r == Push(q, p)
<1>1. Q!QueueOK(q, n) /\ Q!TotalsOK(q)
  BY DEF Consistent
<1>2. r = Q!Push(q, p)
  BY SamePush
<1> HIDE DEF r
<1>a. /\ Q!QueueOK(Q!Push(q, p), n + 1)
      /\ Q!Queued(Q!Push(q, p)) = Q!Queued(q) \cup {p}
  BY <1>1, QueueConstants, Q!PushOK, Zenon
<1>b. Q!TotalsOK(Q!Push(q, p))
  BY <1>1, QueueConstants, Q!PushTotals, Zenon
<1>c. /\ Q!Push(q, p).size = q.size + p.size
      /\ Q!Push(q, p).lastTimeUpdated = p.enqueueTime
  BY <1>1, QueueConstants, Q!PushFields, SMT
<1>3. Q!QueueOK(r, n + 1) /\ Q!Queued(r) = Q!Queued(q) \cup {p}
  BY <1>2, <1>a
<1>4. Q!TotalsOK(r)
  BY <1>2, <1>b
<1>5. r.size = q.size + p.size /\ r.lastTimeUpdated = p.enqueueTime
  BY <1>2, <1>c
<1>6. \A x \in Q!Queued(r) : x.enqueueTime \in Nat
  BY <1>3 DEF Consistent
<1>7. Consistent(r, n + 1)
  BY <1>3, <1>4, <1>5, <1>6 DEF Consistent
<1> QED
  BY <1>7 DEF r

\* Pop takes one.
LEMMA PopConsistent ==
  ASSUME NEW q, NEW n \in Nat, Consistent(q, n), ~Empty(q)
  PROVE  /\ Consistent(Pop(q), n)
         /\ NextPacket(q).size \in Sizes
<1> DEFINE r == Pop(q)
           p == NextPacket(q)
<1>1. Q!QueueOK(q, n) /\ Q!TotalsOK(q)
  BY DEF Consistent
<1>2. r = Q!Pop(q) /\ p = Q!NextPacket(q)
  BY SamePop, SameNext
<1>3. Q!Queued(q) # {}
  BY ConsistentTypes
<1>4. Q!QueueOK(r, n) /\ Q!Queued(r) = Q!Queued(q) \ {p} /\ p \in Q!Queued(q)
  BY <1>1, <1>2, <1>3, QueueConstants, Q!PopOK, Zenon
<1>5. Q!TotalsOK(r)
  BY <1>1, <1>2, <1>3, QueueConstants, Q!PopTotals, Zenon
<1>6. r.size = q.size - p.size /\ r.lastTimeUpdated = q.lastTimeUpdated
  <2> HIDE DEF r, p
  <2>1. PICK s : s = Q!HighestPriorityStream(q)
    OBVIOUS
  <2>2. /\ Q!Pop(q).size = q.size - p.size
        /\ Q!Pop(q).lastTimeUpdated = q.lastTimeUpdated
    BY <1>1, <1>2, <1>3, <2>1, QueueConstants, Q!PopFields, SMT
  <2> QED
    BY <1>2, <2>2
<1>7. Q!Queued(q) \subseteq Q!Packet
  BY <1>1, QueueConstants, Q!QueuedPackets, Zenon
<1> HIDE DEF r, p
<1>8. p.size \in Sizes /\ p.size \in Nat
  BY <1>4, <1>7, QueueConstants DEF Q!Packet
<1>9. Consistent(r, n)
  BY <1>4, <1>5, <1>6 DEF Consistent
<1> QED
  BY <1>8, <1>9 DEF r, p

-----------------------------------------------------------------------------
(* The budget.                                                             *)

\* An int that is not too large does not wrap.
LEMMA WrapSmall ==
  ASSUME NEW n \in Nat, n < IntLimit
  PROVE  Wrap(n) = n
<1>1. IntLimit \in Nat \ {0} /\ 2 * IntLimit \in Nat \ {0}
  BY BudgetAssumption DEF BudgetAssumption
<1>2. n + IntLimit \in 0..(2 * IntLimit - 1)
  BY <1>1
<1>3. PICK m : m = 2 * IntLimit
  OBVIOUS
<1>4. PICK k : k = n + IntLimit
  OBVIOUS
<1>5. (0 * m + k) % m = k
  BY <1>1, <1>2, <1>3, <1>4, ModUnique
<1>6. (n + IntLimit) % (2 * IntLimit) = n + IntLimit
  BY <1>1, <1>2, <1>3, <1>4, <1>5
<1> QED
  BY <1>1, <1>6 DEF Wrap

\* Products grow with their factors.
LEMMA Products ==
  ASSUME NEW a \in Nat, NEW b \in Nat, a <= b, NEW c \in Nat
  PROVE  a * c <= b * c /\ a * c \in Nat /\ b * c \in Nat
<1>1. PICK d \in Nat : b = a + d
  <2>1. b - a \in Nat /\ b = a + (b - a)
    OBVIOUS
  <2> QED
    BY <2>1
<1>2. b * c = a * c + d * c
  BY <1>1
<1>3. a * c \in Nat /\ d * c \in Nat
  BY <1>1
<1>4. PICK x, y, z : x = a * c /\ y = d * c /\ z = b * c
  OBVIOUS
<1>5. x \in Nat /\ y \in Nat /\ z = x + y
  BY <1>2, <1>3, <1>4
<1> QED
  BY <1>4, <1>5

\* A quotient and its remainder.
LEMMA Quotient ==
  ASSUME NEW a \in Nat, NEW d \in Nat \ {0}
  PROVE  /\ a \div d \in Nat
         /\ (a \div d) * d <= a
         /\ a < (a \div d) * d + d
OBVIOUS

\* A quotient is as large as the multiple it holds.
LEMMA QuotientAtLeast ==
  ASSUME NEW a \in Nat, NEW d \in Nat \ {0}, NEW k \in Nat, k * d <= a
  PROVE  k <= a \div d
<1> SUFFICES ASSUME ~(k <= a \div d) PROVE FALSE
  OBVIOUS
<1>1. PICK q : q = a \div d
  OBVIOUS
<1>2. q \in Nat /\ a < q * d + d
  BY <1>1, Quotient
<1>3. q + 1 <= k /\ q + 1 \in Nat
  BY <1>1, <1>2
<1>4. (q + 1) * d <= k * d
  BY <1>3, Products
<1>5. (q + 1) * d = q * d + d
  BY <1>2
<1>6. PICK x, y : x = q * d /\ y = k * d
  OBVIOUS
<1>7. x \in Nat /\ y \in Nat
  BY <1>2, <1>6
<1> QED
  BY <1>2, <1>4, <1>5, <1>6, <1>7

\* A quotient is no larger than what its divisor times exceeds.
LEMMA QuotientAtMost ==
  ASSUME NEW a \in Nat, NEW d \in Nat \ {0}, NEW k \in Nat, a < k * d + d
  PROVE  a \div d <= k
<1> SUFFICES ASSUME ~(a \div d <= k) PROVE FALSE
  OBVIOUS
<1>1. PICK q : q = a \div d
  OBVIOUS
<1>2. q \in Nat /\ q * d <= a
  BY <1>1, Quotient
<1>3. k + 1 <= q /\ k + 1 \in Nat
  BY <1>1, <1>2
<1>4. (k + 1) * d <= q * d
  BY <1>2, <1>3, Products
<1>5. (k + 1) * d = k * d + d
  OBVIOUS
<1>6. PICK x, y : x = q * d /\ y = k * d
  OBVIOUS
<1>7. x \in Nat /\ y \in Nat
  BY <1>2, <1>6
<1> QED
  BY <1>2, <1>4, <1>5, <1>6, <1>7

\* The rate that drains the queue: its bytes at once, and no more.
LEMMA DrainBound ==
  ASSUME NEW q, NEW n \in Nat, Consistent(q, n), q.size > 0
  PROVE  DrainKbps(q) \in Nat /\ DrainKbps(q) <= 8 * q.size
<1>1. q.sizePackets \in Nat /\ q.size \in Nat /\ q.queueTimeSum \in Int
  BY ConsistentTypes
<1>2. PICK k : k = IF Empty(q) THEN 1 ELSE q.sizePackets
  OBVIOUS
<1>3. k \in Nat \ {0}
  BY <1>1, <1>2 DEF Empty
<1>4. PICK waited : waited = IF Empty(q) THEN 0 ELSE q.queueTimeSum
  OBVIOUS
<1>5. waited \in Int
  BY <1>1, <1>4
<1>6. PICK left : left = Larger(k, k * QueueTimeLimit - waited)
  OBVIOUS
<1>7. left \in Nat \ {0} /\ k <= left
  <2>1. k * QueueTimeLimit - waited \in Int
    BY <1>3, <1>5, ConstantTypes
  <2> QED
    BY <1>3, <1>6, <2>1 DEF Larger
<1>8. PICK bits : bits = 8 * q.size * k
  OBVIOUS
<1>9. DrainKbps(q) = (2 * bits + left) \div (2 * left)
  BY <1>2, <1>4, <1>6, <1>8, Zenon DEF DrainKbps
<1>10. PICK e : e = 8 * q.size
  OBVIOUS
<1>11. e \in Nat /\ bits = e * k
  BY <1>1, <1>8, <1>10
<1>12. k * e <= left * e /\ k * e \in Nat /\ left * e \in Nat
  BY <1>3, <1>7, <1>11, Products
<1>13. bits \in Nat /\ bits <= e * left /\ e * left \in Nat
  BY <1>3, <1>7, <1>11, <1>12
<1>14. PICK a : a = 2 * bits + left
  OBVIOUS
<1>15. PICK d : d = 2 * left
  OBVIOUS
<1>16. a \in Nat /\ d \in Nat \ {0}
  BY <1>7, <1>13, <1>14, <1>15
<1>17. a < e * d + d
  <2>1. e * d = 2 * (e * left)
    BY <1>7, <1>11, <1>15
  <2>2. PICK x : x = e * left
    OBVIOUS
  <2> QED
    BY <1>7, <1>13, <1>14, <1>15, <2>1, <2>2
<1>18. a \div d <= e /\ a \div d \in Nat
  BY <1>11, <1>16, <1>17, QuotientAtMost, Quotient
<1> QED
  BY <1>9, <1>10, <1>14, <1>15, <1>18

\* The target rate is a number, whatever waits.
LEMMA TargetIsNat ==
  ASSUME NEW q, NEW n \in Nat, Consistent(q, n)
  PROVE  TargetKbps(q) \in Nat
BY DrainBound, ConstantTypes DEF TargetKbps, Larger

\* While the backlog fits, the target rate keeps the window large enough for a
\* packet and an int.
LEMMA TargetBounds ==
  ASSUME NEW q, NEW n \in Nat, Consistent(q, n), 8 * q.size * WindowMs < IntLimit
  PROVE  /\ TargetKbps(q) \in Nat
         /\ 8 * MaxPacket <= TargetKbps(q) * WindowMs
         /\ TargetKbps(q) * WindowMs \in Nat
         /\ TargetKbps(q) * WindowMs < IntLimit
<1>1. /\ PacingKbps \in Nat /\ WindowMs \in Nat /\ MaxPacket \in Nat /\ IntLimit \in Nat
  BY BudgetAssumption, ConstantTypes DEF BudgetAssumption
<1>2. /\ 8 * MaxPacket <= PacingKbps * WindowMs
      /\ PacingKbps * WindowMs < IntLimit
  BY WindowAssumption DEF WindowAssumption
<1>3. q.size \in Int
  BY ConsistentTypes
<1>4. PICK t : t = TargetKbps(q)
  OBVIOUS
<1>5. CASE t = PacingKbps
  BY <1>1, <1>2, <1>4, <1>5, Products
<1>6. CASE t # PacingKbps
  <2>1. q.size > 0 /\ t = Larger(PacingKbps, DrainKbps(q))
    BY <1>4, <1>6 DEF TargetKbps
  <2>2. DrainKbps(q) \in Nat /\ DrainKbps(q) <= 8 * q.size
    BY <2>1, DrainBound
  <2>3. t = DrainKbps(q) /\ PacingKbps <= t /\ t \in Nat
    BY <1>1, <1>6, <2>1, <2>2 DEF Larger
  <2>4. PICK m : m = 8 * q.size
    OBVIOUS
  <2>5. m \in Nat /\ t <= m /\ m * WindowMs < IntLimit
    BY <1>3, <2>1, <2>2, <2>3, <2>4
  <2>6. t * WindowMs <= m * WindowMs /\ t * WindowMs \in Nat /\ m * WindowMs \in Nat
    BY <1>1, <2>3, <2>5, Products
  <2>7. PacingKbps * WindowMs <= t * WindowMs /\ PacingKbps * WindowMs \in Nat
    BY <1>1, <2>3, Products
  <2>8. PICK x, y, z : x = t * WindowMs /\ y = m * WindowMs /\ z = PacingKbps * WindowMs
    OBVIOUS
  <2>9. /\ x \in Nat /\ y \in Nat /\ z \in Nat
        /\ x <= y /\ z <= x /\ y < IntLimit /\ 8 * MaxPacket <= z
    BY <1>2, <2>5, <2>6, <2>7, <2>8
  <2>10. x < IntLimit /\ 8 * MaxPacket <= x
    BY <1>1, <2>9
  <2> QED
    BY <1>4, <2>3, <2>8, <2>9, <2>10
<1> QED
  BY <1>5, <1>6

\* The window in bytes at such a rate.
LEMMA WindowHoldsPacket ==
  ASSUME NEW kbps \in Nat, 8 * MaxPacket <= kbps * WindowMs,
         kbps * WindowMs \in Nat, kbps * WindowMs < IntLimit
  PROVE  MaxBytesInBudget(kbps) \in Nat /\ MaxPacket <= MaxBytesInBudget(kbps)
<1>1. PICK w : w = kbps * WindowMs
  OBVIOUS
<1>2. w \in Nat /\ w < IntLimit /\ 8 * MaxPacket <= w /\ MaxPacket \in Nat
  BY <1>1, ConstantTypes
<1>3. Wrap(w) = w
  BY <1>2, WrapSmall
<1>4. MaxBytesInBudget(kbps) = w \div 8
  BY <1>1, <1>2, <1>3 DEF MaxBytesInBudget, TruncDiv
<1>5. w \div 8 \in Nat /\ MaxPacket <= w \div 8
  <2>1. MaxPacket * 8 <= w
    BY <1>2
  <2> QED
    BY <1>2, <2>1, Quotient, QuotientAtLeast
<1> QED
  BY <1>4, <1>5

\* What remains is no more than what was granted and not spent, and a debt is
\* less than a packet; once anything may be spent the window holds a packet.
BudgetOK(b, g, spent) ==
  /\ b = [rate |-> b.rate, max |-> b.max, remaining |-> b.remaining]
  /\ b.rate \in Nat /\ b.max \in Nat /\ b.remaining \in Int
  /\ g \in Int /\ spent \in Int
  /\ b.remaining <= g - spent
  /\ -MaxPacket < b.remaining
  /\ MaxPacket <= b.max \/ b.remaining <= 0

\* A new target clamps what remains, but no debt and no window too small.
LEMMA SetTargetOK ==
  ASSUME NEW b, NEW g, NEW spent, BudgetOK(b, g, spent),
         NEW q, NEW n \in Nat, Consistent(q, n), 8 * q.size * WindowMs < IntLimit
  PROVE  /\ BudgetOK(SetTargetBitrate(b, TargetKbps(q)), g, spent)
         /\ MaxPacket <= SetTargetBitrate(b, TargetKbps(q)).max
<1>1. PICK kbps : kbps = TargetKbps(q)
  OBVIOUS
<1>2. PICK max : max = MaxBytesInBudget(kbps)
  OBVIOUS
<1>3. kbps \in Nat /\ max \in Nat /\ MaxPacket <= max /\ MaxPacket \in Nat /\ MaxPacket > 0
  BY <1>1, <1>2, TargetBounds, WindowHoldsPacket, QueueConstants
<1>4. PICK c : c = SetTargetBitrate(b, kbps)
  OBVIOUS
<1>5. PICK v : v = Smaller(Larger(-max, b.remaining), max)
  OBVIOUS
<1>6. c = [rate |-> kbps, max |-> max, remaining |-> v]
  BY <1>2, <1>4, <1>5, Zenon DEF SetTargetBitrate
<1>7. b.remaining \in Int /\ b.remaining <= g - spent /\ -MaxPacket < b.remaining
      /\ g \in Int /\ spent \in Int
  BY DEF BudgetOK
<1>8. v \in Int /\ v <= b.remaining /\ -MaxPacket < v
  BY <1>3, <1>5, <1>7 DEF Smaller, Larger
<1>9. v <= g - spent
  BY <1>7, <1>8
<1>10. BudgetOK(c, g, spent) /\ c.max = max
  BY <1>3, <1>6, <1>7, <1>8, <1>9 DEF BudgetOK
<1> QED
  BY <1>1, <1>3, <1>4, <1>10

\* What is granted is added to a debt, and not to what was left.
LEMMA IncreaseOK ==
  ASSUME NEW b, NEW g, NEW spent, BudgetOK(b, g, spent), MaxPacket <= b.max, NEW ms \in Nat
  PROVE  BudgetOK(IncreaseBudget(b, ms), g + BytesOf(b, ms), spent)
<1>1. PICK bytes : bytes = BytesOf(b, ms)
  OBVIOUS
<1>2. bytes \in Nat
  <2>1. ms * b.rate \in Nat
    BY DEF BudgetOK
  <2> QED
    BY <1>1, <2>1, Quotient DEF BytesOf
<1>3. PICK base : base = IF b.remaining < 0 \/ CanBuildUp THEN b.remaining ELSE 0
  OBVIOUS
<1>4. PICK v : v = Smaller(base + bytes, b.max)
  OBVIOUS
<1>5. PICK c : c = IncreaseBudget(b, ms)
  OBVIOUS
<1>6. c = [b EXCEPT !.remaining = v]
  BY <1>1, <1>3, <1>4, <1>5, Zenon DEF IncreaseBudget
<1>7. /\ b = [rate |-> b.rate, max |-> b.max, remaining |-> b.remaining]
      /\ b.rate \in Nat /\ b.max \in Nat /\ b.remaining \in Int
      /\ g \in Int /\ spent \in Int
      /\ b.remaining <= g - spent /\ -MaxPacket < b.remaining
  BY DEF BudgetOK
<1>8. c = [rate |-> b.rate, max |-> b.max, remaining |-> v]
  BY <1>6, <1>7
<1>9. MaxPacket \in Nat /\ MaxPacket > 0
  BY QueueConstants
<1>10. base \in Int /\ base <= g - spent /\ -MaxPacket < base
  BY <1>3, <1>7, <1>9
<1>11. v \in Int /\ v <= (g + bytes) - spent /\ -MaxPacket < v
  BY <1>2, <1>4, <1>7, <1>9, <1>10 DEF Smaller
<1>12. BudgetOK(c, g + bytes, spent)
  BY <1>2, <1>7, <1>8, <1>11 DEF BudgetOK
<1> QED
  BY <1>1, <1>5, <1>12

\* A packet is sent only while something remains: the debt is less than it.
LEMMA UseOK ==
  ASSUME NEW b, NEW g, NEW spent, BudgetOK(b, g, spent), BytesRemaining(b) > 0,
         NEW bytes \in Sizes
  PROVE  BudgetOK(UseBudget(b, bytes), g, spent + bytes)
<1>1. PICK v : v = Larger(b.remaining - bytes, -b.max)
  OBVIOUS
<1>2. PICK c : c = UseBudget(b, bytes)
  OBVIOUS
<1>3. /\ b = [rate |-> b.rate, max |-> b.max, remaining |-> b.remaining]
      /\ b.rate \in Nat /\ b.max \in Nat /\ b.remaining \in Int
      /\ g \in Int /\ spent \in Int
      /\ b.remaining <= g - spent
      /\ MaxPacket <= b.max \/ b.remaining <= 0
  BY DEF BudgetOK
<1>4. b.remaining > 0
  BY <1>3 DEF BytesRemaining, Larger
<1>5. /\ MaxPacket \in Nat /\ MaxPacket <= b.max
      /\ bytes \in Nat /\ bytes > 0 /\ bytes <= MaxPacket
  BY <1>3, <1>4, QueueConstants
<1>6. c = [rate |-> b.rate, max |-> b.max, remaining |-> v]
  BY <1>1, <1>2, <1>3 DEF UseBudget
<1>7. v = b.remaining - bytes
  BY <1>1, <1>3, <1>4, <1>5 DEF Larger
<1>8. v \in Int /\ v <= g - (spent + bytes) /\ -MaxPacket < v
  BY <1>3, <1>4, <1>5, <1>7
<1>9. BudgetOK(c, g, spent + bytes)
  BY <1>3, <1>5, <1>6, <1>8 DEF BudgetOK
<1> QED
  BY <1>2, <1>9

-----------------------------------------------------------------------------
(***************************************************************************)
(* Two invariants.  SenderInv says what the thread, the queue and the      *)
(* budget are, whatever waits.  That a debt is less than a packet needs    *)
(* that the window holds one, hence that it did not overflow: BudgetInv is *)
(* kept as long as the backlog fits.                                       *)
(***************************************************************************)

SenderInv ==
  /\ WakeUpInv
  /\ packetCounter \in Nat
  /\ Consistent(queue, packetCounter)
  /\ BudgetTypeOK

BudgetInv == BudgetOK(budget, granted, bytesSent)

\* Both hold when the pacer is made.
LEMMA SenderInit == Init => SenderInv /\ BudgetInv
<1> SUFFICES ASSUME Init PROVE SenderInv /\ BudgetInv
  OBVIOUS
<1>1. WakeUpInv
  BY WakeUpInit
<1>2. /\ packetCounter = 0 /\ queue = EmptyQueue(0) /\ granted = 0 /\ bytesSent = 0
      /\ budget = [rate |-> 0, max |-> 0, remaining |-> 0]
  BY DEF Init, InitialBudget
<1>3. Consistent(queue, packetCounter)
  BY <1>2, EmptyConsistent
<1>4. BudgetInv /\ BudgetTypeOK
  BY <1>2, QueueConstants DEF BudgetInv, BudgetOK, BudgetTypeOK
<1> QED
  BY <1>1, <1>2, <1>3, <1>4 DEF SenderInv

\* The budget keeps its types through any of its operations.
LEMMA BudgetTypes ==
  ASSUME NEW b \in [rate : Int, max : Int, remaining : Int]
  PROVE  /\ \A kbps \in Nat :
              SetTargetBitrate(b, kbps) \in [rate : Int, max : Int, remaining : Int]
         /\ \A ms \in Nat : /\ IncreaseBudget(b, ms) \in [rate : Int, max : Int, remaining : Int]
                             /\ BytesOf(b, ms) \in Int
         /\ \A bytes \in Nat :
              UseBudget(b, bytes) \in [rate : Int, max : Int, remaining : Int]
<1>1. \A n \in Int : Wrap(n) \in Int
  BY BudgetAssumption DEF BudgetAssumption, Wrap
<1>2. \A n \in Int : TruncDiv(n, 8) \in Int
  BY DEF TruncDiv
<1>3. ASSUME NEW kbps \in Nat
      PROVE  SetTargetBitrate(b, kbps) \in [rate : Int, max : Int, remaining : Int]
  <2>1. kbps * WindowMs \in Int
    BY BudgetAssumption DEF BudgetAssumption
  <2>2. MaxBytesInBudget(kbps) \in Int
    BY <1>1, <1>2, <2>1 DEF MaxBytesInBudget
  <2> QED
    BY <2>2 DEF SetTargetBitrate, Smaller, Larger
<1>4. ASSUME NEW ms \in Nat
      PROVE  /\ IncreaseBudget(b, ms) \in [rate : Int, max : Int, remaining : Int]
             /\ BytesOf(b, ms) \in Int
  <2>1. ms * b.rate \in Int
    OBVIOUS
  <2>2. BytesOf(b, ms) \in Int
    BY <2>1 DEF BytesOf
  <2> QED
    BY <2>2 DEF IncreaseBudget, Smaller
<1>5. ASSUME NEW bytes \in Nat
      PROVE  UseBudget(b, bytes) \in [rate : Int, max : Int, remaining : Int]
  BY DEF UseBudget, Larger
<1> QED
  BY <1>3, <1>4, <1>5

\* The start of ProcessPackets: the queue is charged, the budget refilled.
LEMMA BeginOK ==
  ASSUME SenderInv, BeginProcessPackets
  PROVE  /\ Consistent(queue', packetCounter) /\ BudgetTypeOK'
         /\ packetCounter' = packetCounter
         /\ BudgetInv /\ BacklogFits => BudgetInv'
<1> DEFINE elapsed == Smaller(now - lastProcessTime, MaxElapsedTime)
           q == UpdateQueueTime(queue, now)
           b == SetTargetBitrate(budget, TargetKbps(q))
           ms == Smaller(elapsed, MaxProcessingInterval)
<1>1. /\ IF elapsed > 0
         THEN /\ queue' = q /\ budget' = IncreaseBudget(b, ms)
              /\ granted' = granted + BytesOf(b, ms)
         ELSE UNCHANGED <<queue, budget, granted>>
      /\ UNCHANGED <<packetCounter, bytesSent>>
  BY DEF BeginProcessPackets
<1>2. now \in Nat /\ lastProcessTime \in Nat /\ lastProcessTime <= now
  BY DEF SenderInv, WakeUpInv, ThreadTypeOK
<1>3. elapsed \in Nat /\ ms \in Nat
  BY <1>2, ConstantTypes DEF Smaller
<1> HIDE DEF ms, elapsed
<1>4. packetCounter \in Nat /\ Consistent(queue, packetCounter) /\ BudgetTypeOK
  BY DEF SenderInv
<1>5. Consistent(q, packetCounter) /\ q.size = queue.size
  BY <1>2, <1>4, UpdateConsistent
<1> HIDE DEF q
<1>6. TargetKbps(q) \in Nat
  BY <1>4, <1>5, TargetIsNat
<1>7. b \in [rate : Int, max : Int, remaining : Int]
  BY <1>4, <1>6, BudgetTypes DEF BudgetTypeOK
<1>8. BudgetInv /\ BacklogFits => BudgetOK(b, granted, bytesSent) /\ MaxPacket <= b.max
  BY <1>4, <1>5, SetTargetOK DEF BudgetInv, BacklogFits
<1> HIDE DEF b
<1>9. BudgetInv /\ BacklogFits
        => BudgetOK(IncreaseBudget(b, ms), granted + BytesOf(b, ms), bytesSent)
  BY <1>3, <1>8, IncreaseOK
<1>10. BudgetTypeOK'
  <2>1. /\ IncreaseBudget(b, ms) \in [rate : Int, max : Int, remaining : Int]
        /\ BytesOf(b, ms) \in Int
    BY <1>3, <1>7, BudgetTypes
  <2> QED
    BY <1>1, <1>4, <2>1 DEF BudgetTypeOK
<1>11. BudgetInv /\ BacklogFits => BudgetInv'
  BY <1>1, <1>9 DEF BudgetInv
<1> QED
  BY <1>1, <1>4, <1>5, <1>10, <1>11

\* A call of MaybeProcessPackets, whether it does its work or not.
LEMMA MaybeProcessOK ==
  ASSUME SenderInv, NEW scheduled, NEW pending, MaybeProcessPackets(scheduled, pending)
  PROVE  /\ Consistent(queue', packetCounter) /\ BudgetTypeOK'
         /\ packetCounter' = packetCounter
         /\ BudgetInv /\ BacklogFits => BudgetInv'
<1>1. CASE BeginProcessPackets
  BY <1>1, BeginOK
<1>2. CASE UNCHANGED controller
  BY <1>2 DEF controller, SenderInv, BudgetInv, BudgetTypeOK
<1> QED
  BY <1>1, <1>2 DEF MaybeProcessPackets

\* Every step of the callers, the thread and the clock keeps both.
LEMMA SenderStep ==
  SenderInv /\ [Next]_vars => SenderInv' /\ (BudgetInv /\ BacklogFits => BudgetInv')
<1> DEFINE Goal == SenderInv' /\ (BudgetInv /\ BacklogFits => BudgetInv')
<1> SUFFICES ASSUME SenderInv, [Next]_vars PROVE Goal
  OBVIOUS
<1>0. /\ WakeUpInv /\ taskQueue \in Seq(Task) /\ now \in Nat /\ packetCounter \in Nat
      /\ Consistent(queue, packetCounter) /\ BudgetTypeOK
  BY DEF SenderInv, WakeUpInv, ThreadTypeOK
<1>w. WakeUpInv'
  BY <1>0, WakeUpStep
<1>1. ASSUME UNCHANGED <<packetCounter, queue, budget, granted, bytesSent>>
      PROVE  Goal
  BY <1>0, <1>1, <1>w DEF SenderInv, BudgetInv, BudgetTypeOK
<1>2. CASE EnsureStarted \/ (\E s \in Ssrcs, type \in Types, size \in Sizes :
                               EnqueuePacket(s, type, size))
  BY <1>1, <1>2 DEF EnsureStarted, EnqueuePacket, controller
<1>3. CASE RunStart
  BY <1>0, <1>3, <1>w, MaybeProcessOK DEF RunStart, SenderInv
<1>4. CASE RunDelayed
  BY <1>0, <1>4, <1>w, MaybeProcessOK DEF RunDelayed, SenderInv
<1>5. CASE RunEnqueue
  <2> DEFINE task == Head(taskQueue)
             p == [ssrc |-> task.ssrc, size |-> task.size,
                   priority |-> GetPriorityForType(task.type),
                   order |-> packetCounter, enqueueTime |-> now]
  <2>1. /\ taskQueue # << >> /\ task.kind = "packet"
        /\ queue' = Push(queue, p) /\ packetCounter' = packetCounter + 1
        /\ UNCHANGED <<budget, granted, bytesSent>>
    BY <1>5 DEF RunEnqueue
  <2>2. p \in Q!Packet /\ p.order = packetCounter /\ p.enqueueTime = now
    <3>1. task \in Task
      BY <1>0, <2>1
    <3>2. task.ssrc \in Ssrcs /\ task.type \in Types /\ task.size \in Sizes
      BY <2>1, <3>1 DEF Task
    <3>3. task.type \in {"audio", "retransmission", "video", "fec", "padding"}
      BY <3>2, PacedSenderAssumption DEF PacedSenderAssumption
    <3>4. GetPriorityForType(task.type) \in 1..4
      BY <3>3 DEF GetPriorityForType
    <3> QED
      BY <1>0, <3>2, <3>4 DEF Q!Packet
  <2> HIDE DEF p
  <2>3. Consistent(queue', packetCounter + 1)
    BY <1>0, <2>1, <2>2, PushConsistent
  <2> QED
    BY <1>0, <1>w, <2>1, <2>3 DEF SenderInv, BudgetInv, BudgetTypeOK
<1>6. CASE SendPacket
  <2>1. /\ ~Empty(queue) /\ BytesRemaining(budget) > 0 /\ queue' = Pop(queue)
        /\ budget' = UseBudget(budget, NextPacket(queue).size)
        /\ bytesSent' = bytesSent + NextPacket(queue).size
        /\ UNCHANGED <<packetCounter, granted>>
    BY <1>6 DEF SendPacket, HasPendingPacket
  <2>2. Consistent(Pop(queue), packetCounter) /\ NextPacket(queue).size \in Sizes
    BY <1>0, <2>1, PopConsistent
  <2>3. NextPacket(queue).size \in Nat
    BY <2>2, QueueConstants
  <2>4. BudgetTypeOK'
    <3>1. budget' \in [rate : Int, max : Int, remaining : Int]
      BY <1>0, <2>1, <2>3, BudgetTypes DEF BudgetTypeOK
    <3>2. granted' \in Int /\ bytesSent' \in Int
      BY <1>0, <2>1, <2>3 DEF BudgetTypeOK
    <3> QED
      BY <3>1, <3>2 DEF BudgetTypeOK
  <2>5. BudgetInv => BudgetInv'
    BY <2>1, <2>2, UseOK DEF BudgetInv
  <2> QED
    BY <1>0, <1>w, <2>1, <2>2, <2>4, <2>5 DEF SenderInv
<1>7. CASE EndProcessPackets \/ Tick \/ UNCHANGED vars
  BY <1>1, <1>7 DEF EndProcessPackets, Tick, controller, vars
<1> QED
  BY <1>2, <1>3, <1>4, <1>5, <1>6, <1>7 DEF Next

\* SenderInv is an invariant of the specification.
LEMMA AlwaysSenderInv == Spec => []SenderInv
BY SenderInit, SenderStep, PTL DEF Spec

\* As long as no more waits than BacklogFits allows, the bytes sent exceed the
\* bytes granted by less than a packet, whenever packets come and however late
\* the thread is (media_budget_ of PacingController).  Of a larger backlog, for
\* which the window overflows, nothing is said.
THEOREM NeverOverspending == Spec /\ []BacklogFits => []NeverOverspends
<1>1. SenderInv /\ BudgetInv /\ BacklogFits /\ [Next]_vars => BudgetInv'
  BY SenderStep
<1>2. BudgetInv => NeverOverspends
  <2> SUFFICES ASSUME BudgetInv PROVE NeverOverspends
    OBVIOUS
  <2>1. /\ budget.remaining \in Int /\ granted \in Int /\ bytesSent \in Int
        /\ budget.remaining <= granted - bytesSent /\ -MaxPacket < budget.remaining
    BY DEF BudgetInv, BudgetOK
  <2> QED
    BY <2>1, ConstantTypes DEF NeverOverspends
<1> QED
  BY <1>1, <1>2, SenderInit, AlwaysSenderInv, PTL DEF Spec

\* What is in a consistent queue.
LEMMA QueueIsTyped ==
  ASSUME NEW q, NEW n \in Nat, Consistent(q, n)
  PROVE  q \in [streams : [Ssrcs -> [size : Nat, packets : SUBSET Packet]],
                priorities : Seq([priority : 1..4, size : Nat, ssrc : Ssrcs]),
                sizePackets : Nat, size : Int, maxSize : Nat,
                lastTimeUpdated : Nat, queueTimeSum : Int]
<1>1. Q!QueueOK(q, n)
  BY DEF Consistent
<1>2. /\ q.sizePackets \in Nat /\ q.size \in Int /\ q.queueTimeSum \in Int
      /\ q.lastTimeUpdated \in Nat
  BY ConsistentTypes
<1>3. q.maxSize \in Nat
  BY <1>1 DEF Q!QueueOK
<1>4. /\ q = [streams |-> q.streams, priorities |-> q.priorities,
              sizePackets |-> q.sizePackets, size |-> q.size, maxSize |-> q.maxSize,
              lastTimeUpdated |-> q.lastTimeUpdated, queueTimeSum |-> q.queueTimeSum]
      /\ q.streams = [s \in Ssrcs |-> [size |-> q.streams[s].size,
                                       packets |-> q.streams[s].packets]]
  BY <1>1 DEF Q!QueueOK, Q!Fields
<1>5. ASSUME NEW s \in Ssrcs
      PROVE  q.streams[s].size \in Nat /\ q.streams[s].packets \in SUBSET Packet
  <2>1. q.streams[s].packets \subseteq Q!Packet /\ q.streams[s].size \in Nat
    BY <1>1 DEF Q!QueueOK, Q!StreamOK, Q!Distinct
  <2>2. ASSUME NEW p \in q.streams[s].packets PROVE p \in Packet
    <3>1. p \in Q!Packet /\ p \in Q!Queued(q)
      BY <2>1 DEF Q!Queued
    <3>2. p.enqueueTime \in Nat
      BY <3>1 DEF Consistent
    <3> QED
      BY <3>1, <3>2 DEF Q!Packet, Packet
  <2> QED
    BY <2>1, <2>2
<1>6. q.streams \in [Ssrcs -> [size : Nat, packets : SUBSET Packet]]
  BY <1>4, <1>5
<1>7. q.priorities \in Seq([priority : 1..4, size : Nat, ssrc : Ssrcs])
  <2> DEFINE E == [priority : 1..4, size : Nat, ssrc : Ssrcs]
  <2>1. Q!Indexes(q.priorities, Q!Keys(q))
    BY <1>1 DEF Q!QueueOK
  <2>2. ASSUME NEW s \in Q!Waiting(q) PROVE Q!KeyOf(q, s) \in E
    <3>1. /\ s \in Ssrcs /\ Q!Top(q.streams[s].packets) \in Q!Packet
          /\ Q!KeyOf(q, s) \in Q!Entries /\ Q!KeyOf(q, s).ssrc = s
          /\ Q!KeyOf(q, s).priority = Q!Top(q.streams[s].packets).priority
      BY <1>1, QueueConstants, Q!KeyFacts, SMT
    <3>2. Q!Top(q.streams[s].packets).priority \in 1..4
      BY <3>1 DEF Q!Packet
    <3> QED
      BY <3>1, <3>2 DEF Q!Entries
  <2>3. Q!Keys(q) \subseteq E
    BY <2>2 DEF Q!Keys
  <2>4. Q!IsQueue(q.priorities) /\ Q!Tasks(q.priorities) = Q!Keys(q)
    BY <2>1 DEF Q!Indexes
  <2>5. PICK S : q.priorities \in Seq(S)
    BY <2>4 DEF Q!IsQueue
  <2>6. \A i \in 1..Len(q.priorities) : q.priorities[i] \in E
    BY <2>3, <2>4 DEF Q!Tasks
  <2> HIDE DEF E
  <2>7. q.priorities \in Seq(E)
    BY <2>5, <2>6
  <2> QED
    BY <2>7 DEF E
<1> QED
  BY <1>2, <1>3, <1>4, <1>6, <1>7

\* In every reachable state each variable has the type its field declares.
THEOREM SenderTypes == Spec => []TypeOK
<1>1. SenderInv => TypeOK
  <2> SUFFICES ASSUME SenderInv PROVE TypeOK
    OBVIOUS
  <2>1. ThreadTypeOK
    BY DEF SenderInv, WakeUpInv
  <2>2. QueueTypeOK
    BY QueueIsTyped DEF SenderInv, QueueTypeOK
  <2>3. BudgetTypeOK
    BY DEF SenderInv
  <2> QED
    BY <2>1, <2>2, <2>3 DEF TypeOK
<1> QED
  BY <1>1, AlwaysSenderInv, PTL
=============================================================================
