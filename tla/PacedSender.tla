---------------------------- MODULE PacedSender ----------------------------
(***************************************************************************)
(* TaskQueuePacedSender and the PacingController it drives                 *)
(* (task_queue_paced_sender.cpp, pacing_controller.cpp).  Any thread may   *)
(* post; one task-queue thread runs posted tasks in order and delayed      *)
(* tasks once they are due.  ProcessPackets is its send loop: one step to  *)
(* start it, one per packet, one to leave it, so that posting threads and  *)
(* the clock interleave with it.  Times are in milliseconds.               *)
(***************************************************************************)
EXTENDS IntervalBudget, RoundRobinPacketQueue

CONSTANTS Types,                 \* packet types that are sent
          Sizes,                 \* payload plus padding sizes
          MaxPacket,             \* the largest of them
          PacingKbps,            \* SetPacingBitrate(1000 kbps)
          MinPacketLimit,        \* kDefaultMinPacketLimit, 5
          MaxElapsedTime,        \* kMaxElapsedTime, 2000
          MaxProcessingInterval, \* kMaxProcessingInterval, 30
          QueueTimeLimit,        \* kMaxExpectedQueueLength, 2000
          HoldBackWindow,        \* hold_back_window, 1
          MaxPackets,            \* bound: packets posted
          MaxStarts,             \* bound: extra calls of EnsureStarted
          MaxTime,               \* bound: the clock
          LastPost,              \* bound: callers post until this time
          MaxLate                \* bound: how long the thread may be late

ASSUME PacedSenderAssumption ==
  /\ Types \subseteq {"audio", "retransmission", "video", "fec", "padding"}
  /\ Sizes \subseteq Nat \ {0} /\ Sizes # {}
  /\ MaxPacket \in Nat /\ \A n \in Sizes : n <= MaxPacket
  /\ {PacingKbps, MinPacketLimit, MaxElapsedTime, MaxProcessingInterval,
      QueueTimeLimit, HoldBackWindow, MaxPackets, MaxStarts, MaxTime, LastPost,
      MaxLate}
       \subseteq Nat
  /\ HoldBackWindow > 0

\* The window at the pacing rate holds a packet, and is an int (62500 bytes in
\* the code).
ASSUME WindowAssumption ==
  /\ 8 * MaxPacket <= PacingKbps * WindowMs
  /\ PacingKbps * WindowMs < IntLimit

MinusInfinity == -1

VARIABLES now,               \* the clock
          taskQueue,         \* posted tasks, oldest first
          delayed,           \* delayed tasks that have not run
          posted,            \* number of packets posted so far
          starts,            \* number of extra EnsureStarted calls so far
          processing,        \* the thread is inside ProcessPackets
          nextProcessTime,   \* next_process_time_
          lastProcessTime,   \* last_process_time_
          packetCounter,     \* packet_counter_
          queue,             \* packet_queue_
          budget,            \* media_budget_
          sent,              \* packets given to PacketSender::SendPacket
          granted,           \* history: bytes IncreaseBudget ever added
          bytesSent          \* history: bytes of the packets in sent

controller == <<lastProcessTime, packetCounter, queue, budget, sent,
                granted, bytesSent>>
vars == <<now, taskQueue, delayed, posted, starts, processing,
          nextProcessTime, controller>>

GetPriorityForType(type) ==
  CASE type = "audio" -> 1
    [] type = "retransmission" -> 2
    [] type \in {"video", "fec"} -> 3
    [] type = "padding" -> 4

StartTask == [kind |-> "start"]
PacketTask(s, type, size) ==
  [kind |-> "packet", ssrc |-> s, type |-> type, size |-> size]

Init ==
  /\ now = 0
  /\ taskQueue = <<StartTask>>   \* the owner calls EnsureStarted at once
  /\ delayed = {}
  /\ posted = 0 /\ starts = 0
  /\ processing = FALSE
  /\ nextProcessTime = MinusInfinity
  /\ lastProcessTime = now
  /\ packetCounter = 0
  /\ queue = EmptyQueue(now)
  /\ budget = InitialBudget
  /\ sent = << >>
  /\ granted = 0 /\ bytesSent = 0
-----------------------------------------------------------------------------
(* The posting threads.                                                    *)

EnsureStarted ==
  /\ starts < MaxStarts /\ now <= LastPost
  /\ starts' = starts + 1
  /\ taskQueue' = Append(taskQueue, StartTask)
  /\ UNCHANGED <<now, delayed, posted, processing, nextProcessTime, controller>>

EnqueuePacket(s, type, size) ==
  /\ posted < MaxPackets /\ now <= LastPost
  /\ posted' = posted + 1
  /\ taskQueue' = Append(taskQueue, PacketTask(s, type, size))
  /\ UNCHANGED <<now, delayed, starts, processing, nextProcessTime, controller>>
-----------------------------------------------------------------------------
(* The task-queue thread.                                                  *)

\* [mutant: the interval counted backwards]
NextSendTimeBack == lastProcessTime - 2 * MinPacketLimit
NextSendTime == lastProcessTime + MinPacketLimit

\* The tail of MaybeProcessPackets: one delayed task, unless one is pending.
Schedule(time, pending) ==
  /\ nextProcessTime' = time
  /\ delayed' = pending \cup
       {[due |-> now + Larger(time - now, HoldBackWindow), scheduled |-> time]}

\* The rate that empties the queue before its packets wait, on average, for
\* QueueTimeLimit, at least 1 ms from now; kbps() rounds to the nearest.  With
\* n packets the average is queueTimeSum / n: both sides are multiplied by n.
DrainKbps(q) ==
  LET n == IF Empty(q) THEN 1 ELSE q.sizePackets
      waited == IF Empty(q) THEN 0 ELSE q.queueTimeSum
      left == Larger(n, n * QueueTimeLimit - waited)
      bits == 8 * q.size * n
  IN  (2 * bits + left) \div (2 * left)

TargetKbps(q) == IF q.size > 0 THEN Larger(PacingKbps, DrainKbps(q)) ELSE PacingKbps

\* The part of ProcessPackets before the send loop.
BeginProcessPackets ==
  LET elapsed == Smaller(now - lastProcessTime, MaxElapsedTime)
      q == UpdateQueueTime(queue, now)
      b == SetTargetBitrate(budget, TargetKbps(q))
      ms == Smaller(elapsed, MaxProcessingInterval)
  IN  /\ processing' = TRUE
      /\ nextProcessTime' = MinusInfinity
      /\ lastProcessTime' = now
      /\ IF elapsed > 0
         THEN /\ queue' = q
              /\ budget' = IncreaseBudget(b, ms)
              /\ granted' = granted + BytesOf(b, ms)
         ELSE UNCHANGED <<queue, budget, granted>>
      /\ UNCHANGED <<packetCounter, sent, bytesSent>>

\* [mutant: a call that is not the scheduled one schedules as well]
MaybeProcessPacketsAlways(scheduled, pending) ==
  \/ /\ scheduled = nextProcessTime
     /\ BeginProcessPackets
     /\ delayed' = pending
  \/ /\ scheduled # nextProcessTime
     /\ Schedule(NextSendTime, pending)
     /\ UNCHANGED <<processing, controller>>

MaybeProcessPackets(scheduled, pending) ==
  \/ /\ scheduled = nextProcessTime
     /\ BeginProcessPackets
     /\ delayed' = pending
  \/ /\ scheduled # nextProcessTime
     /\ IF nextProcessTime = MinusInfinity
        THEN Schedule(NextSendTime, pending)
        ELSE delayed' = pending /\ UNCHANGED nextProcessTime
     /\ UNCHANGED <<processing, controller>>

RunStart ==
  /\ ~processing /\ taskQueue # << >> /\ Head(taskQueue) = StartTask
  /\ taskQueue' = Tail(taskQueue)
  /\ MaybeProcessPackets(MinusInfinity, delayed)
  /\ UNCHANGED <<now, posted, starts>>

RunDelayed ==
  /\ ~processing
  /\ \E d \in delayed :
        /\ d.due <= now
        /\ MaybeProcessPackets(d.scheduled, delayed \ {d})
  /\ UNCHANGED <<now, taskQueue, posted, starts>>

\* PacingController::EnqueuePacket, in its task: the packet's enqueue time is
\* read here, not when the caller posted it.
RunEnqueue ==
  /\ ~processing /\ taskQueue # << >> /\ Head(taskQueue).kind = "packet"
  /\ LET task == Head(taskQueue)
         packet == [ssrc |-> task.ssrc, size |-> task.size,
                    priority |-> GetPriorityForType(task.type),
                    order |-> packetCounter, enqueueTime |-> now]
     IN  queue' = Push(queue, packet)
  /\ packetCounter' = packetCounter + 1
  /\ taskQueue' = Tail(taskQueue)
  /\ UNCHANGED <<now, delayed, posted, starts, processing, nextProcessTime,
                 lastProcessTime, budget, sent, granted, bytesSent>>

\* GetPendingPacket returns a packet
HasPendingPacket == ~Empty(queue) /\ BytesRemaining(budget) > 0

SendPacket ==
  /\ processing /\ HasPendingPacket
  /\ queue' = Pop(queue)
  /\ sent' = Append(sent, NextPacket(queue))
  /\ budget' = UseBudget(budget, NextPacket(queue).size)
  /\ bytesSent' = bytesSent + NextPacket(queue).size
  /\ UNCHANGED <<now, taskQueue, delayed, posted, starts, processing,
                 nextProcessTime, lastProcessTime, packetCounter, granted>>

\* [mutant: with nothing queued the chain of delayed tasks ends]
EndProcessPacketsIdle ==
  /\ processing /\ ~HasPendingPacket
  /\ processing' = FALSE
  /\ IF Empty(queue) THEN UNCHANGED <<delayed, nextProcessTime>>
     ELSE Schedule(NextSendTime, delayed)
  /\ UNCHANGED <<now, taskQueue, posted, starts, controller>>

EndProcessPackets ==
  /\ processing /\ ~HasPendingPacket
  /\ processing' = FALSE
  /\ Schedule(NextSendTime, delayed)
  /\ UNCHANGED <<now, taskQueue, posted, starts, controller>>
-----------------------------------------------------------------------------
\* The clock.  The thread may be late, by at most MaxLate, in running a due
\* task and inside its send loop.
Tick ==
  /\ now < MaxTime
  /\ \A d \in delayed : now < d.due + MaxLate
  /\ IF processing THEN now < lastProcessTime + MaxLate ELSE taskQueue = << >>
  /\ now' = now + 1
  /\ UNCHANGED <<taskQueue, delayed, posted, starts, processing,
                 nextProcessTime, controller>>

Thread == RunStart \/ RunDelayed \/ RunEnqueue \/ SendPacket \/ EndProcessPackets

Next ==
  \/ EnsureStarted
  \/ \E s \in Ssrcs, type \in Types, size \in Sizes : EnqueuePacket(s, type, size)
  \/ RunStart \/ RunDelayed \/ RunEnqueue \/ SendPacket \/ EndProcessPackets
  \/ Tick

Spec == Init /\ [][Next]_vars

\* The task queue runs what it was given, and the clock moves.
Fairness == WF_vars(RunStart) /\ WF_vars(RunDelayed) /\ WF_vars(RunEnqueue)
            /\ WF_vars(SendPacket) /\ WF_vars(EndProcessPackets) /\ WF_vars(Tick)

FairSpec == Spec /\ Fairness
-----------------------------------------------------------------------------
Task == [kind : {"start"}]
          \cup [kind : {"packet"}, ssrc : Ssrcs, type : Types, size : Sizes]
Time == Nat \cup {MinusInfinity}

ThreadTypeOK ==
  /\ now \in Nat /\ lastProcessTime \in Nat /\ lastProcessTime <= now
  /\ nextProcessTime \in Time
  /\ taskQueue \in Seq(Task)
  /\ delayed \subseteq [due : Nat, scheduled : Time]
  /\ processing \in BOOLEAN

Packet == [ssrc : Ssrcs, size : Sizes, priority : 1..4, order : Nat, enqueueTime : Nat]

QueueTypeOK ==
  /\ queue \in [streams : [Ssrcs -> [size : Nat, packets : SUBSET Packet]],
                priorities : Seq([priority : 1..4, size : Nat, ssrc : Ssrcs]),
                sizePackets : Nat, size : Int, maxSize : Nat,
                lastTimeUpdated : Nat, queueTimeSum : Int]
  /\ packetCounter \in Nat

BudgetTypeOK ==
  /\ budget \in [rate : Int, max : Int, remaining : Int]
  /\ granted \in Int /\ bytesSent \in Int

\* The state is well typed.
TypeOK == ThreadTypeOK /\ QueueTypeOK /\ BudgetTypeOK

\* The pacer lives on one chain of delayed tasks: MaybeProcessPackets runs,
\* and must leave exactly one task behind, the one next_process_time_ names.
\* No task pending: the pacer never sends again.  Two: it runs twice as often,
\* for ever.  Repeated EnsureStarted calls break neither.
OneWakeUp ==
  IF nextProcessTime = MinusInfinity
  THEN /\ delayed = {}
       /\ processing \/ (taskQueue # << >> /\ Head(taskQueue) = StartTask)
  ELSE /\ ~processing
       /\ \E d \in delayed : delayed = {d} /\ d.scheduled = nextProcessTime

\* The window at the rate that sends all that waits within a millisecond is an
\* int: no more than 536 kB wait in the code.  Nothing there ensures it; beyond
\* it the product in set_target_bitrate_kbps can overflow.
BacklogFits == 8 * queue.size * WindowMs < IntLimit

\* The pacer never sends more than it was granted, but for the end of the one
\* packet that used up the budget: debt is paid back, never forgotten, even
\* when the target rate falls back after a large queue and the budget is
\* clamped to a smaller window.
NeverOverspends == bytesSent < granted + MaxPacket \/ bytesSent = 0

\* Every packet a caller posts is sent in the end (MaxPackets bounds the posts).
EveryPacketSent == <>[](Len(sent) = posted)
=============================================================================
