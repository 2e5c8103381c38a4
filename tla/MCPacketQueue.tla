--------------------------- MODULE MCPacketQueue ---------------------------
(***************************************************************************)
(* RoundRobinPacketQueue on its own: any order of Push, UpdateQueueTime    *)
(* and Pop (never on an empty queue, as GetPendingPacket makes sure).      *)
(***************************************************************************)
EXTENDS RoundRobinPacketQueue, FiniteSetsExt, TLC

CONSTANTS Priorities, Sizes, MaxPackets, MaxTime

ASSUME PacketQueueAssumption ==
  /\ Priorities \subseteq Nat
  /\ Sizes \subseteq Nat \ {0} /\ Sizes # {} /\ IsFiniteSet(Sizes)
  /\ MaxPackets \in Nat /\ MaxTime \in Nat

VARIABLES now, order, queue,
          overtaken   \* history: overtaken[s][t], bytes of s sent past t

vars == <<now, order, queue, overtaken>>

Init ==
  /\ now = 0
  /\ order = 0
  /\ queue = EmptyQueue(0)
  /\ overtaken = [s \in Ssrcs |-> [t \in Ssrcs |-> 0]]

PushPacket ==
  /\ order < MaxPackets
  /\ \E s \in Ssrcs, p \in Priorities, n \in Sizes :
        queue' = Push(queue, [ssrc |-> s, size |-> n, priority |-> p,
                              order |-> order, enqueueTime |-> now])
  /\ order' = order + 1
  /\ UNCHANGED <<now, overtaken>>

\* Stream t waits, as urgent as packet p.
Waits(t, p, q) ==
  LET packets == q.streams[t].packets
  IN  packets # {} /\ Top(packets).priority = p.priority

PopPacket ==
  /\ ~Empty(queue)
  /\ LET p == NextPacket(queue)
     IN  overtaken' = [s \in Ssrcs |-> [t \in Ssrcs |->
            IF t = p.ssrc THEN 0
            ELSE IF s = p.ssrc /\ Waits(t, p, queue) THEN overtaken[s][t] + p.size
            ELSE overtaken[s][t]]]
  /\ queue' = Pop(queue)
  /\ UNCHANGED <<now, order>>

Update ==
  /\ queue' = UpdateQueueTime(queue, now)
  /\ UNCHANGED <<now, order, overtaken>>

Tick ==
  /\ now < MaxTime
  /\ now' = now + 1
  /\ UNCHANGED <<order, queue, overtaken>>

Next == PushPacket \/ PopPacket \/ Update \/ Tick

Spec == Init /\ [][Next]_vars

Symmetric == Permutations(Ssrcs)
-----------------------------------------------------------------------------
\* The multimap stream_priorities_ is what Pop trusts: it holds exactly one
\* entry for each stream with packets and none for the others, the entry's key
\* is the stream's current top priority and byte count (never those of an
\* earlier moment), and the entries are in key order.
PriorityIndexFresh ==
  LET entries == queue.priorities
      waiting == {s \in Ssrcs : queue.streams[s].packets # {}}
  IN  /\ {entries[i].ssrc : i \in DOMAIN entries} = waiting
      /\ Len(entries) = Cardinality(waiting)
      /\ \A i \in DOMAIN entries :
           LET stream == queue.streams[entries[i].ssrc]
           IN  entries[i] = Entry(Top(stream.packets).priority, stream.size,
                                  entries[i].ssrc)
      /\ \A i, j \in DOMAIN entries : i < j => ~KeyLess(entries[j], entries[i])

\* size_packets_, size_ and queue_time_sum_ are kept incrementally; each equals
\* what a walk over the queue would compute.  AverageQueueTime, and with it the
\* drain rate of the pacer, rests on the last one.
QueueTotalsExact ==
  LET packets == Queued(queue)
  IN  /\ queue.sizePackets = Cardinality(packets)
      /\ queue.size = MapThenSumSet(LAMBDA p : p.size, packets)
      /\ queue.queueTimeSum =
           MapThenSumSet(LAMBDA p : queue.lastTimeUpdated - p.enqueueTime, packets)

\* What kMaxLeadingSize buys: while a stream waits with a packet of the same
\* priority, no other stream sends past it more than kMaxLeadingSize and two
\* packets, however long either of them was idle before.
BoundedOvertaking ==
  \A s, t \in Ssrcs :
     overtaken[s][t] <= MaxLeadingSize + 2 * Max(Sizes)

\* Pop never passes over a more urgent packet of any stream, nor an earlier
\* packet of the same urgency in the same stream.
PopsMostUrgent ==
  [][\A p \in Queued(queue) \ Queued(queue)' :
        \A r \in Queued(queue)' :
           /\ p.priority <= r.priority
           /\ p.ssrc = r.ssrc => Before(p, r)]_queue
=============================================================================
