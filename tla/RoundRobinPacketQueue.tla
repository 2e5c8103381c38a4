----------------------- MODULE RoundRobinPacketQueue -----------------------
(***************************************************************************)
(* The packet queue of the pacer (round_robin_packet_queue.cpp).  A queue  *)
(* is a record; Push, Pop and UpdateQueueTime are the class's methods.     *)
(*   streams     streams_: bytes sent so far and the waiting packets       *)
(*   priorities  stream_priorities_: the multimap, in iteration order      *)
(* A stream that was never created and an empty one with size 0 behave     *)
(* alike, so streams is total.  priority_it of a stream is the entry of    *)
(* priorities that carries its ssrc (end() when there is none).            *)
(***************************************************************************)
EXTENDS Integers, Sequences, FiniteSets

CONSTANTS Ssrcs,           \* the streams
          MaxLeadingSize   \* kMaxLeadingSize, 1400 bytes in the code

ASSUME QueueAssumption == MaxLeadingSize \in Nat

NoPackets == [size |-> 0, packets |-> {}]

EmptyQueue(now) ==
  [streams |-> [s \in Ssrcs |-> NoPackets], priorities |-> << >>,
   sizePackets |-> 0, size |-> 0, maxSize |-> MaxLeadingSize,
   lastTimeUpdated |-> now, queueTimeSum |-> 0]

\* operator< of QueuedPacket, the other way round: p leaves before r.
\* [mutant: arrival order alone]
BeforeByArrival(p, r) == p.order < r.order
Before(p, r) ==
  \/ p.priority < r.priority
  \/ p.priority = r.priority /\ p.order < r.order

Top(packets) == CHOOSE p \in packets : \A r \in packets \ {p} : Before(p, r)

\* operator< of StreamPrioKey
KeyLess(k, l) ==
  \/ k.priority < l.priority
  \/ k.priority = l.priority /\ k.size < l.size

\* multimap::emplace: after every entry whose key is not larger.
Emplace(entries, e) ==
  LET n == Cardinality({i \in DOMAIN entries : ~KeyLess(e, entries[i])})
  IN  SubSeq(entries, 1, n) \o <<e>> \o SubSeq(entries, n + 1, Len(entries))

\* The position of stream s (its priority_it), Len + 1 standing for end().
Position(entries, s) ==
  IF \E i \in DOMAIN entries : entries[i].ssrc = s
  THEN CHOOSE i \in DOMAIN entries : entries[i].ssrc = s
  ELSE Len(entries) + 1

\* multimap::erase(priority_it)
Erase(entries, i) == SubSeq(entries, 1, i - 1) \o SubSeq(entries, i + 1, Len(entries))

Entry(priority, size, s) == [priority |-> priority, size |-> size, ssrc |-> s]

\* [mutant: the clock moves without charging the packets that waited]
UpdateQueueTimeUncharged(q, now) == [q EXCEPT !.lastTimeUpdated = now]
UpdateQueueTime(q, now) ==
  [q EXCEPT !.queueTimeSum = @ + (now - q.lastTimeUpdated) * q.sizePackets,
            !.lastTimeUpdated = now]

\* A stream enters the priority order with its first packet, and moves in it
\* when a more urgent packet arrives.  [mutant: only the first packet counts]
NeverMoves(entry, packet) == FALSE
Moves(entry, packet) == packet.priority < entry.priority

Push(q, packet) ==
  LET s == packet.ssrc
      i == Position(q.priorities, s)
      entry == Entry(packet.priority, q.streams[s].size, s)
      priorities == IF i \notin DOMAIN q.priorities THEN Emplace(q.priorities, entry)
                    ELSE IF Moves(q.priorities[i], packet)
                    THEN Emplace(Erase(q.priorities, i), entry)
                    ELSE q.priorities
  IN  [UpdateQueueTime(q, packet.enqueueTime) EXCEPT
         !.priorities = priorities,
         !.sizePackets = @ + 1,
         !.size = @ + packet.size,
         !.streams[s].packets = @ \cup {packet}]

Empty(q) == q.sizePackets = 0

\* GetHighestPriorityStream, and the packet Pop hands out: its top.
HighestPriorityStream(q) == Head(q.priorities).ssrc
NextPacket(q) == Top(q.streams[HighestPriorityStream(q)].packets)

\* A stream's byte count may not lag the largest by more than this.
\* [mutant: a stream that was idle keeps its old, small count]
NoFloor(q) == 0
LeadingFloor(q) == q.maxSize - MaxLeadingSize

Pop(q) ==
  LET p == NextPacket(q)
      s == HighestPriorityStream(q)
      left == q.streams[s].packets \ {p}
      sent == q.streams[s].size + p.size
      size == IF sent >= LeadingFloor(q) THEN sent ELSE LeadingFloor(q)
      others == Tail(q.priorities)
  IN  [q EXCEPT
         !.streams[s] = [size |-> size, packets |-> left],
         !.priorities = IF left = {} THEN others
                        ELSE Emplace(others, Entry(Top(left).priority, size, s)),
         !.maxSize = IF size >= @ THEN size ELSE @,
         !.sizePackets = @ - 1,
         !.size = @ - p.size,
         !.queueTimeSum = @ - (q.lastTimeUpdated - p.enqueueTime)]

Queued(q) == UNION {q.streams[s].packets : s \in Ssrcs}
=============================================================================
