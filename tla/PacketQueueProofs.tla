------------------------- MODULE PacketQueueProofs -------------------------
(***************************************************************************)
(* Proofs about RoundRobinPacketQueue, in any order of its calls.          *)
(***************************************************************************)
EXTENDS MCPacketQueue, QueueLemmas

Packet == [ssrc : Ssrcs, size : Sizes, priority : Priorities, order : Nat, enqueueTime : Int]

MaxSize == Max(Sizes)

LEMMA ConstantFacts ==
  /\ Priorities \subseteq Nat /\ Sizes \subseteq Nat
  /\ MaxLeadingSize \in Nat
  /\ MaxSize \in Nat /\ \A n \in Sizes : n \in Nat /\ n > 0 /\ n <= MaxSize
<1>1. Sizes \in SUBSET Int /\ Sizes # {} /\ IsFiniteSet(Sizes)
  BY PacketQueueAssumption DEF PacketQueueAssumption
<1>2. Max(Sizes) \in Sizes /\ \A n \in Sizes : Max(Sizes) >= n
  BY <1>1, FiniteMax
<1>3. Priorities \subseteq Nat /\ Sizes \subseteq Nat /\ \A n \in Sizes : n \in Nat /\ n > 0
  BY PacketQueueAssumption DEF PacketQueueAssumption
<1>4. MaxLeadingSize \in Nat
  BY QueueAssumption DEF QueueAssumption
<1>5. MaxSize \in Sizes /\ \A n \in Sizes : MaxSize >= n
  BY <1>2 DEF MaxSize
<1>6. \A n \in Sizes : n <= MaxSize
  BY <1>3, <1>5
<1> QED
  BY <1>3, <1>4, <1>5, <1>6

-----------------------------------------------------------------------------
(* The top of a stream: its packet of the most urgent priority that came    *)
(* first.                                                                  *)

\* No two packets came at once.
Distinct(packets) ==
  /\ packets \subseteq Packet
  /\ \A p, r \in packets : p.order = r.order => p = r

LEMMA PacketFields ==
  ASSUME NEW p \in Packet
  PROVE  /\ p.ssrc \in Ssrcs /\ p.size \in Sizes /\ p.size \in Nat
         /\ p.priority \in Priorities /\ p.priority \in Nat
         /\ p.order \in Nat /\ p.enqueueTime \in Int
BY ConstantFacts DEF Packet

\* A stream that has packets has a top, which leaves before all others.
LEMMA TopFacts ==
  ASSUME NEW packets, Distinct(packets), packets # {}
  PROVE  /\ Top(packets) \in packets
         /\ \A r \in packets \ {Top(packets)} : Before(Top(packets), r)
<1> DEFINE urgencies == {p.priority : p \in packets}
<1>1. urgencies \in SUBSET Nat /\ urgencies # {}
  BY PacketFields DEF Distinct
<1>2. PICK m \in urgencies : \A k \in urgencies : m <= k
  BY <1>1, LeastNatural
<1> DEFINE orders == {p.order : p \in {r \in packets : r.priority = m}}
<1>3. orders \in SUBSET Nat /\ orders # {}
  BY PacketFields DEF Distinct
<1>4. PICK n \in orders : \A k \in orders : n <= k
  BY <1>3, LeastNatural
<1>5. PICK p \in packets : p.priority = m /\ p.order = n
  BY <1>4
<1>6. ASSUME NEW r \in packets \ {p} PROVE Before(p, r)
  <2>1. m <= r.priority /\ (r.priority = m => n <= r.order) /\ r.order # n
    BY <1>2, <1>4, <1>5 DEF Distinct
  <2>2. m \in Nat /\ n \in Nat /\ r.priority \in Nat /\ r.order \in Nat
    BY <1>1, <1>3, PacketFields DEF Distinct
  <2> QED
    BY <1>5, <2>1, <2>2 DEF Before
<1>7. \E q \in packets : \A r \in packets \ {q} : Before(q, r)
  BY <1>6
<1> QED
  BY <1>7, Zenon DEF Top

\* The packet that leaves before all others is the top.
LEMMA TopIs ==
  ASSUME NEW packets, Distinct(packets), NEW p \in packets,
         \A r \in packets \ {p} : Before(p, r)
  PROVE  Top(packets) = p
<1> DEFINE t == Top(packets)
<1>1. t \in packets /\ \A r \in packets \ {t} : Before(t, r)
  BY TopFacts
<1> HIDE DEF t
<1> SUFFICES ASSUME t # p PROVE FALSE
  BY DEF t
<1>2. Before(t, p) /\ Before(p, t)
  BY <1>1
<1>3. /\ t.priority \in Nat /\ t.order \in Nat
      /\ p.priority \in Nat /\ p.order \in Nat
  BY <1>1, PacketFields DEF Distinct
<1> QED
  BY <1>2, <1>3 DEF Before

-----------------------------------------------------------------------------
(* The multimap stream_priorities_ as an index of a set of entries.        *)

Entries == [priority : Nat, size : Nat, ssrc : Ssrcs]

Sorted(q) == \A i, j \in 1..Len(q) : i < j => ~KeyLess(q[j], q[i])

OnePerStream(q) == \A i, j \in 1..Len(q) : q[i].ssrc = q[j].ssrc => i = j

Indexes(q, E) ==
  /\ IsQueue(q) /\ Tasks(q) = E /\ E \subseteq Entries
  /\ Sorted(q) /\ OnePerStream(q)

LEMMA IndexBasics ==
  ASSUME NEW q, NEW E, Indexes(q, E)
  PROVE  /\ Len(q) \in Nat /\ DOMAIN q = 1..Len(q)
         /\ \A i \in 1..Len(q) : q[i] \in E /\ q[i] \in Entries
         /\ \A e \in E : \E i \in 1..Len(q) : q[i] = e
BY QueueBasics DEF Indexes, Tasks

\* Keys are ordered as numbers are.
LEMMA KeyOrder ==
  ASSUME NEW a \in Entries, NEW b \in Entries, NEW c \in Entries
  PROVE  /\ ~KeyLess(a, b) /\ ~KeyLess(b, c) => ~KeyLess(a, c)
         /\ KeyLess(a, b) => ~KeyLess(b, a)
         /\ ~KeyLess(a, b) => b.priority <= a.priority
         /\ ~KeyLess(a, b) /\ a.priority = b.priority => b.size <= a.size
<1>1. /\ a.priority \in Nat /\ a.size \in Nat
      /\ b.priority \in Nat /\ b.size \in Nat
      /\ c.priority \in Nat /\ c.size \in Nat
  BY DEF Entries
<1> QED
  BY <1>1 DEF KeyLess

\* What is in r is what is in q but entry i, in the same order.
LEMMA IndexWithout ==
  ASSUME NEW q, NEW E, Indexes(q, E), NEW i \in 1..Len(q),
         NEW r, IsQueue(r), Len(r) = Len(q) - 1,
         \A j \in 1..(Len(q) - 1) : r[j] = IF j < i THEN q[j] ELSE q[j + 1]
  PROVE  Indexes(r, E \ {q[i]})
<1> DEFINE n == Len(q)
           At(j) == IF j < i THEN j ELSE j + 1
<1>0. n \in Nat /\ i \in 1..n /\ i \in Int
  BY IndexBasics
<1>1. Len(r) = n - 1
  OBVIOUS
<1>2. \A j \in 1..(n - 1) : At(j) \in 1..n /\ r[j] = q[At(j)]
  BY <1>0
<1>3. \A j, k \in 1..(n - 1) : (j < k => At(j) < At(k)) /\ (At(j) = At(k) => j = k)
  BY <1>0
<1>4. \A j \in 1..(n - 1) : At(j) # i
  BY <1>0
<1>5. \A k \in 1..n : k # i => \E j \in 1..(n - 1) : At(j) = k
  <2> SUFFICES ASSUME NEW k \in 1..n, k # i PROVE \E j \in 1..(n - 1) : At(j) = k
    OBVIOUS
  <2>1. CASE k < i
    <3>1. k \in 1..(n - 1) /\ At(k) = k
      BY <1>0, <2>1
    <3> QED
      BY <3>1
  <2>2. CASE ~(k < i)
    <3>1. k - 1 \in 1..(n - 1) /\ At(k - 1) = k
      BY <1>0, <2>2
    <3> QED
      BY <3>1
  <2> QED
    BY <2>1, <2>2
<1> HIDE DEF n, At
<1>6. /\ Tasks(q) = E /\ E \subseteq Entries /\ \A j \in 1..n : q[j] \in E
      /\ \A j, k \in 1..n : j < k => ~KeyLess(q[k], q[j])
      /\ \A j, k \in 1..n : q[j].ssrc = q[k].ssrc => j = k
  BY DEF Indexes, Sorted, OnePerStream, Tasks, n
<1>7. Sorted(r)
  BY <1>1, <1>2, <1>3, <1>6 DEF Sorted
<1>8. OnePerStream(r)
  BY <1>1, <1>2, <1>3, <1>6 DEF OnePerStream
<1>9. Tasks(r) = E \ {q[i]}
  <2>1. ASSUME NEW j \in 1..(n - 1) PROVE r[j] \in E \ {q[i]}
    <3>1. At(j) \in 1..n /\ r[j] = q[At(j)] /\ At(j) # i
      BY <1>2, <1>4
    <3>2. q[At(j)] # q[i]
      BY <1>0, <1>6, <3>1
    <3> QED
      BY <1>6, <3>1, <3>2
  <2>2. ASSUME NEW e \in E \ {q[i]} PROVE e \in Tasks(r)
    <3>1. PICK k \in 1..n : q[k] = e
      BY <1>6 DEF Tasks, n
    <3>2. PICK j \in 1..(n - 1) : At(j) = k
      BY <1>5, <3>1
    <3>3. r[j] = e
      BY <1>2, <3>1, <3>2
    <3> QED
      BY <1>1, <3>3 DEF Tasks
  <2> QED
    BY <1>1, <2>1, <2>2 DEF Tasks
<1> QED
  BY <1>6, <1>7, <1>8, <1>9 DEF Indexes

\* Pop takes the first entry off.
LEMMA TailIndexes ==
  ASSUME NEW q, NEW E, Indexes(q, E), q # << >>
  PROVE  /\ Indexes(Tail(q), E \ {Head(q)}) /\ Head(q) \in E
         /\ \A e \in E : ~KeyLess(e, Head(q))
<1>1. /\ IsQueue(Tail(q)) /\ Len(q) \in Nat \ {0} /\ Len(Tail(q)) = Len(q) - 1
      /\ Head(q) = q[1] /\ \A j \in 1..(Len(q) - 1) : Tail(q)[j] = q[j + 1]
  BY TailFacts DEF Indexes
<1>2. 1 \in 1..Len(q)
  BY <1>1
<1>3. \A j \in 1..(Len(q) - 1) : Tail(q)[j] = IF j < 1 THEN q[j] ELSE q[j + 1]
  BY <1>1
<1>4. Indexes(Tail(q), E \ {q[1]})
  BY <1>1, <1>2, <1>3, IndexWithout
<1>5. Head(q) \in E /\ Head(q) \in Entries
  BY <1>1, <1>2, IndexBasics
<1>6. ASSUME NEW e \in E PROVE ~KeyLess(e, Head(q))
  <2>1. PICK j \in 1..Len(q) : q[j] = e
    BY IndexBasics
  <2>2. CASE j = 1
    <3>1. ~KeyLess(q[1], q[1])
      <4>1. q[1].priority \in Nat /\ q[1].size \in Nat
        BY <1>1, <1>5 DEF Entries
      <4> QED
        BY <4>1 DEF KeyLess
    <3> QED
      BY <1>1, <2>1, <2>2, <3>1
  <2>3. CASE j # 1
    <3>1. 1 < j
      BY <1>1, <2>3
    <3> QED
      BY <1>1, <1>2, <2>1, <3>1 DEF Indexes, Sorted
  <2> QED
    BY <2>2, <2>3
<1> QED
  BY <1>1, <1>4, <1>5, <1>6

\* A stream's entry is taken out.
LEMMA EraseIndexes ==
  ASSUME NEW q, NEW E, Indexes(q, E), NEW i \in 1..Len(q)
  PROVE  Indexes(Erase(q, i), E \ {q[i]})
<1> DEFINE n == Len(q)
           r == Erase(q, i)
<1>1. IsQueue(q)
  BY DEF Indexes
<1>2. r = RemoveAt(q, i)
  BY DEF Erase, RemoveAt
<1>3. /\ IsQueue(r) /\ Len(r) = n - 1
      /\ \A j \in 1..(n - 1) : r[j] = IF j < i THEN q[j] ELSE q[j + 1]
  BY <1>1, <1>2, RemoveAtFacts
<1> HIDE DEF r
<1> QED
  BY <1>3, IndexWithout DEF n, r

\* A stream's place in the order, when it has one.
LEMMA PositionFacts ==
  ASSUME NEW q, NEW E, Indexes(q, E), NEW s
  PROVE  /\ (\E e \in E : e.ssrc = s) =>
              Position(q, s) \in 1..Len(q) /\ q[Position(q, s)].ssrc = s
         /\ (\A e \in E : e.ssrc # s) => Position(q, s) \notin DOMAIN q
<1>1. Len(q) \in Nat /\ DOMAIN q = 1..Len(q)
  BY IndexBasics
<1>2. ASSUME NEW e \in E, e.ssrc = s
      PROVE  Position(q, s) \in 1..Len(q) /\ q[Position(q, s)].ssrc = s
  <2>1. \E i \in DOMAIN q : q[i].ssrc = s
    BY <1>1, <1>2, IndexBasics
  <2>2. Position(q, s) \in DOMAIN q /\ q[Position(q, s)].ssrc = s
    BY <2>1, Zenon DEF Position
  <2> QED
    BY <1>1, <2>2
<1>3. ASSUME \A e \in E : e.ssrc # s PROVE Position(q, s) \notin DOMAIN q
  <2>1. ~ \E i \in DOMAIN q : q[i].ssrc = s
    BY <1>1, <1>3, IndexBasics
  <2>2. Position(q, s) = Len(q) + 1
    BY <2>1, Zenon DEF Position
  <2> QED
    BY <1>1, <2>2
<1> QED
  BY <1>2, <1>3

\* The entries that stay in front of a new one are the first ones.
LEMMA EmplacePlace ==
  ASSUME NEW q, NEW E, Indexes(q, E), NEW e \in Entries
  PROVE  \E n \in 0..Len(q) :
            /\ n = Cardinality({i \in DOMAIN q : ~KeyLess(e, q[i])})
            /\ \A i \in 1..n : ~KeyLess(e, q[i])
            /\ \A i \in (n + 1)..Len(q) : KeyLess(e, q[i])
<1> DEFINE P == {i \in 1..Len(q) : ~KeyLess(e, q[i])}
<1>1. Len(q) \in Nat /\ DOMAIN q = 1..Len(q) /\ \A i \in 1..Len(q) : q[i] \in Entries
  BY IndexBasics
<1>2. CASE P = {}
  <2>1. Cardinality(P) = 0
    BY <1>2, FS_EmptySet
  <2>2. \A i \in 1..Len(q) : KeyLess(e, q[i])
    BY <1>2
  <2>3. 0 \in 0..Len(q) /\ 0 + 1 = 1
    BY <1>1
  <2>4. \A i \in 1..0 : FALSE
    OBVIOUS
  <2> QED
    BY <1>1, <2>1, <2>2, <2>3, <2>4
<1>3. CASE P # {}
  <2>1. P \in SUBSET (1..Len(q))
    OBVIOUS
  <2> HIDE DEF P
  <2>2. Max(P) \in P /\ \A i \in P : Max(P) >= i
    <3>1. 1 \in Int /\ Len(q) \in Int /\ P # {}
      BY <1>1, <1>3
    <3> QED
      BY <2>1, <3>1, Extremes
  <2>3. PICK n : n = Max(P)
    OBVIOUS
  <2>4. n \in 1..Len(q) /\ ~KeyLess(e, q[n]) /\ n \in P /\ \A i \in P : i <= n
    BY <2>1, <2>2, <2>3 DEF P
  <2>5. ASSUME NEW i \in 1..n PROVE ~KeyLess(e, q[i]) /\ i \in P
    <3>1. i \in 1..Len(q) /\ (i = n \/ i < n)
      BY <1>1, <2>4
    <3>2. CASE i = n
      BY <2>4, <3>2
    <3>3. CASE i < n
      <4>1. ~KeyLess(q[n], q[i])
        BY <2>4, <3>1, <3>3 DEF Indexes, Sorted
      <4>2. ~KeyLess(e, q[i])
        BY <1>1, <2>4, <3>1, <4>1, KeyOrder
      <4> QED
        BY <3>1, <4>2 DEF P
    <3> QED
      BY <3>1, <3>2, <3>3
  <2>6. P = 1..n
    <3>1. \A i \in P : i \in 1..n
      BY <1>1, <2>1, <2>4
    <3> QED
      BY <2>5, <3>1
  <2>7. Cardinality(P) = n
    BY <1>1, <2>4, <2>6, FS_Interval
  <2>8. ASSUME NEW i \in (n + 1)..Len(q) PROVE KeyLess(e, q[i])
    <3>1. i \in 1..Len(q) /\ i \notin 1..n
      BY <1>1, <2>4
    <3> QED
      BY <2>6, <3>1 DEF P
  <2>9. n \in 0..Len(q)
    BY <1>1, <2>4
  <2> QED
    BY <1>1, <2>5, <2>7, <2>8, <2>9 DEF P
<1> QED
  BY <1>2, <1>3

\* A stream without an entry gets one, behind those whose key is not larger.
LEMMA EmplaceIndexes ==
  ASSUME NEW q, NEW E, Indexes(q, E), NEW e \in Entries, \A f \in E : f.ssrc # e.ssrc
  PROVE  Indexes(Emplace(q, e), E \cup {e})
<1>1. /\ Len(q) \in Nat /\ DOMAIN q = 1..Len(q)
      /\ \A i \in 1..Len(q) : q[i] \in E /\ q[i] \in Entries
  BY IndexBasics
<1>2. PICK n \in 0..Len(q) :
         /\ n = Cardinality({i \in DOMAIN q : ~KeyLess(e, q[i])})
         /\ \A i \in 1..n : ~KeyLess(e, q[i])
         /\ \A i \in (n + 1)..Len(q) : KeyLess(e, q[i])
  BY EmplacePlace
<1> DEFINE m == Len(q)
           a == SubSeq(q, 1, n)
           b == SubSeq(q, n + 1, m)
           r == a \o <<e>> \o b
<1>3. Emplace(q, e) = r
  BY <1>2, Zenon DEF Emplace
<1>4. IsQueue(q)
  BY DEF Indexes
<1>5. m \in Nat /\ n \in 0..m /\ n \in Int /\ n \in Nat
  BY <1>1, <1>2
<1>6. IsQueue(a) /\ Len(a) = n /\ \A j \in 1..n : a[j] = q[j]
  <2>1. /\ 1 \in Nat \ {0} /\ 1 <= n + 1 /\ n <= m
        /\ n - 1 + 1 = n /\ \A j \in 1..n : 1 + j - 1 = j
    BY <1>5
  <2> QED
    BY <1>4, <1>5, <2>1, SubSeqFacts
<1>7. IsQueue(b) /\ Len(b) = m - n /\ \A j \in 1..(m - n) : b[j] = q[n + j]
  <2>1. PICK k : k = n + 1
    OBVIOUS
  <2>2. k \in Nat \ {0} /\ m \in Nat /\ k <= m + 1 /\ m <= Len(q)
    BY <1>4, <1>5, <2>1
  <2>3. /\ IsQueue(SubSeq(q, k, m)) /\ Len(SubSeq(q, k, m)) = m - k + 1
        /\ \A j \in 1..(m - k + 1) : SubSeq(q, k, m)[j] = q[k + j - 1]
    BY <1>4, <2>2, SubSeqFacts
  <2>4. b = SubSeq(q, k, m)
    BY <2>1
  <2>5. m - k + 1 = m - n /\ \A j \in 1..(m - n) : k + j - 1 = n + j
    BY <1>4, <1>5, <2>1
  <2> HIDE DEF a, b
  <2> QED
    BY <2>3, <2>4, <2>5
<1>8. IsQueue(<<e>>) /\ Len(<<e>>) = 1 /\ <<e>>[1] = e
  BY ListedTasks
<1> HIDE DEF m, a, b
<1> DEFINE c == a \o <<e>>
<1>9. /\ IsQueue(c) /\ Len(c) = n + 1 /\ c[n + 1] = e
      /\ \A j \in 1..n : c[j] = q[j]
  <2>0. IsQueue(a) /\ IsQueue(<<e>>)
    BY <1>6, <1>8
  <2>1. /\ IsQueue(c) /\ Len(c) = Len(a) + Len(<<e>>)
        /\ \A j \in 1..Len(a) : c[j] = a[j]
        /\ \A j \in 1..Len(<<e>>) : c[Len(a) + j] = <<e>>[j]
    BY <2>0, ConcatFacts
  <2>2. 1 \in 1..1
    OBVIOUS
  <2> QED
    BY <1>5, <1>6, <1>8, <2>1, <2>2
<1> HIDE DEF c
<1>10. /\ IsQueue(r) /\ Len(r) = m + 1
       /\ \A j \in 1..(n + 1) : r[j] = c[j]
       /\ \A j \in 1..(m - n) : r[(n + 1) + j] = b[j]
  <2>0. IsQueue(c) /\ IsQueue(b)
    BY <1>7, <1>9
  <2>1. r = c \o b
    BY DEF c
  <2> HIDE DEF r
  <2>2. /\ IsQueue(c \o b) /\ Len(c \o b) = Len(c) + Len(b)
        /\ \A j \in 1..Len(c) : (c \o b)[j] = c[j]
        /\ \A j \in 1..Len(b) : (c \o b)[Len(c) + j] = b[j]
    BY <2>0, ConcatFacts
  <2>3. Len(c) = n + 1 /\ Len(b) = m - n /\ (n + 1) + (m - n) = m + 1
    BY <1>5, <1>7, <1>9
  <2> QED
    BY <2>1, <2>2, <2>3
<1> HIDE DEF r
<1>11. \A j \in 1..n : r[j] = q[j]
  <2>1. \A j \in 1..n : j \in 1..(n + 1)
    BY <1>5
  <2> QED
    BY <1>9, <1>10, <2>1
<1>12. r[n + 1] = e
  <2>1. n + 1 \in 1..(n + 1)
    BY <1>5
  <2> QED
    BY <1>9, <1>10, <2>1
<1>13. ASSUME NEW j \in (n + 1)..m PROVE r[j + 1] = q[j]
  <2>1. j - n \in 1..(m - n) /\ (n + 1) + (j - n) = j + 1 /\ n + (j - n) = j
    BY <1>5
  <2> QED
    BY <1>7, <1>10, <2>1
<1>14. /\ Tasks(q) = E /\ E \subseteq Entries /\ \A j \in 1..m : q[j] \in E
       /\ \A j, k \in 1..m : j < k => ~KeyLess(q[k], q[j])
       /\ \A j, k \in 1..m : q[j].ssrc = q[k].ssrc => j = k
  BY <1>1 DEF Indexes, Sorted, OnePerStream, m
<1>15. \A j \in 1..(m + 1) :
          \/ j \in 1..n /\ j \in 1..m
          \/ j = n + 1
          \/ j - 1 \in (n + 1)..m /\ j - 1 \in 1..m /\ (j - 1) + 1 = j
  BY <1>5
<1>16. ASSUME NEW j \in 1..(m + 1), NEW k \in 1..(m + 1), j < k
       PROVE  ~KeyLess(r[k], r[j]) /\ r[j].ssrc # r[k].ssrc
  <2>1. CASE j \in 1..n /\ k \in 1..n
    <3>1. r[j] = q[j] /\ r[k] = q[k] /\ j \in 1..m /\ k \in 1..m
      BY <1>5, <1>11, <2>1
    <3> QED
      BY <1>5, <1>14, <1>16, <3>1
  <2>2. CASE j \in 1..n /\ k = n + 1
    <3>1. r[j] = q[j] /\ r[k] = e /\ j \in 1..m
      BY <1>5, <1>11, <1>12, <2>2
    <3> QED
      BY <1>2, <1>14, <2>2, <3>1
  <2>3. CASE j \in 1..n /\ k - 1 \in (n + 1)..m
    <3>1. r[j] = q[j] /\ r[k] = q[k - 1] /\ j \in 1..m /\ k - 1 \in 1..m /\ j < k - 1
      <4>1. (k - 1) + 1 = k /\ j \in 1..m /\ k - 1 \in 1..m /\ j < k - 1
        BY <1>5, <2>3
      <4> QED
        BY <1>11, <1>13, <2>3, <4>1
    <3> QED
      BY <1>5, <1>14, <3>1
  <2>4. CASE j = n + 1 /\ k - 1 \in (n + 1)..m
    <3>1. r[j] = e /\ r[k] = q[k - 1] /\ k - 1 \in 1..m
      <4>1. (k - 1) + 1 = k /\ k - 1 \in 1..m
        BY <1>5, <2>4
      <4> QED
        BY <1>12, <1>13, <2>4, <4>1
    <3>2. KeyLess(e, q[k - 1]) /\ q[k - 1] \in Entries
      BY <1>2, <1>14, <2>4, <3>1 DEF m
    <3> QED
      BY <1>14, <3>1, <3>2, KeyOrder
  <2>5. CASE j - 1 \in (n + 1)..m /\ k - 1 \in (n + 1)..m
    <3>1. /\ r[j] = q[j - 1] /\ r[k] = q[k - 1] /\ j - 1 \in 1..m /\ k - 1 \in 1..m
          /\ j - 1 < k - 1
      <4>1. /\ (k - 1) + 1 = k /\ (j - 1) + 1 = j /\ k - 1 \in 1..m /\ j - 1 \in 1..m
            /\ j - 1 < k - 1
        BY <1>5, <1>16, <2>5
      <4> QED
        BY <1>13, <2>5, <4>1
    <3> QED
      BY <1>5, <1>14, <3>1
  <2> QED
    BY <1>5, <1>15, <1>16, <2>1, <2>2, <2>3, <2>4, <2>5
<1>17. Sorted(r)
  BY <1>10, <1>16 DEF Sorted
<1>18. OnePerStream(r)
  <2> SUFFICES ASSUME NEW j \in 1..(m + 1), NEW k \in 1..(m + 1), r[j].ssrc = r[k].ssrc,
                      j # k
               PROVE  FALSE
    BY <1>10 DEF OnePerStream
  <2>1. j < k \/ k < j
    BY <1>5
  <2> QED
    BY <1>16, <2>1
<1>19. Tasks(r) = E \cup {e}
  <2>1. ASSUME NEW j \in 1..(m + 1) PROVE r[j] \in E \cup {e}
    BY <1>11, <1>12, <1>13, <1>14, <1>15
  <2>2. ASSUME NEW f \in E \cup {e} PROVE \E j \in 1..(m + 1) : r[j] = f
    <3>1. CASE f = e
      <4>1. n + 1 \in 1..(m + 1)
        BY <1>5
      <4> QED
        BY <1>12, <3>1, <4>1
    <3>2. CASE f \in E
      <4>1. PICK j \in 1..m : q[j] = f
        BY <1>14, <3>2 DEF Tasks, m
      <4>2. CASE j <= n
        <5>1. j \in 1..n /\ j \in 1..(m + 1)
          BY <1>5, <4>2
        <5> QED
          BY <1>11, <4>1, <5>1
      <4>3. CASE ~(j <= n)
        <5>1. j \in (n + 1)..m /\ j + 1 \in 1..(m + 1)
          BY <1>5, <4>3
        <5> QED
          BY <1>13, <4>1, <5>1
      <4> QED
        BY <4>2, <4>3
    <3> QED
      BY <3>1, <3>2
  <2> QED
    BY <1>10, <2>1, <2>2 DEF Tasks
<1> QED
  BY <1>3, <1>10, <1>14, <1>17, <1>18, <1>19 DEF Indexes

-----------------------------------------------------------------------------
(* The queue as a whole.                                                   *)

Waiting(q) == {s \in Ssrcs : q.streams[s].packets # {}}

KeyOf(q, s) == Entry(Top(q.streams[s].packets).priority, q.streams[s].size, s)

Keys(q) == {KeyOf(q, s) : s \in Waiting(q)}

\* A queue is a record of seven fields, and a stream one of two.
Fields(q) ==
  /\ q = [streams |-> q.streams, priorities |-> q.priorities,
          sizePackets |-> q.sizePackets, size |-> q.size, maxSize |-> q.maxSize,
          lastTimeUpdated |-> q.lastTimeUpdated, queueTimeSum |-> q.queueTimeSum]
  /\ q.streams = [s \in Ssrcs |-> [size |-> q.streams[s].size,
                                   packets |-> q.streams[s].packets]]

\* A stream has its own packets, none from the future, and no more bytes than
\* the largest; n packets have come.
StreamOK(q, n, s) ==
  /\ Distinct(q.streams[s].packets)
  /\ \A p \in q.streams[s].packets : p.ssrc = s /\ p.order < n
  /\ q.streams[s].size \in Nat /\ q.streams[s].size <= q.maxSize

QueueOK(q, n) ==
  /\ Fields(q)
  /\ \A s \in Ssrcs : StreamOK(q, n, s)
  /\ q.maxSize \in Nat /\ MaxLeadingSize <= q.maxSize
  /\ q.lastTimeUpdated \in Int
  /\ Indexes(q.priorities, Keys(q))

\* A stream that waits has a key.
LEMMA KeyFacts ==
  ASSUME NEW q, NEW n, QueueOK(q, n), NEW s \in Waiting(q)
  PROVE  /\ s \in Ssrcs /\ Distinct(q.streams[s].packets)
         /\ Top(q.streams[s].packets) \in q.streams[s].packets
         /\ Top(q.streams[s].packets) \in Packet
         /\ KeyOf(q, s) \in Entries /\ KeyOf(q, s).ssrc = s
         /\ KeyOf(q, s).priority = Top(q.streams[s].packets).priority
         /\ KeyOf(q, s).size = q.streams[s].size
<1>1. s \in Ssrcs /\ q.streams[s].packets # {} /\ StreamOK(q, n, s)
  BY DEF Waiting, QueueOK
<1>2. Distinct(q.streams[s].packets) /\ q.streams[s].size \in Nat
  BY <1>1 DEF StreamOK
<1>3. Top(q.streams[s].packets) \in q.streams[s].packets
  BY <1>1, <1>2, TopFacts
<1>4. Top(q.streams[s].packets) \in Packet /\ Top(q.streams[s].packets).priority \in Nat
  BY <1>2, <1>3, PacketFields DEF Distinct
<1> QED
  BY <1>1, <1>2, <1>3, <1>4 DEF KeyOf, Entry, Entries

\* The order after a push.
Reordered(q, p) ==
  LET i == Position(q.priorities, p.ssrc)
      entry == Entry(p.priority, q.streams[p.ssrc].size, p.ssrc)
  IN  IF i \notin DOMAIN q.priorities THEN Emplace(q.priorities, entry)
      ELSE IF Moves(q.priorities[i], p) THEN Emplace(Erase(q.priorities, i), entry)
      ELSE q.priorities

\* What Push leaves.
LEMMA PushFields ==
  ASSUME NEW q, NEW n, QueueOK(q, n), NEW p \in Packet, p.order = n
  PROVE  /\ Fields(Push(q, p))
         /\ \A s \in Ssrcs : Push(q, p).streams[s].size = q.streams[s].size
         /\ \A s \in Ssrcs : s # p.ssrc => Push(q, p).streams[s].packets = q.streams[s].packets
         /\ Push(q, p).streams[p.ssrc].packets = q.streams[p.ssrc].packets \cup {p}
         /\ Push(q, p).priorities = Reordered(q, p)
         /\ Push(q, p).sizePackets = q.sizePackets + 1
         /\ Push(q, p).size = q.size + p.size
         /\ Push(q, p).maxSize = q.maxSize
         /\ Push(q, p).lastTimeUpdated = p.enqueueTime
         /\ Push(q, p).queueTimeSum =
              q.queueTimeSum + (p.enqueueTime - q.lastTimeUpdated) * q.sizePackets
<1> DEFINE new == [q.streams EXCEPT ![p.ssrc].packets = @ \cup {p}]
           sum == q.queueTimeSum + (p.enqueueTime - q.lastTimeUpdated) * q.sizePackets
           order2 == Reordered(q, p)
           r == [streams |-> new, priorities |-> order2,
                 sizePackets |-> q.sizePackets + 1, size |-> q.size + p.size,
                 maxSize |-> q.maxSize, lastTimeUpdated |-> p.enqueueTime,
                 queueTimeSum |-> sum]
<1>1. Fields(q) /\ p.ssrc \in Ssrcs
  BY PacketFields DEF QueueOK
<1>2. UpdateQueueTime(q, p.enqueueTime) =
        [streams |-> q.streams, priorities |-> q.priorities,
         sizePackets |-> q.sizePackets, size |-> q.size, maxSize |-> q.maxSize,
         lastTimeUpdated |-> p.enqueueTime, queueTimeSum |-> sum]
  <2> HIDE DEF sum
  <2>1. UpdateQueueTime(q, p.enqueueTime) =
          [q EXCEPT !.queueTimeSum = sum, !.lastTimeUpdated = p.enqueueTime]
    BY DEF UpdateQueueTime, sum
  <2> QED
    BY <1>1, <2>1 DEF Fields
<1> DEFINE u == UpdateQueueTime(q, p.enqueueTime)
<1>3. Push(q, p) = [u EXCEPT
                      !.priorities = order2, !.sizePackets = @ + 1, !.size = @ + p.size,
                      !.streams[p.ssrc].packets = @ \cup {p}]
  BY Zenon DEF Push, Reordered
<1>a. \A s \in Ssrcs : q.streams[s] = [size |-> q.streams[s].size,
                                       packets |-> q.streams[s].packets]
  <2>1. PICK st : st = q.streams
    OBVIOUS
  <2>2. st = [s \in Ssrcs |-> [size |-> st[s].size, packets |-> st[s].packets]]
    BY <1>1, <2>1 DEF Fields
  <2> QED
    BY <2>1, <2>2
<1>b. new = [s \in Ssrcs |-> IF s = p.ssrc
                             THEN [size |-> q.streams[s].size,
                                   packets |-> q.streams[s].packets \cup {p}]
                             ELSE q.streams[s]]
  <2>1. PICK st : st = q.streams
    OBVIOUS
  <2>2. PICK x : x = p.ssrc
    OBVIOUS
  <2>3. st = [s \in Ssrcs |-> [size |-> st[s].size, packets |-> st[s].packets]] /\ x \in Ssrcs
    BY <1>1, <2>1, <2>2 DEF Fields
  <2>4. st[x] = [size |-> st[x].size, packets |-> st[x].packets]
    BY <1>a, <2>1, <2>3
  <2>5. [st[x] EXCEPT !.packets = st[x].packets \cup {p}]
          = [size |-> st[x].size, packets |-> st[x].packets \cup {p}]
    BY <2>4
  <2>6. new = [st EXCEPT ![x] = [st[x] EXCEPT !.packets = st[x].packets \cup {p}]]
    BY <2>1, <2>2, Zenon
  <2>7. DOMAIN st = Ssrcs
    BY <2>3
  <2> HIDE DEF new
  <2>8. new = [s \in Ssrcs |-> IF s = x THEN [size |-> st[x].size, packets |-> st[x].packets \cup {p}]
                               ELSE st[s]]
    BY <2>5, <2>6, <2>7
  <2> QED
    BY <2>1, <2>2, <2>8
<1>c. u.streams = q.streams
  BY <1>2
<1>d. Push(q, p) = [u EXCEPT !.priorities = order2, !.sizePackets = @ + 1,
                             !.size = @ + p.size, !.streams = new]
  BY <1>3, <1>c, Zenon
<1> HIDE DEF sum, order2, new, u
<1>e. u = [streams |-> q.streams, priorities |-> q.priorities,
           sizePackets |-> q.sizePackets, size |-> q.size, maxSize |-> q.maxSize,
           lastTimeUpdated |-> p.enqueueTime, queueTimeSum |-> sum]
  BY <1>2 DEF u
<1>4. Push(q, p) = r
  BY <1>d, <1>e
<1>5. /\ \A s \in Ssrcs : new[s].size = q.streams[s].size
      /\ \A s \in Ssrcs : s # p.ssrc => new[s].packets = q.streams[s].packets
      /\ new[p.ssrc].packets = q.streams[p.ssrc].packets \cup {p}
      /\ new = [s \in Ssrcs |-> [size |-> new[s].size, packets |-> new[s].packets]]
  BY <1>1, <1>a, <1>b
<1>6. /\ r.streams = new /\ r.priorities = order2 /\ r.sizePackets = q.sizePackets + 1
      /\ r.size = q.size + p.size /\ r.maxSize = q.maxSize
      /\ r.lastTimeUpdated = p.enqueueTime /\ r.queueTimeSum = sum
  OBVIOUS
<1>7. Fields(r)
  <2>1. r = [streams |-> r.streams, priorities |-> r.priorities,
             sizePackets |-> r.sizePackets, size |-> r.size, maxSize |-> r.maxSize,
             lastTimeUpdated |-> r.lastTimeUpdated, queueTimeSum |-> r.queueTimeSum]
    OBVIOUS
  <2> HIDE DEF r
  <2>2. r.streams = [s \in Ssrcs |-> [size |-> r.streams[s].size,
                                      packets |-> r.streams[s].packets]]
    BY <1>5, <1>6
  <2> QED
    BY <2>1, <2>2 DEF Fields
<1> HIDE DEF r
<1> QED
  BY <1>4, <1>5, <1>6, <1>7 DEF sum, order2

\* A stream's packets with a later one: the top is the new one if it is more
\* urgent than all, and the old one otherwise.
LEMMA TopAdded ==
  ASSUME NEW packets, Distinct(packets), NEW p \in Packet,
         \A r \in packets : r.order < p.order
  PROVE  /\ Distinct(packets \cup {p}) /\ p \notin packets
         /\ packets = {} => Top(packets \cup {p}) = p
         /\ packets # {} /\ p.priority < Top(packets).priority => Top(packets \cup {p}) = p
         /\ packets # {} /\ ~(p.priority < Top(packets).priority) =>
              Top(packets \cup {p}) = Top(packets)
<1> DEFINE all == packets \cup {p}
<1>1. /\ packets \subseteq Packet
      /\ \A r \in packets : r.order \in Nat /\ r.priority \in Nat /\ r.order < p.order
      /\ p.order \in Nat /\ p.priority \in Nat
      /\ \A r, x \in packets : r.order = x.order => r = x
  BY PacketFields DEF Distinct
<1>2. p \notin packets
  BY <1>1
<1>3. Distinct(all)
  <2>1. ASSUME NEW r \in all, NEW x \in all, r.order = x.order PROVE r = x
    <3>1. CASE r \in packets /\ x \in packets
      BY <1>1, <2>1, <3>1
    <3>2. CASE r \in packets /\ x = p
      BY <1>1, <2>1, <3>2
    <3>3. CASE r = p /\ x \in packets
      BY <1>1, <2>1, <3>3
    <3> QED
      BY <3>1, <3>2, <3>3
  <2> QED
    BY <1>1, <2>1 DEF Distinct
<1> HIDE DEF all
<1>4. p \in all /\ \A r \in all \ {p} : r \in packets
  BY DEF all
<1>5. ASSUME packets = {} PROVE Top(all) = p
  BY <1>3, <1>4, <1>5, TopIs
<1> DEFINE t == Top(packets)
<1>6. packets # {} => t \in packets /\ \A r \in packets \ {t} : Before(t, r)
  BY TopFacts
<1> HIDE DEF t
<1>7. ASSUME packets # {}, p.priority < t.priority PROVE Top(all) = p
  <2>1. ASSUME NEW r \in all \ {p} PROVE Before(p, r)
    <3>1. r \in packets /\ t \in packets /\ (r = t \/ Before(t, r))
      BY <1>4, <1>6, <1>7
    <3>2. r.priority \in Nat /\ t.priority \in Nat /\ t.priority <= r.priority
      BY <1>1, <3>1 DEF Before
    <3> QED
      BY <1>1, <1>7, <3>2 DEF Before
  <2> QED
    BY <1>3, <1>4, <2>1, TopIs
<1>8. ASSUME packets # {}, ~(p.priority < t.priority) PROVE Top(all) = t
  <2>1. t \in packets /\ t \in all /\ Before(t, p)
    BY <1>1, <1>6, <1>8 DEF Before, all
  <2>2. \A r \in all \ {t} : Before(t, r)
    BY <1>6, <1>8, <2>1 DEF all
  <2> QED
    BY <1>3, <2>1, <2>2, TopIs
<1> QED
  BY <1>2, <1>3, <1>5, <1>7, <1>8 DEF all, t

Others(q, s) == {k \in Keys(q) : k.ssrc # s}

\* The keys without those of one stream.
LEMMA OthersFacts ==
  ASSUME NEW q, NEW n, QueueOK(q, n), NEW s \in Ssrcs
  PROVE  /\ s \in Waiting(q) => Keys(q) \ {KeyOf(q, s)} = Others(q, s)
         /\ s \notin Waiting(q) => Keys(q) = Others(q, s)
         /\ \A k \in Keys(q) : k.ssrc \in Waiting(q) /\ k = KeyOf(q, k.ssrc)
<1>1. \A t \in Waiting(q) : KeyOf(q, t).ssrc = t
  BY KeyFacts
<1>2. \A k \in Keys(q) : k.ssrc \in Waiting(q) /\ k = KeyOf(q, k.ssrc)
  BY <1>1 DEF Keys
<1>3. ASSUME s \in Waiting(q) PROVE Keys(q) \ {KeyOf(q, s)} = Others(q, s)
  <2>1. KeyOf(q, s).ssrc = s
    BY <1>1, <1>3
  <2>2. \A k \in Keys(q) : k.ssrc = s <=> k = KeyOf(q, s)
    BY <1>2, <2>1
  <2> QED
    BY <2>2 DEF Others
<1>4. ASSUME s \notin Waiting(q) PROVE Keys(q) = Others(q, s)
  BY <1>2, <1>4 DEF Others
<1> QED
  BY <1>2, <1>3, <1>4

\* The keys after one stream changed.
LEMMA KeysChange ==
  ASSUME NEW q, NEW n, QueueOK(q, n), NEW r, NEW s \in Ssrcs,
         \A t \in Ssrcs : t # s => r.streams[t].packets = q.streams[t].packets
                                   /\ r.streams[t].size = q.streams[t].size
  PROVE  Keys(r) = Others(q, s) \cup (IF s \in Waiting(r) THEN {KeyOf(r, s)} ELSE {})
<1>1. \A t \in Ssrcs : t # s => KeyOf(r, t) = KeyOf(q, t) /\ (t \in Waiting(r) <=> t \in Waiting(q))
  BY DEF KeyOf, Waiting
<1>2. \A t \in Waiting(q) : KeyOf(q, t).ssrc = t /\ t \in Ssrcs
  BY KeyFacts
<1>3. ASSUME NEW k \in Keys(r)
      PROVE  k \in Others(q, s) \cup (IF s \in Waiting(r) THEN {KeyOf(r, s)} ELSE {})
  <2>1. PICK t \in Waiting(r) : k = KeyOf(r, t)
    BY DEF Keys
  <2>2. CASE t = s
    BY <2>1, <2>2
  <2>3. CASE t # s
    <3>1. t \in Waiting(q) /\ k = KeyOf(q, t) /\ k.ssrc = t
      BY <1>1, <1>2, <2>1, <2>3 DEF Waiting
    <3> QED
      BY <2>3, <3>1 DEF Others, Keys
  <2> QED
    BY <2>2, <2>3
<1>4. ASSUME NEW k \in Others(q, s) PROVE k \in Keys(r)
  <2>1. PICK t \in Waiting(q) : k = KeyOf(q, t)
    BY DEF Others, Keys
  <2>2. t # s /\ t \in Ssrcs
    BY <1>2, <2>1 DEF Others
  <2> QED
    BY <1>1, <2>1, <2>2 DEF Keys
<1>5. s \in Waiting(r) => KeyOf(r, s) \in Keys(r)
  BY DEF Keys
<1> QED
  BY <1>3, <1>4, <1>5

\* The order after a push is an index of the streams after it.
LEMMA PushIndexes ==
  ASSUME NEW q, NEW n, QueueOK(q, n), NEW p \in Packet, p.order = n
  PROVE  Indexes(Push(q, p).priorities, Keys(Push(q, p)))
<1> DEFINE s == p.ssrc
           r == Push(q, p)
           entry == Entry(p.priority, q.streams[s].size, s)
           packets == q.streams[s].packets
           i == Position(q.priorities, s)
<1>1. /\ \A t \in Ssrcs : r.streams[t].size = q.streams[t].size
      /\ \A t \in Ssrcs : t # s => r.streams[t].packets = q.streams[t].packets
      /\ r.streams[s].packets = packets \cup {p}
      /\ r.priorities = Reordered(q, p)
  BY PushFields
<1>2. s \in Ssrcs /\ p.priority \in Nat
  BY PacketFields
<1>3. StreamOK(q, n, s) /\ Indexes(q.priorities, Keys(q))
  BY <1>2 DEF QueueOK
<1>4. entry \in Entries /\ entry.ssrc = s /\ entry.priority = p.priority
  BY <1>2, <1>3 DEF Entry, Entries, StreamOK
<1>5. Distinct(packets) /\ \A x \in packets : x.order < p.order
  BY <1>3 DEF StreamOK
<1>6. /\ packets = {} => Top(packets \cup {p}) = p
      /\ packets # {} /\ p.priority < Top(packets).priority => Top(packets \cup {p}) = p
      /\ packets # {} /\ ~(p.priority < Top(packets).priority) =>
           Top(packets \cup {p}) = Top(packets)
  BY <1>5, TopAdded
<1>7. Reordered(q, p) =
        IF i \notin DOMAIN q.priorities THEN Emplace(q.priorities, entry)
        ELSE IF p.priority < q.priorities[i].priority
        THEN Emplace(Erase(q.priorities, i), entry)
        ELSE q.priorities
  BY Zenon DEF Reordered, Moves
<1>8. KeyOf(r, s) = Entry(Top(packets \cup {p}).priority, q.streams[s].size, s)
  BY <1>1, <1>2 DEF KeyOf
<1>9. s \in Waiting(r)
  BY <1>1, <1>2 DEF Waiting
<1> HIDE DEF r
<1>10. Keys(r) = Others(q, s) \cup {KeyOf(r, s)}
  <2> HIDE DEF s
  <2>1. \A t \in Ssrcs : t # s => r.streams[t].packets = q.streams[t].packets
                                  /\ r.streams[t].size = q.streams[t].size
    BY <1>1
  <2>2. Keys(r) = Others(q, s) \cup (IF s \in Waiting(r) THEN {KeyOf(r, s)} ELSE {})
    BY <1>2, <2>1, KeysChange
  <2> QED
    BY <1>9, <2>2
<1>11. s \in Waiting(q) <=> packets # {}
  BY <1>2 DEF Waiting
<1>12. \A k \in Others(q, s) : k.ssrc # entry.ssrc
  BY <1>4 DEF Others
<1> HIDE DEF i
<1>13. CASE packets = {}
  <2>1. Keys(q) = Others(q, s) /\ KeyOf(r, s) = entry
    BY <1>2, <1>6, <1>8, <1>11, <1>13, OthersFacts
  <2>2. \A k \in Keys(q) : k.ssrc # s
    BY <2>1 DEF Others
  <2>3. i \notin DOMAIN q.priorities
    BY <1>3, <2>2, PositionFacts DEF i
  <2>4. Indexes(Emplace(q.priorities, entry), Keys(q) \cup {entry})
    BY <1>3, <1>4, <1>12, <2>1, EmplaceIndexes
  <2> QED
    BY <1>1, <1>7, <1>10, <2>1, <2>3, <2>4 DEF r
<1>14. CASE packets # {}
  <2>1. KeyOf(q, s).ssrc = s /\ KeyOf(q, s).priority = Top(packets).priority
    BY <1>11, <1>14, KeyFacts
  <2>2. KeyOf(q, s) \in Keys(q)
    BY <1>11, <1>14 DEF Keys
  <2>3. i \in 1..Len(q.priorities) /\ q.priorities[i].ssrc = s
    BY <1>3, <2>1, <2>2, PositionFacts DEF i
  <2>4. i \in DOMAIN q.priorities /\ q.priorities[i] \in Keys(q)
    BY <1>3, <2>3, IndexBasics
  <2>5. q.priorities[i] = KeyOf(q, s)
    BY <1>2, <2>3, <2>4, OthersFacts
  <2>6. Keys(q) \ {KeyOf(q, s)} = Others(q, s)
    BY <1>2, <1>11, <1>14, OthersFacts
  <2>7. CASE p.priority < Top(packets).priority
    <3>1. Reordered(q, p) = Emplace(Erase(q.priorities, i), entry)
      BY <1>7, <2>1, <2>4, <2>5, <2>7
    <3>2. KeyOf(r, s) = entry
      BY <1>6, <1>8, <1>14, <2>7
    <3>3. Indexes(Erase(q.priorities, i), Others(q, s))
      BY <1>3, <2>3, <2>5, <2>6, EraseIndexes
    <3>4. Indexes(Emplace(Erase(q.priorities, i), entry), Others(q, s) \cup {entry})
      BY <1>4, <1>12, <3>3, EmplaceIndexes
    <3> QED
      BY <1>1, <1>10, <3>1, <3>2, <3>4 DEF r
  <2>8. CASE ~(p.priority < Top(packets).priority)
    <3>1. Reordered(q, p) = q.priorities
      BY <1>7, <2>1, <2>4, <2>5, <2>8
    <3>2. KeyOf(r, s) = KeyOf(q, s)
      BY <1>6, <1>8, <1>14, <2>8 DEF KeyOf
    <3>3. Keys(r) = Keys(q)
      BY <1>10, <2>2, <2>6, <3>2
    <3> QED
      BY <1>1, <1>3, <3>1, <3>3 DEF r
  <2> QED
    BY <2>7, <2>8
<1> QED
  BY <1>13, <1>14

\* Push keeps the queue in order.
LEMMA PushOK ==
  ASSUME NEW q, NEW n \in Nat, QueueOK(q, n), NEW p \in Packet, p.order = n
  PROVE  /\ QueueOK(Push(q, p), n + 1)
         /\ Queued(Push(q, p)) = Queued(q) \cup {p} /\ p \notin Queued(q)
<1> DEFINE s == p.ssrc
           r == Push(q, p)
<1>1. /\ Fields(r)
      /\ \A t \in Ssrcs : r.streams[t].size = q.streams[t].size
      /\ \A t \in Ssrcs : t # s => r.streams[t].packets = q.streams[t].packets
      /\ r.streams[s].packets = q.streams[s].packets \cup {p}
      /\ r.maxSize = q.maxSize /\ r.lastTimeUpdated = p.enqueueTime
  BY PushFields
<1>2. Indexes(r.priorities, Keys(r))
  BY PushIndexes
<1>3. s \in Ssrcs /\ p.enqueueTime \in Int
  BY PacketFields
<1> HIDE DEF r
<1>4. \A t \in Ssrcs : \A x \in q.streams[t].packets : x \in Packet /\ x.order \in Nat /\ x.order < n
  BY PacketFields DEF QueueOK, StreamOK, Distinct
<1>5. ASSUME NEW t \in Ssrcs PROVE StreamOK(r, n + 1, t)
  <2>1. StreamOK(q, n, t)
    BY DEF QueueOK
  <2>2. CASE t = s
    <3>1. Distinct(r.streams[t].packets)
      <4>1. Distinct(q.streams[t].packets) /\ \A x \in q.streams[t].packets : x.order < p.order
        BY <2>1 DEF StreamOK
      <4>2. Distinct(q.streams[t].packets \cup {p})
        BY <4>1, TopAdded
      <4> QED
        BY <1>1, <2>2, <4>2
    <3>2. \A x \in r.streams[t].packets : x.ssrc = t /\ x.order < n + 1
      <4>1. \A x \in q.streams[t].packets : x.ssrc = t /\ x.order < n + 1
        BY <1>4, <2>1 DEF StreamOK
      <4> QED
        BY <1>1, <2>2, <4>1
    <3> QED
      BY <1>1, <2>1, <3>1, <3>2 DEF StreamOK
  <2>3. CASE t # s
    <3>1. r.streams[t].packets = q.streams[t].packets /\ r.streams[t].size = q.streams[t].size
      BY <1>1, <2>3
    <3>2. \A x \in q.streams[t].packets : x.order < n + 1
      BY <1>4
    <3> QED
      BY <1>1, <2>1, <3>1, <3>2 DEF StreamOK
  <2> QED
    BY <2>2, <2>3
<1>6. QueueOK(r, n + 1)
  <2>1. r.maxSize \in Nat /\ MaxLeadingSize <= r.maxSize
    BY <1>1 DEF QueueOK
  <2> QED
    BY <1>1, <1>2, <1>3, <1>5, <2>1 DEF QueueOK
<1>7. Queued(r) = Queued(q) \cup {p}
  <2>1. \A x : x \in Queued(r) <=> \E t \in Ssrcs : x \in r.streams[t].packets
    BY DEF Queued
  <2>2. \A x : x \in Queued(q) <=> \E t \in Ssrcs : x \in q.streams[t].packets
    BY DEF Queued
  <2>3. \A t \in Ssrcs : \A x : x \in r.streams[t].packets <=>
           x \in q.streams[t].packets \/ (t = s /\ x = p)
    BY <1>1
  <2>4. \A x : x \in Queued(r) <=> x \in Queued(q) \/ x = p
    BY <1>3, <2>1, <2>2, <2>3
  <2> QED
    BY <2>4
<1>8. p \notin Queued(q)
  <2>1. ASSUME p \in Queued(q) PROVE FALSE
    <3>1. PICK t \in Ssrcs : p \in q.streams[t].packets
      BY <2>1 DEF Queued
    <3> QED
      BY <1>4, <3>1
  <2> QED
    BY <2>1
<1> QED
  BY <1>6, <1>7, <1>8 DEF r

TheLarger(a, b) == IF a >= b THEN a ELSE b

\* What Pop looks at: the stream in front of the order, and its top.
LEMMA FrontFacts ==
  ASSUME NEW q, NEW n, QueueOK(q, n), Queued(q) # {}
  PROVE  /\ HighestPriorityStream(q) \in Waiting(q)
         /\ NextPacket(q) \in q.streams[HighestPriorityStream(q)].packets
         /\ NextPacket(q) \in Packet /\ NextPacket(q).ssrc = HighestPriorityStream(q)
         /\ \A r \in q.streams[HighestPriorityStream(q)].packets \ {NextPacket(q)} :
               Before(NextPacket(q), r)
         /\ q.priorities # << >>
         /\ Head(q.priorities) = KeyOf(q, HighestPriorityStream(q))
         /\ \A t \in Waiting(q) : ~KeyLess(KeyOf(q, t), KeyOf(q, HighestPriorityStream(q)))
<1> DEFINE s == HighestPriorityStream(q)
<1>1. PICK t \in Ssrcs : t \in Waiting(q)
  BY DEF Queued, Waiting
<1>2. Indexes(q.priorities, Keys(q)) /\ KeyOf(q, t) \in Keys(q)
  BY <1>1 DEF QueueOK, Keys
<1>3. q.priorities # << >>
  <2>1. PICK i \in 1..Len(q.priorities) : q.priorities[i] = KeyOf(q, t)
    BY <1>2, IndexBasics
  <2>2. Len(q.priorities) # 0 /\ IsQueue(q.priorities)
    BY <1>2, <2>1, IndexBasics DEF Indexes
  <2> QED
    BY <2>2, QueueBasics
<1>4. /\ Head(q.priorities) \in Keys(q)
      /\ \A e \in Keys(q) : ~KeyLess(e, Head(q.priorities))
  BY <1>2, <1>3, TailIndexes
<1>5. s = Head(q.priorities).ssrc
  BY DEF HighestPriorityStream
<1>6. s \in Waiting(q) /\ Head(q.priorities) = KeyOf(q, s)
  BY <1>1, <1>4, <1>5, OthersFacts
<1>7. \A u \in Waiting(q) : ~KeyLess(KeyOf(q, u), KeyOf(q, s))
  BY <1>4, <1>6 DEF Keys
<1>8. /\ Distinct(q.streams[s].packets) /\ q.streams[s].packets # {} /\ s \in Ssrcs
      /\ \A p \in q.streams[s].packets : p.ssrc = s
  BY <1>6, KeyFacts DEF Waiting, QueueOK, StreamOK
<1>9. NextPacket(q) = Top(q.streams[s].packets)
  BY DEF NextPacket
<1>10. /\ NextPacket(q) \in q.streams[s].packets
       /\ \A r \in q.streams[s].packets \ {NextPacket(q)} : Before(NextPacket(q), r)
  BY <1>8, <1>9, TopFacts
<1> QED
  BY <1>3, <1>6, <1>7, <1>8, <1>10 DEF Distinct

\* What Pop leaves.
LEMMA PopFields ==
  ASSUME NEW q, NEW n, QueueOK(q, n), Queued(q) # {},
         NEW s, s = HighestPriorityStream(q), NEW p, p = NextPacket(q)
  PROVE  /\ Fields(Pop(q))
         /\ \A t \in Ssrcs : t # s => /\ Pop(q).streams[t].size = q.streams[t].size
                                      /\ Pop(q).streams[t].packets = q.streams[t].packets
         /\ Pop(q).streams[s].packets = q.streams[s].packets \ {p}
         /\ Pop(q).streams[s].size = TheLarger(q.streams[s].size + p.size, LeadingFloor(q))
         /\ Pop(q).priorities =
              IF Pop(q).streams[s].packets = {} THEN Tail(q.priorities)
              ELSE Emplace(Tail(q.priorities), KeyOf(Pop(q), s))
         /\ Pop(q).sizePackets = q.sizePackets - 1
         /\ Pop(q).size = q.size - p.size
         /\ Pop(q).maxSize = TheLarger(Pop(q).streams[s].size, q.maxSize)
         /\ Pop(q).lastTimeUpdated = q.lastTimeUpdated
         /\ Pop(q).queueTimeSum = q.queueTimeSum - (q.lastTimeUpdated - p.enqueueTime)
<1> DEFINE left == q.streams[s].packets \ {p}
           size == TheLarger(q.streams[s].size + p.size, LeadingFloor(q))
           new == [q.streams EXCEPT ![s] = [size |-> size, packets |-> left]]
           rest == IF left = {} THEN Tail(q.priorities)
                   ELSE Emplace(Tail(q.priorities), Entry(Top(left).priority, size, s))
           largest == TheLarger(size, q.maxSize)
           sum == q.queueTimeSum - (q.lastTimeUpdated - p.enqueueTime)
           r == [streams |-> new, priorities |-> rest,
                 sizePackets |-> q.sizePackets - 1, size |-> q.size - p.size,
                 maxSize |-> largest, lastTimeUpdated |-> q.lastTimeUpdated,
                 queueTimeSum |-> sum]
<1>1. Fields(q) /\ s \in Ssrcs
  BY FrontFacts, KeyFacts DEF QueueOK
<1>2. Pop(q) = [q EXCEPT !.streams[s] = [size |-> size, packets |-> left],
                         !.priorities = rest, !.maxSize = largest,
                         !.sizePackets = @ - 1, !.size = @ - p.size,
                         !.queueTimeSum = @ - (q.lastTimeUpdated - p.enqueueTime)]
  BY Zenon DEF Pop, TheLarger
<1>3. Pop(q) = [q EXCEPT !.streams = new,
                         !.priorities = rest, !.maxSize = largest,
                         !.sizePackets = @ - 1, !.size = @ - p.size,
                         !.queueTimeSum = sum]
  BY <1>2, Zenon
<1>4. new = [t \in Ssrcs |-> IF t = s THEN [size |-> size, packets |-> left]
                             ELSE [size |-> q.streams[t].size, packets |-> q.streams[t].packets]]
  <2>1. PICK st : st = q.streams
    OBVIOUS
  <2> HIDE DEF size, left
  <2>2. st = [t \in Ssrcs |-> [size |-> st[t].size, packets |-> st[t].packets]]
    BY <1>1, <2>1 DEF Fields
  <2>3. new = [st EXCEPT ![s] = [size |-> size, packets |-> left]]
    BY <2>1
  <2> HIDE DEF new
  <2>4. new = [t \in Ssrcs |-> IF t = s THEN [size |-> size, packets |-> left]
                               ELSE [size |-> st[t].size, packets |-> st[t].packets]]
    BY <1>1, <2>2, <2>3
  <2> QED
    BY <2>1, <2>4
<1> HIDE DEF size, left, new, rest, largest, sum
<1>5. Pop(q) = r
  BY <1>1, <1>3 DEF Fields
<1>6. /\ new[s].size = size /\ new[s].packets = left
      /\ \A t \in Ssrcs : t # s => /\ new[t].size = q.streams[t].size
                                   /\ new[t].packets = q.streams[t].packets
      /\ new = [t \in Ssrcs |-> [size |-> new[t].size, packets |-> new[t].packets]]
  BY <1>1, <1>4
<1>7. /\ r.streams = new /\ r.priorities = rest /\ r.sizePackets = q.sizePackets - 1
      /\ r.size = q.size - p.size /\ r.maxSize = largest
      /\ r.lastTimeUpdated = q.lastTimeUpdated /\ r.queueTimeSum = sum
  OBVIOUS
<1>8. r = [streams |-> r.streams, priorities |-> r.priorities,
           sizePackets |-> r.sizePackets, size |-> r.size, maxSize |-> r.maxSize,
           lastTimeUpdated |-> r.lastTimeUpdated, queueTimeSum |-> r.queueTimeSum]
  OBVIOUS
<1> HIDE DEF r
<1>9. Fields(r)
  BY <1>6, <1>7, <1>8 DEF Fields
<1>10. left # {} => KeyOf(r, s) = Entry(Top(left).priority, size, s)
  BY <1>6, <1>7 DEF KeyOf
<1>11. r.priorities = IF left = {} THEN Tail(q.priorities)
                      ELSE Emplace(Tail(q.priorities), KeyOf(r, s))
  BY <1>7, <1>10 DEF rest
<1> QED
  BY <1>5, <1>6, <1>7, <1>9, <1>11 DEF size, left, largest, sum

\* Numbers of a pop.
LEMMA PopSizes ==
  ASSUME NEW q, NEW n, QueueOK(q, n), Queued(q) # {},
         NEW s, s = HighestPriorityStream(q), NEW p, p = NextPacket(q)
  PROVE  /\ Pop(q).streams[s].size \in Nat
         /\ q.streams[s].size + p.size <= Pop(q).streams[s].size
         /\ q.maxSize - MaxLeadingSize <= Pop(q).streams[s].size
         /\ Pop(q).streams[s].size <= Pop(q).maxSize
         /\ Pop(q).maxSize \in Nat /\ q.maxSize <= Pop(q).maxSize
<1>1. q.streams[s].size \in Nat /\ q.maxSize \in Nat /\ MaxLeadingSize <= q.maxSize
  BY FrontFacts, KeyFacts DEF QueueOK, StreamOK
<1>2. p.size \in Nat /\ MaxLeadingSize \in Nat
  BY FrontFacts, PacketFields, ConstantFacts
<1>3. /\ Pop(q).streams[s].size = TheLarger(q.streams[s].size + p.size, LeadingFloor(q))
      /\ Pop(q).maxSize = TheLarger(Pop(q).streams[s].size, q.maxSize)
  BY PopFields
<1> QED
  BY <1>1, <1>2, <1>3 DEF TheLarger, LeadingFloor

\* Pop keeps the queue in order, and takes one packet.
LEMMA PopOK ==
  ASSUME NEW q, NEW n \in Nat, QueueOK(q, n), Queued(q) # {}
  PROVE  /\ QueueOK(Pop(q), n)
         /\ NextPacket(q) \in Queued(q)
         /\ Queued(Pop(q)) = Queued(q) \ {NextPacket(q)}
<1> DEFINE s == HighestPriorityStream(q)
           p == NextPacket(q)
           r == Pop(q)
<1>1. /\ s \in Waiting(q) /\ s \in Ssrcs
      /\ p \in q.streams[s].packets /\ p.ssrc = s
      /\ q.priorities # << >> /\ Head(q.priorities) = KeyOf(q, s)
  BY FrontFacts, KeyFacts
<1>2. /\ Fields(r)
      /\ \A t \in Ssrcs : t # s => /\ r.streams[t].size = q.streams[t].size
                                   /\ r.streams[t].packets = q.streams[t].packets
      /\ r.streams[s].packets = q.streams[s].packets \ {p}
      /\ r.priorities = IF r.streams[s].packets = {} THEN Tail(q.priorities)
                        ELSE Emplace(Tail(q.priorities), KeyOf(r, s))
      /\ r.lastTimeUpdated = q.lastTimeUpdated
  BY PopFields
<1>3. /\ r.streams[s].size \in Nat /\ r.streams[s].size <= r.maxSize
      /\ r.maxSize \in Nat /\ q.maxSize <= r.maxSize
  BY PopSizes
<1>4. /\ q.maxSize \in Nat /\ MaxLeadingSize <= q.maxSize /\ MaxLeadingSize \in Nat
      /\ q.lastTimeUpdated \in Int /\ Indexes(q.priorities, Keys(q))
      /\ \A t \in Ssrcs : StreamOK(q, n, t)
  BY ConstantFacts DEF QueueOK
<1> HIDE DEF s, p, r
<1>5. ASSUME NEW t \in Ssrcs PROVE StreamOK(r, n, t)
  <2>1. CASE t = s
    <3>1. Distinct(r.streams[t].packets)
      BY <1>1, <1>2, <1>4, <2>1 DEF StreamOK, Distinct
    <3>2. \A x \in r.streams[t].packets : x.ssrc = t /\ x.order < n
      BY <1>1, <1>2, <1>4, <2>1 DEF StreamOK
    <3> QED
      BY <1>3, <2>1, <3>1, <3>2 DEF StreamOK
  <2>2. CASE t # s
    <3>1. r.streams[t].packets = q.streams[t].packets /\ r.streams[t].size = q.streams[t].size
      BY <1>2, <2>2
    <3>2. q.streams[t].size \in Nat /\ q.streams[t].size <= r.maxSize
      BY <1>3, <1>4 DEF StreamOK
    <3> QED
      BY <1>4, <3>1, <3>2 DEF StreamOK
  <2> QED
    BY <2>1, <2>2
<1>6. Indexes(r.priorities, Keys(r))
  <2>1. Indexes(Tail(q.priorities), Others(q, s))
    <3>1. Indexes(Tail(q.priorities), Keys(q) \ {KeyOf(q, s)})
      BY <1>1, <1>4, TailIndexes
    <3> QED
      BY <1>1, <3>1, OthersFacts
  <2>2. Keys(r) = Others(q, s) \cup (IF s \in Waiting(r) THEN {KeyOf(r, s)} ELSE {})
    BY <1>1, <1>2, KeysChange
  <2>3. s \in Waiting(r) <=> r.streams[s].packets # {}
    BY <1>1 DEF Waiting
  <2>4. CASE r.streams[s].packets = {}
    BY <1>2, <2>1, <2>2, <2>3, <2>4
  <2>5. CASE r.streams[s].packets # {}
    <3>1. KeyOf(r, s) \in Entries /\ KeyOf(r, s).ssrc = s
      <4>1. Distinct(r.streams[s].packets)
        BY <1>1, <1>5 DEF StreamOK
      <4>2. Top(r.streams[s].packets) \in r.streams[s].packets
        BY <2>5, <4>1, TopFacts
      <4>3. Top(r.streams[s].packets).priority \in Nat
        BY <4>1, <4>2, PacketFields DEF Distinct
      <4> QED
        BY <1>1, <1>3, <4>3 DEF KeyOf, Entry, Entries
    <3>2. \A k \in Others(q, s) : k.ssrc # KeyOf(r, s).ssrc
      BY <3>1 DEF Others
    <3>3. Indexes(Emplace(Tail(q.priorities), KeyOf(r, s)), Others(q, s) \cup {KeyOf(r, s)})
      BY <2>1, <3>1, <3>2, EmplaceIndexes
    <3> QED
      BY <1>2, <2>2, <2>3, <2>5, <3>3
  <2> QED
    BY <2>4, <2>5
<1>7. QueueOK(r, n)
  <2>1. MaxLeadingSize <= r.maxSize
    BY <1>3, <1>4
  <2> QED
    BY <1>2, <1>3, <1>4, <1>5, <1>6, <2>1 DEF QueueOK
<1>8. p \in Queued(q)
  BY <1>1 DEF Queued
<1>9. Queued(r) = Queued(q) \ {p}
  <2>1. \A x : x \in Queued(r) <=> \E t \in Ssrcs : x \in r.streams[t].packets
    BY DEF Queued
  <2>2. \A x : x \in Queued(q) <=> \E t \in Ssrcs : x \in q.streams[t].packets
    BY DEF Queued
  <2>3. \A t \in Ssrcs : p \in q.streams[t].packets => t = s
    BY <1>1, <1>4 DEF StreamOK
  <2>4. \A t \in Ssrcs : \A x : x \in r.streams[t].packets <=>
           x \in q.streams[t].packets /\ x # p
    BY <1>1, <1>2, <2>3
  <2>5. \A x : x \in Queued(r) <=> x \in Queued(q) /\ x # p
    BY <2>1, <2>2, <2>4
  <2> QED
    BY <2>5
<1> QED
  BY <1>7, <1>8, <1>9 DEF p, r

-----------------------------------------------------------------------------
(* The totals that the queue keeps.                                        *)

SizeOf == [p \in Packet |-> p.size]
WaitedAt(t) == [p \in Packet |-> t - p.enqueueTime]

TotalsOK(q) ==
  /\ IsFiniteSet(Queued(q))
  /\ q.sizePackets = Cardinality(Queued(q))
  /\ q.size = Total(SizeOf, Queued(q))
  /\ q.queueTimeSum = Total(WaitedAt(q.lastTimeUpdated), Queued(q))

LEMMA QueuedPackets ==
  ASSUME NEW q, NEW n, QueueOK(q, n)
  PROVE  Queued(q) \subseteq Packet
BY DEF QueueOK, StreamOK, Distinct, Queued

LEMMA TermFacts ==
  ASSUME NEW p \in Packet, NEW t \in Int
  PROVE  /\ SizeOf[p] = p.size /\ SizeOf[p] \in Int
         /\ WaitedAt(t)[p] = t - p.enqueueTime /\ WaitedAt(t)[p] \in Int
BY PacketFields DEF SizeOf, WaitedAt

\* A queue of another time: each packet waited the difference.
LEMMA TimeShift ==
  ASSUME NEW S \in SUBSET Packet, IsFiniteSet(S), NEW t \in Int, NEW u \in Int
  PROVE  Total(WaitedAt(u), S) = Total(WaitedAt(t), S) + (u - t) * Cardinality(S)
<1>1. \A p \in S : WaitedAt(t)[p] \in Int /\ WaitedAt(u)[p] = WaitedAt(t)[p] + (u - t)
  <2> SUFFICES ASSUME NEW p \in S
               PROVE  WaitedAt(t)[p] \in Int /\ WaitedAt(u)[p] = WaitedAt(t)[p] + (u - t)
    OBVIOUS
  <2>1. p.enqueueTime \in Int /\ WaitedAt(t)[p] = t - p.enqueueTime /\ WaitedAt(u)[p] = u - p.enqueueTime
    BY TermFacts, PacketFields
  <2> QED
    BY <2>1
<1>2. PICK d \in Int : d = u - t
  OBVIOUS
<1>3. Total(WaitedAt(u), S) = Total(WaitedAt(t), S) + d * Cardinality(S)
  BY <1>1, <1>2, TotalShift
<1> QED
  BY <1>2, <1>3

LEMMA PushTotals ==
  ASSUME NEW q, NEW n \in Nat, QueueOK(q, n), TotalsOK(q), NEW p \in Packet, p.order = n
  PROVE  TotalsOK(Push(q, p))
<1> DEFINE S == Queued(q)
           r == Push(q, p)
<1>1. /\ S \in SUBSET Packet /\ IsFiniteSet(S) /\ p \notin S /\ Queued(r) = S \cup {p}
      /\ q.lastTimeUpdated \in Int /\ p.enqueueTime \in Int
  BY QueuedPackets, PushOK, PacketFields DEF TotalsOK, QueueOK
<1>2. /\ r.sizePackets = q.sizePackets + 1 /\ r.size = q.size + p.size
      /\ r.lastTimeUpdated = p.enqueueTime
      /\ r.queueTimeSum =
           q.queueTimeSum + (p.enqueueTime - q.lastTimeUpdated) * q.sizePackets
  BY PushFields
<1>3. /\ q.sizePackets = Cardinality(S) /\ q.size = Total(SizeOf, S)
      /\ q.queueTimeSum = Total(WaitedAt(q.lastTimeUpdated), S)
  BY DEF TotalsOK
<1> HIDE DEF S, r
<1>4. \A x \in S \cup {p} : x \in Packet
  BY <1>1
<1>5. Total(SizeOf, S \cup {p}) = Total(SizeOf, S) + p.size
  <2>1. \A x \in S \cup {p} : SizeOf[x] \in Int
    BY <1>1, <1>4, TermFacts
  <2>2. Total(SizeOf, S \cup {p}) = Total(SizeOf, S) + SizeOf[p]
    BY <1>1, <2>1, TotalAdd
  <2> QED
    BY <1>1, <2>2, TermFacts
<1>6. Total(WaitedAt(p.enqueueTime), S \cup {p}) = Total(WaitedAt(p.enqueueTime), S)
  <2>1. \A x \in S \cup {p} : WaitedAt(p.enqueueTime)[x] \in Int
    BY <1>1, <1>4, TermFacts
  <2>2. /\ Total(WaitedAt(p.enqueueTime), S) \in Int
        /\ Total(WaitedAt(p.enqueueTime), S \cup {p})
             = Total(WaitedAt(p.enqueueTime), S) + WaitedAt(p.enqueueTime)[p]
    BY <1>1, <2>1, TotalAdd
  <2>3. WaitedAt(p.enqueueTime)[p] = 0
    BY <1>1, TermFacts
  <2> QED
    BY <2>2, <2>3
<1>7. Total(WaitedAt(p.enqueueTime), S) =
        Total(WaitedAt(q.lastTimeUpdated), S)
          + (p.enqueueTime - q.lastTimeUpdated) * Cardinality(S)
  BY <1>1, TimeShift
<1>8. IsFiniteSet(S \cup {p}) /\ Cardinality(S \cup {p}) = Cardinality(S) + 1
  BY <1>1, FS_AddElement
<1>9. r.queueTimeSum = Total(WaitedAt(p.enqueueTime), S \cup {p})
  BY <1>2, <1>3, <1>6, <1>7
<1>10. TotalsOK(r)
  BY <1>1, <1>2, <1>3, <1>5, <1>8, <1>9 DEF TotalsOK
<1> QED
  BY <1>10 DEF r

LEMMA PopTotals ==
  ASSUME NEW q, NEW n \in Nat, QueueOK(q, n), TotalsOK(q), Queued(q) # {}
  PROVE  TotalsOK(Pop(q))
<1> DEFINE p == NextPacket(q)
           S == Queued(q) \ {p}
           r == Pop(q)
<1>a. p \in Queued(q) /\ Queued(r) = S /\ Queued(q) \subseteq Packet
  BY QueuedPackets, PopOK
<1>b. IsFiniteSet(Queued(q)) /\ q.lastTimeUpdated \in Int
  BY DEF TotalsOK, QueueOK
<1> HIDE DEF p
<1>c. p \in Packet
  BY <1>a
<1>d. p.size \in Int /\ p.enqueueTime \in Int
  <2>1. p.size \in Nat /\ p.enqueueTime \in Int
    BY <1>c, PacketFields
  <2> QED
    BY <2>1
<1>1. /\ p \in Queued(q) /\ p \in Packet /\ Queued(r) = S /\ Queued(q) \subseteq Packet
      /\ IsFiniteSet(Queued(q)) /\ q.lastTimeUpdated \in Int /\ p.size \in Int
      /\ p.enqueueTime \in Int
  BY <1>a, <1>b, <1>c, <1>d
<1> USE DEF p
<1>2. /\ r.sizePackets = q.sizePackets - 1 /\ r.size = q.size - p.size
      /\ r.lastTimeUpdated = q.lastTimeUpdated
      /\ r.queueTimeSum = q.queueTimeSum - (q.lastTimeUpdated - p.enqueueTime)
  BY PopFields
<1>3. /\ q.sizePackets = Cardinality(Queued(q)) /\ q.size = Total(SizeOf, Queued(q))
      /\ q.queueTimeSum = Total(WaitedAt(q.lastTimeUpdated), Queued(q))
  BY DEF TotalsOK
<1>4. Queued(q) = S \cup {p} /\ p \notin S /\ S \in SUBSET Packet
  BY <1>1
<1> HIDE DEF S, p, r
<1>5. /\ IsFiniteSet(S) /\ Cardinality(S) = Cardinality(Queued(q)) - 1
      /\ Cardinality(Queued(q)) \in Nat
  BY <1>1, FS_RemoveElement, FS_CardinalityType DEF S
<1>6. \A x \in S \cup {p} : x \in Packet
  BY <1>1, <1>4
<1>7. /\ Total(SizeOf, S) \in Int
      /\ Total(SizeOf, S \cup {p}) = Total(SizeOf, S) + p.size
  <2>1. \A x \in S \cup {p} : SizeOf[x] \in Int
    BY <1>1, <1>6, TermFacts
  <2>2. /\ Total(SizeOf, S) \in Int
        /\ Total(SizeOf, S \cup {p}) = Total(SizeOf, S) + SizeOf[p]
    BY <1>4, <1>5, <2>1, TotalAdd
  <2> QED
    BY <1>1, <2>2, TermFacts
<1> DEFINE t == q.lastTimeUpdated
<1>8. /\ Total(WaitedAt(t), S) \in Int
      /\ Total(WaitedAt(t), S \cup {p}) = Total(WaitedAt(t), S) + (t - p.enqueueTime)
  <2>1. \A x \in S \cup {p} : WaitedAt(t)[x] \in Int
    BY <1>1, <1>6, TermFacts
  <2>2. /\ Total(WaitedAt(t), S) \in Int
        /\ Total(WaitedAt(t), S \cup {p}) = Total(WaitedAt(t), S) + WaitedAt(t)[p]
    BY <1>4, <1>5, <2>1, TotalAdd
  <2>3. WaitedAt(t)[p] = t - p.enqueueTime
    BY <1>1, TermFacts
  <2> QED
    BY <2>2, <2>3
<1>9. r.size = Total(SizeOf, S)
  BY <1>1, <1>2, <1>3, <1>4, <1>7
<1>10. r.queueTimeSum = Total(WaitedAt(t), S)
  BY <1>1, <1>2, <1>3, <1>4, <1>8
<1>11. TotalsOK(r)
  BY <1>1, <1>2, <1>3, <1>5, <1>9, <1>10 DEF TotalsOK
<1> QED
  BY <1>11 DEF r

\* UpdateQueueTime charges all packets that wait.
LEMMA UpdateOK ==
  ASSUME NEW q, NEW n \in Nat, QueueOK(q, n), TotalsOK(q), NEW t \in Int
  PROVE  /\ QueueOK(UpdateQueueTime(q, t), n) /\ TotalsOK(UpdateQueueTime(q, t))
         /\ UpdateQueueTime(q, t).streams = q.streams
<1> DEFINE r == UpdateQueueTime(q, t)
           sum == q.queueTimeSum + (t - q.lastTimeUpdated) * q.sizePackets
<1>0. q.lastTimeUpdated \in Int /\ Fields(q)
  BY DEF QueueOK
<1>1. r = [q EXCEPT !.queueTimeSum = sum, !.lastTimeUpdated = t]
  BY DEF UpdateQueueTime
<1> HIDE DEF r, sum
<1>2. /\ r.streams = q.streams /\ r.priorities = q.priorities
      /\ r.sizePackets = q.sizePackets /\ r.size = q.size /\ r.maxSize = q.maxSize
      /\ r.lastTimeUpdated = t /\ r.queueTimeSum = sum
      /\ r = [streams |-> r.streams, priorities |-> r.priorities,
              sizePackets |-> r.sizePackets, size |-> r.size, maxSize |-> r.maxSize,
              lastTimeUpdated |-> r.lastTimeUpdated, queueTimeSum |-> r.queueTimeSum]
  BY <1>0, <1>1 DEF Fields
<1>3. Queued(r) = Queued(q) /\ Keys(r) = Keys(q) /\ Fields(r)
  BY <1>0, <1>2 DEF Queued, Keys, KeyOf, Waiting, Fields
<1>4. \A s \in Ssrcs : StreamOK(r, n, s)
  BY <1>2 DEF QueueOK, StreamOK
<1>5. QueueOK(r, n)
  BY <1>2, <1>3, <1>4 DEF QueueOK
<1>6. Queued(q) \in SUBSET Packet /\ IsFiniteSet(Queued(q))
  BY QueuedPackets DEF TotalsOK
<1>7. Total(WaitedAt(t), Queued(q)) =
        Total(WaitedAt(q.lastTimeUpdated), Queued(q))
          + (t - q.lastTimeUpdated) * Cardinality(Queued(q))
  BY <1>0, <1>6, TimeShift
<1>8. TotalsOK(r)
  BY <1>2, <1>3, <1>7 DEF TotalsOK, sum
<1> QED
  BY <1>2, <1>5, <1>8 DEF r

-----------------------------------------------------------------------------
(* The invariant.                                                          *)

\* A queue that was just made.
LEMMA EmptyOK ==
  ASSUME NEW t \in Int
  PROVE  QueueOK(EmptyQueue(t), 0) /\ TotalsOK(EmptyQueue(t))
<1> DEFINE q == EmptyQueue(t)
<1>2. /\ q.streams = [s \in Ssrcs |-> NoPackets] /\ q.priorities = << >>
      /\ q.sizePackets = 0 /\ q.size = 0 /\ q.maxSize = MaxLeadingSize
      /\ q.lastTimeUpdated = t /\ q.queueTimeSum = 0
      /\ q = [streams |-> q.streams, priorities |-> q.priorities,
              sizePackets |-> q.sizePackets, size |-> q.size, maxSize |-> q.maxSize,
              lastTimeUpdated |-> q.lastTimeUpdated, queueTimeSum |-> q.queueTimeSum]
  BY DEF EmptyQueue
<1> HIDE DEF q
<1>3. \A s \in Ssrcs : q.streams[s].size = 0 /\ q.streams[s].packets = {}
                       /\ q.streams[s] = [size |-> q.streams[s].size,
                                          packets |-> q.streams[s].packets]
  BY <1>2 DEF NoPackets
<1>4. Fields(q)
  BY <1>2, <1>3 DEF Fields
<1>5. \A s \in Ssrcs : StreamOK(q, 0, s)
  BY <1>2, <1>3, ConstantFacts DEF StreamOK, Distinct
<1>6. Waiting(q) = {} /\ Keys(q) = {} /\ Queued(q) = {}
  BY <1>3 DEF Waiting, Keys, Queued
<1>7. Indexes(q.priorities, Keys(q))
  <2>1. IsQueue(<< >>) /\ Tasks(<< >>) = {} /\ Len(<< >>) = 0
    BY ListedTasks
  <2>2. 1..0 = {}
    OBVIOUS
  <2> QED
    BY <1>2, <1>6, <2>1, <2>2 DEF Indexes, Sorted, OnePerStream
<1>8. QueueOK(q, 0)
  BY <1>2, <1>4, <1>5, <1>7, ConstantFacts DEF QueueOK
<1>9. TotalsOK(q)
  BY <1>2, <1>6, FS_EmptySet, TotalEmpty DEF TotalsOK
<1> QED
  BY <1>8, <1>9 DEF q

QueueInv ==
  /\ order \in Nat /\ now \in Int
  /\ QueueOK(queue, order) /\ TotalsOK(queue)

\* The invariant holds before the first call.
LEMMA QueueInit == Init => QueueInv
<1> SUFFICES ASSUME Init PROVE QueueInv
  OBVIOUS
<1>1. order = 0 /\ now = 0 /\ queue = EmptyQueue(0)
  BY DEF Init
<1> QED
  BY <1>1, EmptyOK DEF QueueInv

\* What the size and the sums of a consistent queue are.
LEMMA TotalTypes ==
  ASSUME NEW q, NEW n, QueueOK(q, n), TotalsOK(q)
  PROVE  /\ q.sizePackets \in Nat /\ q.size \in Int /\ q.queueTimeSum \in Int
         /\ q.sizePackets = 0 <=> Queued(q) = {}
<1>1. Queued(q) \subseteq Packet /\ IsFiniteSet(Queued(q)) /\ q.lastTimeUpdated \in Int
  BY QueuedPackets DEF TotalsOK, QueueOK
<1>2. \A p \in Queued(q) : SizeOf[p] \in Int /\ WaitedAt(q.lastTimeUpdated)[p] \in Int
  BY <1>1, TermFacts
<1>3. Total(SizeOf, Queued(q)) \in Int /\ Total(WaitedAt(q.lastTimeUpdated), Queued(q)) \in Int
  BY <1>1, <1>2, TotalInt
<1> QED
  BY <1>1, <1>3, FS_CardinalityType, FS_EmptySet DEF TotalsOK

LEMMA NotEmpty ==
  ASSUME QueueInv, ~Empty(queue)
  PROVE  Queued(queue) # {}
BY FS_EmptySet DEF QueueInv, TotalsOK, Empty

\* A packet that is pushed.
LEMMA PushedPacket ==
  ASSUME QueueInv, PushPacket
  PROVE  /\ \E p \in Packet : p.order = order /\ queue' = Push(queue, p)
         /\ order' = order + 1 /\ now' = now /\ overtaken' = overtaken
<1>1. PICK s \in Ssrcs, u \in Priorities, n \in Sizes :
         queue' = Push(queue, [ssrc |-> s, size |-> n, priority |-> u,
                               order |-> order, enqueueTime |-> now])
  BY DEF PushPacket
<1> DEFINE p == [ssrc |-> s, size |-> n, priority |-> u, order |-> order, enqueueTime |-> now]
<1>2. p \in Packet /\ p.order = order
  BY DEF QueueInv, Packet
<1> HIDE DEF p
<1> QED
  BY <1>1, <1>2 DEF PushPacket, p

LEMMA QueueStep == QueueInv /\ [Next]_vars => QueueInv'
<1> SUFFICES ASSUME QueueInv, [Next]_vars PROVE QueueInv'
  OBVIOUS
<1>1. CASE PushPacket
  <2>1. PICK p \in Packet : p.order = order /\ queue' = Push(queue, p)
    BY <1>1, PushedPacket
  <2>2. QueueOK(Push(queue, p), order + 1) /\ TotalsOK(Push(queue, p))
    BY <2>1, PushOK, PushTotals DEF QueueInv
  <2>3. order' = order + 1 /\ now' = now
    BY <1>1, PushedPacket
  <2> QED
    BY <2>1, <2>2, <2>3 DEF QueueInv
<1>2. CASE PopPacket
  <2>1. queue' = Pop(queue) /\ order' = order /\ now' = now
    BY <1>2 DEF PopPacket
  <2>2. Queued(queue) # {}
    BY <1>2, NotEmpty DEF PopPacket
  <2>3. QueueOK(Pop(queue), order) /\ TotalsOK(Pop(queue))
    BY <2>2, PopOK, PopTotals DEF QueueInv
  <2> QED
    BY <2>1, <2>3 DEF QueueInv
<1>3. CASE Update
  <2>1. queue' = UpdateQueueTime(queue, now) /\ order' = order /\ now' = now
    BY <1>3 DEF Update
  <2> QED
    BY <2>1, UpdateOK DEF QueueInv
<1>4. CASE Tick
  BY <1>4 DEF Tick, QueueInv
<1>5. CASE UNCHANGED vars
  BY <1>5 DEF vars, QueueInv
<1> QED
  BY <1>1, <1>2, <1>3, <1>4, <1>5 DEF Next

-----------------------------------------------------------------------------
(* PriorityIndexFresh.                                                     *)

\* As many entries as streams that wait.
LEMMA EntriesCounted ==
  ASSUME NEW q, NEW n, QueueOK(q, n)
  PROVE  Len(q.priorities) = Cardinality(Waiting(q))
<1> DEFINE e == q.priorities
           f == [i \in 1..Len(e) |-> e[i].ssrc]
<1>1. Indexes(e, Keys(q)) /\ Len(e) \in Nat
  BY IndexBasics DEF QueueOK
<1>2. \A i \in 1..Len(e) : e[i].ssrc \in Waiting(q) /\ e[i] = KeyOf(q, e[i].ssrc)
  <2>1. \A i \in 1..Len(e) : e[i] \in Keys(q)
    BY <1>1, IndexBasics
  <2>2. \A k \in Keys(q) : k.ssrc \in Waiting(q) /\ k = KeyOf(q, k.ssrc)
    <3> SUFFICES ASSUME NEW k \in Keys(q)
                 PROVE  k.ssrc \in Waiting(q) /\ k = KeyOf(q, k.ssrc)
      OBVIOUS
    <3>1. PICK s \in Ssrcs : s \in Waiting(q)
      BY DEF Keys, Waiting
    <3> QED
      BY <3>1, OthersFacts
  <2> QED
    BY <2>1, <2>2
<1>3. f \in [1..Len(e) -> Waiting(q)]
  BY <1>2
<1>4. \A i, j \in 1..Len(e) : f[i] = f[j] => i = j
  BY <1>1 DEF Indexes, OnePerStream
<1>5. \A s \in Waiting(q) : \E i \in 1..Len(e) : f[i] = s
  <2> SUFFICES ASSUME NEW s \in Waiting(q) PROVE \E i \in 1..Len(e) : f[i] = s
    OBVIOUS
  <2>1. KeyOf(q, s) \in Keys(q) /\ KeyOf(q, s).ssrc = s
    BY KeyFacts DEF Keys
  <2>2. PICK i \in 1..Len(e) : e[i] = KeyOf(q, s)
    BY <1>1, <2>1, IndexBasics
  <2> QED
    BY <2>1, <2>2
<1> HIDE DEF f, e
<1>6. f \in Bijection(1..Len(e), Waiting(q))
  <2>1. DOMAIN f = 1..Len(e)
    BY <1>3
  <2> QED
    BY <1>3, <1>4, <1>5, <2>1 DEF Bijection, Injection, Surjection, IsInjective
<1>7. ExistsBijection(1..Len(e), Waiting(q))
  BY <1>6 DEF ExistsBijection
<1>8. Cardinality(Waiting(q)) = Len(e)
  BY <1>1, <1>7, FS_CountingElements
<1> QED
  BY <1>8 DEF e

LEMMA IndexIsFresh == QueueInv => PriorityIndexFresh
<1> SUFFICES ASSUME QueueInv PROVE PriorityIndexFresh
  OBVIOUS
<1> DEFINE e == queue.priorities
<1>1. QueueOK(queue, order) /\ Indexes(e, Keys(queue))
  BY DEF QueueInv, QueueOK
<1>2. Len(e) \in Nat /\ DOMAIN e = 1..Len(e) /\ \A i \in 1..Len(e) : e[i] \in Keys(queue)
  BY <1>1, IndexBasics
<1>3. Waiting(queue) = {s \in Ssrcs : queue.streams[s].packets # {}}
  BY DEF Waiting
<1>4. Len(e) = Cardinality(Waiting(queue))
  BY <1>1, EntriesCounted
<1>5. \A k \in Keys(queue) : k.ssrc \in Waiting(queue) /\ k = KeyOf(queue, k.ssrc)
  <2> SUFFICES ASSUME NEW k \in Keys(queue)
               PROVE  k.ssrc \in Waiting(queue) /\ k = KeyOf(queue, k.ssrc)
    OBVIOUS
  <2>1. PICK s \in Ssrcs : s \in Waiting(queue)
    BY DEF Keys, Waiting
  <2> QED
    BY <1>1, <2>1, OthersFacts
<1>6. {e[i].ssrc : i \in DOMAIN e} = Waiting(queue)
  <2>1. ASSUME NEW s \in Waiting(queue) PROVE \E i \in 1..Len(e) : e[i].ssrc = s
    <3>1. KeyOf(queue, s) \in Keys(queue) /\ KeyOf(queue, s).ssrc = s
      BY <1>1, KeyFacts DEF Keys
    <3>2. \E i \in 1..Len(e) : e[i] = KeyOf(queue, s)
      BY <1>1, <3>1, IndexBasics
    <3> QED
      BY <3>1, <3>2
  <2> HIDE DEF e
  <2> QED
    BY <1>2, <1>5, <2>1
<1>7. \A i \in DOMAIN e :
         e[i] = Entry(Top(queue.streams[e[i].ssrc].packets).priority,
                      queue.streams[e[i].ssrc].size, e[i].ssrc)
  BY <1>2, <1>5 DEF KeyOf
<1>8. \A i, j \in DOMAIN e : i < j => ~KeyLess(e[j], e[i])
  BY <1>1, <1>2 DEF Indexes, Sorted
<1> QED
  BY <1>3, <1>4, <1>6, <1>7, <1>8, Zenon DEF PriorityIndexFresh

\* In every reachable state the multimap that Pop trusts holds exactly the
\* streams with packets, each under its present priority and size, in order.
THEOREM IndexStaysFresh == Spec => []PriorityIndexFresh
<1>1. Init => QueueInv
  BY QueueInit
<1>2. QueueInv /\ [Next]_vars => QueueInv'
  BY QueueStep
<1>3. QueueInv => PriorityIndexFresh
  BY IndexIsFresh
<1> QED
  BY <1>1, <1>2, <1>3, PTL DEF Spec

-----------------------------------------------------------------------------
(* QueueTotalsExact: the sums of a walk are those of Total.                *)

\* The sum that a fold computes, from any function that satisfies the fold's
\* equation for terms equal to f's.
LEMMA FoldIsTotal ==
  ASSUME NEW f, NEW S, IsFiniteSet(S), \A x \in S : f[x] \in Int, NEW g, Sums(g, f, S)
  PROVE  g[S] = Total(f, S)
<1> DEFINE h == CHOOSE gg : Sums(gg, f, S)
<1>1. Sums(h, f, S)
  BY Zenon
<1>2. Total(f, S) = h[S]
  BY Zenon DEF Total
<1> HIDE DEF h
<1>3. S \in SUBSET S /\ S \subseteq S /\ 0 \in Int /\ \A x \in S : f[x] = f[x] + 0
  OBVIOUS
<1>4. g[S] = h[S] + 0 * Cardinality(S)
  BY <1>1, <1>3, SumsDiffer
<1>5. h[S] \in Int /\ Cardinality(S) \in Nat
  BY <1>1, <1>3, SumsAreInt, FS_CardinalityType
<1> QED
  BY <1>2, <1>4, <1>5

\* The walk over sizes.
LEMMA SizesFold ==
  ASSUME NEW S \in SUBSET Packet, IsFiniteSet(S)
  PROVE  MapThenSumSet(LAMBDA p : p.size, S) = Total(SizeOf, S)
<1> DEFINE Walk(g) == g = [s \in SUBSET S |->
                             IF s = {} THEN 0 ELSE OneOf(s).size + g[s \ {OneOf(s)}]]
<1>1. \A x \in S : SizeOf[x] = x.size /\ SizeOf[x] \in Int
  <2> SUFFICES ASSUME NEW x \in S PROVE SizeOf[x] = x.size /\ SizeOf[x] \in Int
    OBVIOUS
  <2>1. x \in Packet /\ 0 \in Int
    OBVIOUS
  <2> QED
    BY <2>1, TermFacts
<1>2. \A s \in SUBSET S : s # {} => SizeOf[OneOf(s)] = OneOf(s).size
  <2> SUFFICES ASSUME NEW s \in SUBSET S, s # {} PROVE SizeOf[OneOf(s)] = OneOf(s).size
    OBVIOUS
  <2>1. OneOf(s) \in S
    BY DEF OneOf
  <2> QED
    BY <1>1, <2>1
<1>3. \A g : Walk(g) <=> Sums(g, SizeOf, S)
  <2> SUFFICES ASSUME NEW g PROVE Walk(g) <=> Sums(g, SizeOf, S)
    OBVIOUS
  <2>1. ASSUME NEW s \in SUBSET S
        PROVE  (IF s = {} THEN 0 ELSE OneOf(s).size + g[s \ {OneOf(s)}])
                 = IF s = {} THEN 0 ELSE SizeOf[OneOf(s)] + g[s \ {OneOf(s)}]
    <3>1. CASE s = {}
      BY <3>1, Zenon
    <3>2. CASE s # {}
      BY <1>2, <3>2, Zenon
    <3> QED
      BY <3>1, <3>2
  <2>2. [s \in SUBSET S |-> IF s = {} THEN 0 ELSE OneOf(s).size + g[s \ {OneOf(s)}]]
          = [s \in SUBSET S |-> IF s = {} THEN 0 ELSE SizeOf[OneOf(s)] + g[s \ {OneOf(s)}]]
    BY <2>1, Zenon
  <2> QED
    BY <2>2, Zenon DEF Sums
<1>4. MapThenSumSet(LAMBDA p : p.size, S) = (CHOOSE g : Walk(g))[S]
  BY Zenon DEF MapThenSumSet, MapThenFoldSet, OneOf
<1>5. \E g : Sums(g, SizeOf, S)
  BY SumsExists, Zenon
<1> HIDE DEF Walk
<1>6. Walk(CHOOSE g : Walk(g))
  BY <1>3, <1>5, Zenon
<1>7. PICK h : h = (CHOOSE g : Walk(g))
  OBVIOUS
<1>8. Sums(h, SizeOf, S)
  BY <1>3, <1>6, <1>7, Zenon
<1>9. \A x \in S : SizeOf[x] \in Int
  BY <1>1
<1>10. h[S] = Total(SizeOf, S)
  BY <1>8, <1>9, FoldIsTotal
<1> QED
  BY <1>4, <1>7, <1>10, Zenon

\* The walk over waiting times.
LEMMA WaitsFold ==
  ASSUME NEW S \in SUBSET Packet, IsFiniteSet(S), NEW t \in Int
  PROVE  MapThenSumSet(LAMBDA p : t - p.enqueueTime, S) = Total(WaitedAt(t), S)
<1> DEFINE Walk(g) == g = [s \in SUBSET S |->
                             IF s = {} THEN 0 ELSE (t - OneOf(s).enqueueTime) + g[s \ {OneOf(s)}]]
<1>1. \A x \in S : WaitedAt(t)[x] = t - x.enqueueTime /\ WaitedAt(t)[x] \in Int
  <2> SUFFICES ASSUME NEW x \in S PROVE WaitedAt(t)[x] = t - x.enqueueTime /\ WaitedAt(t)[x] \in Int
    OBVIOUS
  <2>1. x \in Packet /\ 0 \in Int
    OBVIOUS
  <2> QED
    BY <2>1, TermFacts
<1>2. \A s \in SUBSET S : s # {} => WaitedAt(t)[OneOf(s)] = (t - OneOf(s).enqueueTime)
  <2> SUFFICES ASSUME NEW s \in SUBSET S, s # {} PROVE WaitedAt(t)[OneOf(s)] = (t - OneOf(s).enqueueTime)
    OBVIOUS
  <2>1. OneOf(s) \in S
    BY DEF OneOf
  <2> QED
    BY <1>1, <2>1
<1>3. \A g : Walk(g) <=> Sums(g, WaitedAt(t), S)
  <2> SUFFICES ASSUME NEW g PROVE Walk(g) <=> Sums(g, WaitedAt(t), S)
    OBVIOUS
  <2>1. ASSUME NEW s \in SUBSET S
        PROVE  (IF s = {} THEN 0 ELSE (t - OneOf(s).enqueueTime) + g[s \ {OneOf(s)}])
                 = IF s = {} THEN 0 ELSE WaitedAt(t)[OneOf(s)] + g[s \ {OneOf(s)}]
    <3>1. CASE s = {}
      BY <3>1, Zenon
    <3>2. CASE s # {}
      BY <1>2, <3>2, Zenon
    <3> QED
      BY <3>1, <3>2
  <2>2. [s \in SUBSET S |-> IF s = {} THEN 0 ELSE (t - OneOf(s).enqueueTime) + g[s \ {OneOf(s)}]]
          = [s \in SUBSET S |-> IF s = {} THEN 0 ELSE WaitedAt(t)[OneOf(s)] + g[s \ {OneOf(s)}]]
    BY <2>1, Zenon
  <2> QED
    BY <2>2, Zenon DEF Sums
<1>4. MapThenSumSet(LAMBDA p : t - p.enqueueTime, S) = (CHOOSE g : Walk(g))[S]
  BY Zenon DEF MapThenSumSet, MapThenFoldSet, OneOf
<1>5. \E g : Sums(g, WaitedAt(t), S)
  BY SumsExists, Zenon
<1> HIDE DEF Walk
<1>6. Walk(CHOOSE g : Walk(g))
  BY <1>3, <1>5, Zenon
<1>7. PICK h : h = (CHOOSE g : Walk(g))
  OBVIOUS
<1>8. Sums(h, WaitedAt(t), S)
  BY <1>3, <1>6, <1>7, Zenon
<1>9. \A x \in S : WaitedAt(t)[x] \in Int
  BY <1>1
<1>10. h[S] = Total(WaitedAt(t), S)
  BY <1>8, <1>9, FoldIsTotal
<1> QED
  BY <1>4, <1>7, <1>10, Zenon

LEMMA TotalsAreExact == QueueInv => QueueTotalsExact
<1> SUFFICES ASSUME QueueInv PROVE QueueTotalsExact
  OBVIOUS
<1>1. QueueOK(queue, order) /\ TotalsOK(queue)
  BY DEF QueueInv
<1>2. /\ Queued(queue) \in SUBSET Packet /\ IsFiniteSet(Queued(queue))
      /\ queue.lastTimeUpdated \in Int
      /\ queue.sizePackets = Cardinality(Queued(queue))
      /\ queue.size = Total(SizeOf, Queued(queue))
      /\ queue.queueTimeSum = Total(WaitedAt(queue.lastTimeUpdated), Queued(queue))
  BY <1>1, QueuedPackets DEF TotalsOK, QueueOK
<1>3. MapThenSumSet(LAMBDA p : p.size, Queued(queue)) = Total(SizeOf, Queued(queue))
  BY <1>2, SizesFold
<1>4. MapThenSumSet(LAMBDA p : queue.lastTimeUpdated - p.enqueueTime, Queued(queue))
        = Total(WaitedAt(queue.lastTimeUpdated), Queued(queue))
  BY <1>2, WaitsFold
<1> QED
  BY <1>2, <1>3, <1>4, Zenon DEF QueueTotalsExact

\* In every reachable state the counters that the queue keeps by increments
\* are what a walk over the waiting packets would find.
THEOREM TotalsStayExact == Spec => []QueueTotalsExact
<1>1. Init => QueueInv
  BY QueueInit
<1>2. QueueInv /\ [Next]_vars => QueueInv'
  BY QueueStep
<1>3. QueueInv => QueueTotalsExact
  BY TotalsAreExact
<1> QED
  BY <1>1, <1>2, <1>3, PTL DEF Spec

-----------------------------------------------------------------------------
(* PopsMostUrgent.                                                         *)

\* What leaves is no less urgent than what stays.
LEMMA PopIsUrgent ==
  ASSUME NEW q, NEW n \in Nat, QueueOK(q, n), Queued(q) # {}, NEW r \in Queued(Pop(q))
  PROVE  /\ NextPacket(q).priority <= r.priority
         /\ NextPacket(q).ssrc = r.ssrc => Before(NextPacket(q), r)
<1> DEFINE p == NextPacket(q)
           s == HighestPriorityStream(q)
<1>1. /\ s \in Waiting(q) /\ p \in q.streams[s].packets /\ p \in Packet /\ p.ssrc = s
      /\ \A x \in q.streams[s].packets \ {p} : Before(p, x)
      /\ \A t \in Waiting(q) : ~KeyLess(KeyOf(q, t), KeyOf(q, s))
  BY FrontFacts
<1>2. p = Top(q.streams[s].packets)
  BY DEF NextPacket
<1>3. r \in Queued(q) /\ r # p
  BY PopOK
<1> HIDE DEF p, s
<1>4. PICK t \in Ssrcs : r \in q.streams[t].packets
  BY <1>3 DEF Queued
<1>5. t \in Waiting(q)
  BY <1>4 DEF Waiting
<1>6. Distinct(q.streams[t].packets) /\ r.ssrc = t
  BY <1>4 DEF QueueOK, StreamOK
<1>7. p.priority \in Nat /\ r.priority \in Nat /\ p.order \in Nat /\ r.order \in Nat
  <2>1. r \in Packet
    BY <1>4, <1>6 DEF Distinct
  <2> QED
    BY <1>1, <2>1, PacketFields
<1> DEFINE top == Top(q.streams[t].packets)
<1>8. top \in q.streams[t].packets /\ \A x \in q.streams[t].packets \ {top} : Before(top, x)
  BY <1>4, <1>6, TopFacts
<1>9. /\ KeyOf(q, s) \in Entries /\ KeyOf(q, s).priority = p.priority
      /\ KeyOf(q, t) \in Entries /\ KeyOf(q, t).priority = top.priority
      /\ top \in Packet
  BY <1>1, <1>2, <1>5, KeyFacts
<1>10. p.priority <= top.priority
  BY <1>1, <1>5, <1>9, KeyOrder
<1> HIDE DEF top
<1>11. top.priority \in Nat /\ top.order \in Nat
  BY <1>9, PacketFields
<1>12. top.priority <= r.priority
  BY <1>4, <1>7, <1>8, <1>11 DEF Before
<1>13. p.priority <= r.priority
  BY <1>7, <1>10, <1>11, <1>12
<1>14. p.ssrc = r.ssrc => Before(p, r)
  BY <1>1, <1>3, <1>4, <1>6
<1> QED
  BY <1>13, <1>14 DEF p

\* No step makes a packet leave before a more urgent one of any stream, nor
\* before an earlier one of its own stream that is as urgent.
THEOREM PopsInOrder == Spec => PopsMostUrgent
<1> DEFINE Urgent == \A p \in Queued(queue) \ Queued(queue)' :
                        \A r \in Queued(queue)' :
                           /\ p.priority <= r.priority
                           /\ p.ssrc = r.ssrc => Before(p, r)
<1>1. Init => QueueInv
  BY QueueInit
<1>2. QueueInv /\ [Next]_vars => QueueInv'
  BY QueueStep
<1>3. QueueInv /\ [Next]_vars => [Urgent]_queue
  <2> SUFFICES ASSUME QueueInv, [Next]_vars PROVE [Urgent]_queue
    OBVIOUS
  <2>1. CASE PushPacket
    <3>1. PICK p \in Packet : p.order = order /\ queue' = Push(queue, p)
      BY <2>1, PushedPacket
    <3>2. Queued(Push(queue, p)) = Queued(queue) \cup {p}
      BY <3>1, PushOK DEF QueueInv
    <3>3. Queued(queue)' = Queued(Push(queue, p))
      BY <3>1 DEF Queued
    <3> QED
      BY <3>2, <3>3
  <2>2. CASE PopPacket
    <3>1. QueueOK(queue, order) /\ order \in Nat /\ Queued(queue) # {}
      BY <2>2, NotEmpty DEF PopPacket, QueueInv
    <3>2. Queued(queue)' = Queued(Pop(queue))
      BY <2>2 DEF PopPacket, Queued
    <3>3. Queued(Pop(queue)) = Queued(queue) \ {NextPacket(queue)}
      BY <3>1, PopOK
    <3>4. ASSUME NEW p \in Queued(queue) \ Queued(queue)', NEW r \in Queued(queue)'
          PROVE  p.priority <= r.priority /\ (p.ssrc = r.ssrc => Before(p, r))
      <4>1. p = NextPacket(queue) /\ r \in Queued(Pop(queue))
        BY <3>2, <3>3
      <4> QED
        BY <3>1, <4>1, PopIsUrgent
    <3> QED
      BY <3>4
  <2>3. CASE Update
    <3>1. queue' = UpdateQueueTime(queue, now)
      BY <2>3 DEF Update
    <3>2. UpdateQueueTime(queue, now).streams = queue.streams
      BY UpdateOK DEF QueueInv
    <3>3. Queued(queue)' = Queued(queue)
      BY <3>1, <3>2 DEF Queued
    <3> QED
      BY <3>3
  <2>4. CASE Tick
    BY <2>4 DEF Tick
  <2>5. CASE UNCHANGED vars
    BY <2>5 DEF vars
  <2> QED
    BY <2>1, <2>2, <2>3, <2>4, <2>5 DEF Next
<1> QED
  BY <1>1, <1>2, <1>3, PTL DEF Spec, PopsMostUrgent

-----------------------------------------------------------------------------
(* BoundedOvertaking.                                                      *)

\* What s sent past t is what s got ahead of t since, but for the lead that
\* the floor and one packet give.
OvertakenOK(q, o) ==
  /\ o = [s \in Ssrcs |-> [t \in Ssrcs |-> o[s][t]]]
  /\ \A s, t \in Ssrcs :
       /\ o[s][t] \in Nat /\ o[s][t] <= MaxLeadingSize + 2 * MaxSize
       /\ o[s][t] # 0 =>
            o[s][t] <= q.streams[s].size - q.streams[t].size + MaxLeadingSize + MaxSize

OvertakingInv == QueueInv /\ OvertakenOK(queue, overtaken)

LEMMA OvertakingInit == Init => OvertakingInv
<1> SUFFICES ASSUME Init PROVE OvertakenOK(queue, overtaken)
  BY QueueInit DEF OvertakingInv
<1>1. overtaken = [s \in Ssrcs |-> [t \in Ssrcs |-> 0]]
  BY DEF Init
<1>2. MaxLeadingSize \in Nat /\ MaxSize \in Nat
  BY ConstantFacts
<1>3. 0 <= MaxLeadingSize + 2 * MaxSize
  BY <1>2
<1> QED
  BY <1>1, <1>3 DEF OvertakenOK

\* The streams keep their sizes.
LEMMA OvertakenKept ==
  ASSUME NEW q, NEW r, NEW o, OvertakenOK(q, o),
         \A s \in Ssrcs : r.streams[s].size = q.streams[s].size
  PROVE  OvertakenOK(r, o)
BY DEF OvertakenOK

\* What a pop adds.
Counted(q, o) ==
  LET p == NextPacket(q)
  IN  [s \in Ssrcs |-> [t \in Ssrcs |->
         IF t = p.ssrc THEN 0
         ELSE IF s = p.ssrc /\ Waits(t, p, q) THEN o[s][t] + p.size
         ELSE o[s][t]]]

LEMMA OvertakenPop ==
  ASSUME NEW q, NEW n \in Nat, QueueOK(q, n), Queued(q) # {}, NEW o, OvertakenOK(q, o)
  PROVE  OvertakenOK(Pop(q), Counted(q, o))
<1> DEFINE p == NextPacket(q)
           s == HighestPriorityStream(q)
           r == Pop(q)
           new == Counted(q, o)
<1>1. /\ s \in Waiting(q) /\ p \in Packet /\ p.ssrc = s
      /\ \A t \in Waiting(q) : ~KeyLess(KeyOf(q, t), KeyOf(q, s))
  BY FrontFacts
<1>2. s \in Ssrcs /\ p = Top(q.streams[s].packets)
  BY <1>1 DEF NextPacket, Waiting
<1>3. /\ r.streams[s].size \in Nat
      /\ q.streams[s].size + p.size <= r.streams[s].size
      /\ q.maxSize - MaxLeadingSize <= r.streams[s].size
  BY PopSizes
<1>4. \A t \in Ssrcs : t # s => r.streams[t].size = q.streams[t].size
  BY PopFields
<1>5. \A t \in Ssrcs : q.streams[t].size \in Nat /\ q.streams[t].size <= q.maxSize
  BY DEF QueueOK, StreamOK
<1>6. q.maxSize \in Nat /\ MaxLeadingSize \in Nat /\ MaxSize \in Nat
  BY ConstantFacts DEF QueueOK
<1>7. p.size \in Nat /\ p.size <= MaxSize
  BY <1>1, PacketFields, ConstantFacts
<1>8. \A u, t \in Ssrcs :
         /\ o[u][t] \in Nat /\ o[u][t] <= MaxLeadingSize + 2 * MaxSize
         /\ o[u][t] # 0 =>
              o[u][t] <= q.streams[u].size - q.streams[t].size + MaxLeadingSize + MaxSize
  BY DEF OvertakenOK
<1>9. ASSUME NEW t \in Ssrcs, t # s, Waits(t, p, q)
      PROVE  q.streams[s].size <= q.streams[t].size
  <2>1. t \in Waiting(q) /\ Top(q.streams[t].packets).priority = p.priority
    BY <1>9 DEF Waits, Waiting
  <2>2. /\ KeyOf(q, t) \in Entries /\ KeyOf(q, t).priority = p.priority
        /\ KeyOf(q, t).size = q.streams[t].size
        /\ KeyOf(q, s) \in Entries /\ KeyOf(q, s).priority = p.priority
        /\ KeyOf(q, s).size = q.streams[s].size
    BY <1>1, <1>2, <2>1, KeyFacts
  <2>3. ~KeyLess(KeyOf(q, t), KeyOf(q, s))
    BY <1>1, <2>1
  <2> QED
    BY <2>2, <2>3, KeyOrder
<1>10. \A u, t \in Ssrcs :
          new[u][t] = IF t = s THEN 0
                      ELSE IF u = s /\ Waits(t, p, q) THEN o[u][t] + p.size
                      ELSE o[u][t]
  BY <1>1 DEF Counted
<1>11. new = [u \in Ssrcs |-> [t \in Ssrcs |-> new[u][t]]]
  BY DEF Counted
<1> HIDE DEF new, r, p, s
<1>12. ASSUME NEW u \in Ssrcs, NEW t \in Ssrcs
       PROVE  /\ new[u][t] \in Nat /\ new[u][t] <= MaxLeadingSize + 2 * MaxSize
              /\ new[u][t] # 0 =>
                   new[u][t] <= r.streams[u].size - r.streams[t].size
                                + MaxLeadingSize + MaxSize
  <2>1. CASE t = s
    BY <1>6, <1>10, <2>1
  <2>2. CASE t # s /\ u = s /\ Waits(t, p, q)
    <3>1. new[u][t] = o[u][t] + p.size
      BY <1>10, <2>2
    <3>2. r.streams[t].size = q.streams[t].size /\ q.streams[u].size <= q.streams[t].size
      BY <1>4, <1>9, <2>2
    <3>3. /\ r.streams[u].size \in Nat
          /\ q.streams[u].size + p.size <= r.streams[u].size
          /\ q.maxSize - MaxLeadingSize <= r.streams[u].size
      BY <1>3, <2>2
    <3>4. /\ q.streams[u].size \in Nat /\ q.streams[t].size \in Nat
          /\ q.streams[t].size <= q.maxSize
      BY <1>5
    <3>5. /\ o[u][t] \in Nat
          /\ o[u][t] # 0 =>
               o[u][t] <= q.streams[u].size - q.streams[t].size + MaxLeadingSize + MaxSize
      BY <1>8
    <3>6. CASE o[u][t] = 0
      BY <1>6, <1>7, <3>1, <3>2, <3>3, <3>4, <3>6
    <3>7. CASE o[u][t] # 0
      BY <1>6, <1>7, <3>1, <3>2, <3>3, <3>4, <3>5, <3>7
    <3> QED
      BY <3>6, <3>7
  <2>3. CASE t # s /\ ~(u = s /\ Waits(t, p, q))
    <3>1. new[u][t] = o[u][t] /\ r.streams[t].size = q.streams[t].size
      BY <1>4, <1>10, <2>3
    <3>2. q.streams[u].size <= r.streams[u].size /\ r.streams[u].size \in Nat
      <4>1. CASE u = s
        BY <1>3, <1>5, <1>7, <4>1
      <4>2. CASE u # s
        BY <1>4, <1>5, <4>2
      <4> QED
        BY <4>1, <4>2
    <3>3. q.streams[u].size \in Nat /\ q.streams[t].size \in Nat
      BY <1>5
    <3> QED
      BY <1>6, <1>8, <3>1, <3>2, <3>3
  <2> QED
    BY <2>1, <2>2, <2>3
<1> QED
  BY <1>11, <1>12 DEF OvertakenOK, new, r

LEMMA OvertakingStep == OvertakingInv /\ [Next]_vars => OvertakingInv'
<1> SUFFICES ASSUME OvertakingInv, [Next]_vars PROVE OvertakenOK(queue', overtaken')
  BY QueueStep DEF OvertakingInv
<1>0. QueueInv /\ OvertakenOK(queue, overtaken)
  BY DEF OvertakingInv
<1>1. CASE PushPacket
  <2>1. PICK p \in Packet : p.order = order /\ queue' = Push(queue, p)
    BY <1>0, <1>1, PushedPacket
  <2>2. overtaken' = overtaken
    BY <1>1 DEF PushPacket
  <2>3. QueueOK(queue, order)
    BY <1>0 DEF QueueInv
  <2>4. \A s \in Ssrcs : Push(queue, p).streams[s].size = queue.streams[s].size
    BY <2>1, <2>3, PushFields
  <2> QED
    BY <1>0, <2>1, <2>2, <2>4, OvertakenKept
<1>2. CASE PopPacket
  <2>1. queue' = Pop(queue) /\ overtaken' = Counted(queue, overtaken)
    BY <1>2 DEF PopPacket, Counted
  <2>2. Queued(queue) # {} /\ QueueOK(queue, order) /\ order \in Nat
    BY <1>0, <1>2, NotEmpty DEF PopPacket, QueueInv
  <2> QED
    BY <1>0, <2>1, <2>2, OvertakenPop
<1>3. CASE Update
  <2>1. queue' = UpdateQueueTime(queue, now) /\ overtaken' = overtaken
    BY <1>3 DEF Update
  <2>2. UpdateQueueTime(queue, now).streams = queue.streams
    BY <1>0, UpdateOK DEF QueueInv
  <2> QED
    BY <1>0, <2>1, <2>2, OvertakenKept
<1>4. CASE Tick
  BY <1>0, <1>4 DEF Tick
<1>5. CASE UNCHANGED vars
  BY <1>0, <1>5 DEF vars
<1> QED
  BY <1>1, <1>2, <1>3, <1>4, <1>5 DEF Next

\* However long a stream was idle, it never sends more than kMaxLeadingSize and
\* two packets past a stream that waits at the same priority.
THEOREM OvertakingStaysBounded == Spec => []BoundedOvertaking
<1>1. Init => OvertakingInv
  BY OvertakingInit
<1>2. OvertakingInv /\ [Next]_vars => OvertakingInv'
  BY OvertakingStep
<1>3. OvertakingInv => BoundedOvertaking
  BY DEF OvertakingInv, OvertakenOK, BoundedOvertaking, MaxSize
<1> QED
  BY <1>1, <1>2, <1>3, PTL DEF Spec
=============================================================================
