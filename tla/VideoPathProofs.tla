-------------------------- MODULE VideoPathProofs --------------------------
(***************************************************************************)
(* Proofs about VideoPath, for any frames, offers, sizes and losses.       *)
(*                                                                         *)
(* First the operators: what H264Packetizer makes of the bytes of a frame, *)
(* the depacketizer makes into that frame again (RoundTrip), the number in *)
(* a header is read back, a NACK is heard as what it asks for.  Then the   *)
(* protocol: whatever is cached, paced, on the wire, received or asked for *)
(* is packet k of frame f, or says so, and the frames say which numbers    *)
(* that packet has (IndInv).  What the system promises follows, to the     *)
(* refinement of FrameDelivery.                                            *)
(***************************************************************************)
EXTENDS VideoPath, QueueLemmas

-----------------------------------------------------------------------------
(* Packetizing: the NALUs are found in the bytes of the encoder.           *)

\* The start codes of a buffer from i on, in order.
CodeAt(buffer, p) ==
  /\ p \in 0..(Len(buffer) - 4)
  /\ buffer[p + 1] = 0 /\ buffer[p + 2] = 0 /\ buffer[p + 3] = 1

CodesFrom(buffer, i, list) ==
  /\ Increasing(list)
  /\ \A p : p \in Tasks(list) <=> CodeAt(buffer, p) /\ p >= i

\* A start code that is found goes before those that are found after it.
LEMMA CodeFirst ==
  ASSUME NEW buffer, NEW i \in Nat, CodeAt(buffer, i), NEW list, CodesFrom(buffer, i + 3, list)
  PROVE  Increasing(<<i>> \o list) /\ Tasks(<<i>> \o list) = {i} \cup Tasks(list)
<1> DEFINE q == <<i>> \o list
<1>1. IsQueue(<<i>>) /\ Tasks(<<i>>) = {i} /\ Len(<<i>>) = 1 /\ <<i>>[1] = i
  BY ListedTasks
<1>2. IsQueue(list) /\ Len(list) \in Nat
  BY QueueBasics DEF CodesFrom, Increasing
<1>3. /\ IsQueue(q) /\ Len(q) = 1 + Len(list) /\ q[1] = i
      /\ \A k \in 1..Len(list) : q[1 + k] = list[k]
  <2>1. 1 \in 1..1
    OBVIOUS
  <2> QED
    BY <1>1, <1>2, <2>1, ConcatFacts
<1>4. Tasks(q) = {i} \cup Tasks(list)
  BY <1>1, <1>2, TasksAfter
<1> HIDE DEF q
<1>5. \A k \in 1..Len(q) : k = 1 \/ (k - 1 \in 1..Len(list) /\ 1 + (k - 1) = k)
  BY <1>2, <1>3
<1>6. \A k \in 1..Len(list) : list[k] \in Int /\ list[k] >= i + 3
  BY DEF CodesFrom, Increasing, Tasks
<1>7. ASSUME NEW k \in 1..Len(q) PROVE q[k] \in Int
  <2>1. CASE k = 1
    BY <1>3, <2>1
  <2>2. CASE k # 1
    <3>1. k - 1 \in 1..Len(list) /\ 1 + (k - 1) = k
      BY <1>5, <2>2
    <3>2. q[k] = list[k - 1]
      BY <1>3, <3>1
    <3> QED
      BY <1>6, <3>1, <3>2
  <2> QED
    BY <2>1, <2>2
<1>8. ASSUME NEW k \in 1..Len(q), NEW m \in 1..Len(q), k < m PROVE q[k] < q[m]
  <2>1. m - 1 \in 1..Len(list) /\ q[m] = list[m - 1]
    <3>1. k >= 1 /\ k < m /\ m \in Int
      BY <1>2, <1>3, <1>8
    <3>2. m - 1 \in 1..Len(list) /\ 1 + (m - 1) = m
      BY <1>5, <3>1
    <3>3. q[1 + (m - 1)] = list[m - 1]
      BY <1>3, <3>2, Zenon
    <3> QED
      BY <3>2, <3>3
  <2>2. CASE k = 1
    <3>1. q[k] = i /\ list[m - 1] \in Int /\ list[m - 1] >= i + 3
      BY <1>3, <1>6, <2>1, <2>2, Zenon
    <3> QED
      BY <2>1, <3>1
  <2>3. CASE k # 1
    <3>1. k - 1 \in 1..Len(list) /\ q[k] = list[k - 1] /\ k - 1 < m - 1
      BY <1>2, <1>3, <1>5, <1>8, <2>3
    <3> QED
      BY <2>1, <3>1 DEF CodesFrom, Increasing
  <2> QED
    BY <2>2, <2>3
<1> QED
  BY <1>3, <1>4, <1>7, <1>8 DEF q, Increasing

\* The search finds the start codes.
LEMMA StartCodesFound ==
  ASSUME NEW buffer \in Seq(Byte)
  PROVE  CodesFrom(buffer, 0, StartCodes(buffer))
<1>0. Len(buffer) \in Nat /\ \A p \in 1..Len(buffer) : buffer[p] \in Byte
  BY LenProperties, ElementOfSeq
<1> DEFINE N == Len(buffer)
           Later(g, i) == CASE buffer[(i + 2) + 1] > 1 -> g[i + 3]
                            [] buffer[(i + 2) + 1] = 1 ->
                                 (IF buffer[i + 1] = 0 /\ buffer[(i + 1) + 1] = 0 THEN <<i>> ELSE <<>>)
                                 \o g[i + 3]
                            [] OTHER -> g[i + 1]
           Step(g, i) == IF i >= N - 3 \/ N < 3 THEN <<>> ELSE Later(g, i)
           Search(g, m) == g = [i \in (N - m)..N |-> Step(g, i)]
<1>1. N \in Nat /\ \A p \in 1..N : buffer[p] \in Byte
  BY <1>0
<1>2. ASSUME NEW g, NEW i \in Nat
       PROVE  Later(g, i) = IF buffer[i + 3] > 1 THEN g[i + 3]
                            ELSE IF buffer[i + 3] = 1
                            THEN (IF buffer[i + 1] = 0 /\ buffer[i + 2] = 0 THEN <<i>> ELSE <<>>)
                                 \o g[i + 3]
                            ELSE g[i + 1]
  <2>1. (i + 1) + 1 = i + 2 /\ (i + 2) + 1 = i + 3
    OBVIOUS
  <2>2. ~(buffer[(i + 2) + 1] > 1 /\ buffer[(i + 2) + 1] = 1)
    <3>1. ~(1 > 1)
      OBVIOUS
    <3> QED
      BY <3>1, Zenon
  <2>3. Later(g, i) = IF buffer[(i + 2) + 1] > 1 THEN g[i + 3]
                      ELSE IF buffer[(i + 2) + 1] = 1
                      THEN (IF buffer[i + 1] = 0 /\ buffer[(i + 1) + 1] = 0 THEN <<i>> ELSE <<>>)
                           \o g[i + 3]
                      ELSE g[i + 1]
    BY <2>2, Zenon
  <2> HIDE DEF Later
  <2> QED
    BY <2>1, <2>3
<1> HIDE DEF Later
<1>3. ASSUME NEW g, NEW h, NEW i \in Nat, i < N - 3, g[i + 1] = h[i + 1], g[i + 3] = h[i + 3]
      PROVE  Later(g, i) = Later(h, i)
  BY <1>2, <1>3
<1>4. \E g : Search(g, N)
  <2> DEFINE E == {m \in Nat : m <= N => \E g : Search(g, m)}
  <2>1. 0 \in E
    <3>1. (N - 0)..N = {N} /\ N >= N - 3
      BY <1>1
    <3>2. \A g : [i \in {N} |-> Step(g, i)] = [i \in {N} |-> <<>>]
      <4> SUFFICES ASSUME NEW g PROVE \A i \in {N} : Step(g, i) = <<>>
        BY Zenon
      <4> QED
        BY <3>1
    <3> DEFINE z == [i \in {N} |-> <<>>]
    <3>3. Search(z, 0)
      BY <3>1, <3>2, Zenon
    <3> HIDE DEF Search, z
    <3> QED
      BY <3>3
  <2>2. ASSUME NEW m \in E PROVE m + 1 \in E
    <3>1. m \in Nat /\ m + 1 \in Nat
      OBVIOUS
    <3> SUFFICES ASSUME m + 1 <= N PROVE \E g : Search(g, m + 1)
      BY <3>1
    <3>2. PICK g : Search(g, m)
      BY <1>1, <3>1
    <3> DEFINE new == [i \in (N - (m + 1))..N |-> Step(g, i)]
    <3>3. ASSUME NEW i \in (N - m)..N PROVE new[i] = g[i]
      <4>1. i \in (N - (m + 1))..N
        BY <1>1, <3>1
      <4>2. g[i] = Step(g, i)
        <5> HIDE DEF Step
        <5> QED
          BY <3>2
      <4> HIDE DEF Step
      <4> QED
        BY <4>1, <4>2
    <3> HIDE DEF new, Search
    <3>4. ASSUME NEW i \in (N - (m + 1))..N PROVE Step(new, i) = Step(g, i)
      <4>1. CASE i >= N - 3 \/ N < 3
        BY <4>1
      <4>2. CASE ~(i >= N - 3 \/ N < 3)
        <5>1. i \in Nat /\ i < N - 3 /\ i + 1 \in (N - m)..N /\ i + 3 \in (N - m)..N
          BY <1>1, <3>1, <4>2
        <5>2. new[i + 1] = g[i + 1] /\ new[i + 3] = g[i + 3]
          BY <3>3, <5>1
        <5>3. Later(new, i) = Later(g, i)
          BY <1>3, <5>1, <5>2
        <5> QED
          BY <4>2, <5>3
      <4> QED
        BY <4>1, <4>2
    <3>5. Search(new, m + 1)
      <4> HIDE DEF Step
      <4>1. [i \in (N - (m + 1))..N |-> Step(new, i)] = [i \in (N - (m + 1))..N |-> Step(g, i)]
        BY <3>4
      <4> QED
        BY <4>1 DEF new, Search
    <3> QED
      BY <3>5
  <2>3. Nat \subseteq E
    <3> HIDE DEF E
    <3> QED
      BY <2>1, <2>2, SetInduction
  <2> QED
    BY <1>1, <2>3
<1>5. (N - N)..N = 0..N
  BY <1>1
<1>6. StartCodes(buffer) = (CHOOSE g : Search(g, N))[0]
  <2>1. StartCodes(buffer) = (CHOOSE g : g = [i \in 0..N |-> Step(g, i)])[0]
    BY Zenon DEF StartCodes, Later
  <2> QED
    BY <1>5, <2>1
<1> HIDE DEF Search
<1>7. PICK g : g = CHOOSE h : Search(h, N)
  OBVIOUS
<1>8. Search(g, N)
  BY <1>4, <1>7
<1>9. \A i \in 0..N : g[i] = Step(g, i)
  <2> HIDE DEF Step
  <2>1. g = [i \in 0..N |-> Step(g, i)]
    BY <1>5, <1>8 DEF Search
  <2> QED
    BY <2>1
<1> DEFINE Good(i) == CodesFrom(buffer, i, g[i])
           G == {m \in Nat : \A i \in 0..N : N - i <= m => Good(i)}
<1>10. ASSUME NEW i \in 0..N, i >= N - 3 \/ N < 3 PROVE Good(i)
  <2>1. g[i] = <<>>
    BY <1>9, <1>10
  <2>2. \A p : ~(CodeAt(buffer, p) /\ p >= i)
    BY <1>1, <1>10 DEF CodeAt
  <2>3. IsQueue(<<>>) /\ Tasks(<<>>) = {} /\ Len(<<>>) = 0
    BY ListedTasks
  <2> QED
    BY <2>1, <2>2, <2>3 DEF CodesFrom, Increasing
<1>11. ASSUME NEW i \in 0..N, i < N - 3, Good(i + 1), Good(i + 3) PROVE Good(i)
  <2>1. /\ i \in Nat /\ i + 1 \in 1..N /\ i + 2 \in 1..N /\ i + 3 \in 1..N /\ i \in 0..(N - 4)
        /\ (i + 1) + 1 = i + 2 /\ (i + 2) + 1 = i + 3
    BY <1>1, <1>11
  <2>2. buffer[i + 1] \in Byte /\ buffer[i + 2] \in Byte /\ buffer[i + 3] \in Byte
    BY <1>1, <2>1
  <2>3. g[i] = Later(g, i)
    BY <1>1, <1>9, <1>11, <2>1
  <2>4. ASSUME NEW p, CodeAt(buffer, p), p >= i
        PROVE  /\ p = i => buffer[i + 1] = 0 /\ buffer[i + 2] = 0 /\ buffer[i + 3] = 1
               /\ p = i + 1 => buffer[i + 3] = 0
               /\ p = i + 2 => buffer[i + 3] = 0
               /\ p \in Int /\ (p = i \/ p = i + 1 \/ p = i + 2 \/ p >= i + 3)
    BY <2>1, <2>4 DEF CodeAt
  <2>5. CASE buffer[i + 3] > 1
    <3>1. g[i] = g[i + 3]
      BY <1>2, <2>1, <2>3, <2>5
    <3>2. \A p : CodeAt(buffer, p) /\ p >= i <=> CodeAt(buffer, p) /\ p >= i + 3
      <4>1. ASSUME NEW p, CodeAt(buffer, p), p >= i PROVE p >= i + 3
        BY <2>2, <2>4, <2>5, <4>1
      <4>2. ASSUME NEW p, CodeAt(buffer, p), p >= i + 3 PROVE p >= i
        BY <2>1, <4>2 DEF CodeAt
      <4> QED
        BY <4>1, <4>2
    <3> QED
      BY <1>11, <3>1, <3>2 DEF CodesFrom
  <2>6. CASE buffer[i + 3] = 1
    <3>1. CASE buffer[i + 1] = 0 /\ buffer[i + 2] = 0
      <4>1. g[i] = <<i>> \o g[i + 3]
        <5>1. ~(1 > 1)
          OBVIOUS
        <5> QED
          BY <1>2, <2>1, <2>3, <2>6, <3>1, <5>1, Zenon
      <4>2. CodeAt(buffer, i)
        BY <2>1, <2>6, <3>1 DEF CodeAt
      <4>3. Increasing(g[i]) /\ Tasks(g[i]) = {i} \cup Tasks(g[i + 3])
        BY <1>11, <2>1, <4>1, <4>2, CodeFirst
      <4>4. ASSUME NEW p PROVE CodeAt(buffer, p) /\ p >= i <=> p = i \/ (CodeAt(buffer, p) /\ p >= i + 3)
        <5>1. ASSUME CodeAt(buffer, p), p >= i PROVE p = i \/ p >= i + 3
          BY <2>2, <2>4, <2>6, <5>1
        <5>2. ASSUME CodeAt(buffer, p), p >= i + 3 PROVE p >= i
          BY <2>1, <5>2 DEF CodeAt
        <5>3. i >= i
          BY <2>1
        <5> QED
          BY <4>2, <5>1, <5>2, <5>3
      <4> QED
        BY <1>11, <4>3, <4>4 DEF CodesFrom
    <3>2. CASE ~(buffer[i + 1] = 0 /\ buffer[i + 2] = 0)
      <4>1. g[i] = <<>> \o g[i + 3]
        <5>1. ~(1 > 1)
          OBVIOUS
        <5> QED
          BY <1>2, <2>1, <2>3, <2>6, <3>2, <5>1, Zenon
      <4>2. IsQueue(g[i + 3])
        BY <1>11 DEF CodesFrom, Increasing
      <4>3. g[i] = g[i + 3]
        <5>1. PICK S : g[i + 3] \in Seq(S)
          BY <4>2 DEF IsQueue
        <5> QED
          BY <4>1, <5>1, ConcatEmptySeq
      <4>4. \A p : CodeAt(buffer, p) /\ p >= i <=> CodeAt(buffer, p) /\ p >= i + 3
        <5>1. ASSUME NEW p, CodeAt(buffer, p), p >= i PROVE p >= i + 3
          BY <2>2, <2>4, <2>6, <3>2, <5>1
        <5>2. ASSUME NEW p, CodeAt(buffer, p), p >= i + 3 PROVE p >= i
          BY <2>1, <5>2 DEF CodeAt
        <5> QED
          BY <5>1, <5>2
      <4> QED
        BY <1>11, <4>3, <4>4 DEF CodesFrom
    <3> QED
      BY <3>1, <3>2
  <2>7. CASE ~(buffer[i + 3] > 1) /\ buffer[i + 3] # 1
    <3>1. g[i] = g[i + 1]
      BY <1>2, <2>1, <2>3, <2>7
    <3>2. \A p : CodeAt(buffer, p) /\ p >= i <=> CodeAt(buffer, p) /\ p >= i + 1
      <4>1. ASSUME NEW p, CodeAt(buffer, p), p >= i PROVE p >= i + 1
        BY <2>1, <2>4, <2>7, <4>1
      <4>2. ASSUME NEW p, CodeAt(buffer, p), p >= i + 1 PROVE p >= i
        BY <2>1, <4>2 DEF CodeAt
      <4> QED
        BY <4>1, <4>2
    <3> QED
      BY <1>11, <3>1, <3>2 DEF CodesFrom
  <2> QED
    BY <2>5, <2>6, <2>7
<1>12. 0 \in G
  <2>1. ASSUME NEW i \in 0..N, N - i <= 0 PROVE Good(i)
    <3>1. i >= N - 3
      BY <1>1, <2>1
    <3> QED
      BY <1>10, <3>1
  <2> HIDE DEF Good
  <2> QED
    BY <2>1
<1>13. ASSUME NEW m \in G PROVE m + 1 \in G
  <2>1. m \in Nat /\ m + 1 \in Nat /\ \A i \in 0..N : N - i <= m => Good(i)
    OBVIOUS
  <2>2. ASSUME NEW i \in 0..N, N - i <= m + 1 PROVE Good(i)
    <3>1. CASE i >= N - 3
      BY <1>10, <3>1
    <3>2. CASE ~(i >= N - 3)
      <4>1. /\ i + 1 \in 0..N /\ i + 3 \in 0..N /\ N - (i + 1) <= m /\ N - (i + 3) <= m
            /\ i < N - 3
        BY <1>1, <2>1, <2>2, <3>2
      <4>2. Good(i + 1) /\ Good(i + 3)
        BY <2>1, <4>1
      <4> QED
        BY <1>11, <4>1, <4>2
    <3> QED
      BY <3>1, <3>2
  <2> HIDE DEF Good
  <2> QED
    BY <2>1, <2>2
<1>14. Nat \subseteq G
  <2> HIDE DEF G
  <2> QED
    BY <1>12, <1>13, SetInduction
<1>15. Good(0)
  <2> HIDE DEF Good
  <2>1. \A m \in Nat : \A i \in 0..N : N - i <= m => Good(i)
    BY <1>14
  <2>2. N \in Nat /\ 0 \in 0..N /\ N - 0 <= N
    BY <1>1
  <2> QED
    BY <2>1, <2>2
<1> QED
  BY <1>6, <1>7, <1>15

\* A NALU after its start code.
Prefixed(q, e, nalu) ==
  /\ q \in Seq(Byte) /\ Len(q) = 3 + e + Len(nalu)
  /\ e = 1 => q[1] = 0
  /\ q[e + 1] = 0 /\ q[e + 2] = 0 /\ q[e + 3] = 1
  /\ \A j \in 1..Len(nalu) : q[e + 3 + j] = nalu[j]

\* A start code of three or four bytes before a NALU.
LEMMA PrefixFacts ==
  ASSUME NEW e \in 0..1, NEW nalu \in Seq(Byte), NEW p, p = IF e = 1 THEN << 0 >> ELSE <<>>
  PROVE  Prefixed(p \o <<0, 0, 1>> \o nalu, e, nalu)
<1>1. PICK c : c = <<0, 0, 1>>
  OBVIOUS
<1>2. c \in Seq(Byte) /\ Len(c) = 3 /\ c[1] = 0 /\ c[2] = 0 /\ c[3] = 1
  BY <1>1 DEF Byte
<1>3. p \in Seq(Byte) /\ Len(p) = e /\ (e = 1 => p[1] = 0)
  <2>1. <<0>> \in Seq(Byte) /\ Len(<<0>>) = 1 /\ <<0>>[1] = 0
    BY DEF Byte
  <2>2. <<>> \in Seq(Byte) /\ Len(<<>>) = 0
    BY EmptySeq
  <2>3. CASE e = 1
    BY <2>1, <2>3
  <2>4. CASE e = 0
    BY <2>2, <2>4
  <2> QED
    BY <2>3, <2>4
<1>4. PICK q : q = p \o c \o nalu
  OBVIOUS
<1>5. IsQueue(p) /\ IsQueue(c) /\ IsQueue(nalu)
  BY <1>2, <1>3, Zenon DEF IsQueue
<1>6. q \in Seq(Byte)
  BY <1>2, <1>3, <1>4, ConcatProperties
<1>7. ThreeParts(q, p, c, nalu)
  BY <1>4, <1>5, ConcatThree, Zenon
<1>8. q[e + 1] = c[1] /\ q[e + 2] = c[2] /\ q[e + 3] = c[3] /\ (e = 1 => q[1] = p[1])
  <2>1. 1 \in 1..3 /\ 2 \in 1..3 /\ 3 \in 1..3 /\ (e = 1 => 1 \in 1..e)
    OBVIOUS
  <2> QED
    BY <1>2, <1>3, <1>7, <2>1 DEF ThreeParts
<1>9. Len(q) = 3 + e + Len(nalu)
  BY <1>2, <1>3, <1>7 DEF ThreeParts
<1>10. ASSUME NEW j \in 1..Len(nalu) PROVE q[e + 3 + j] = nalu[j]
  BY <1>2, <1>3, <1>7 DEF ThreeParts
<1>11. Prefixed(q, e, nalu)
  BY <1>2, <1>3, <1>6, <1>8, <1>9, <1>10 DEF Prefixed
<1> QED
  BY <1>1, <1>4, <1>11, Zenon

\* What the source of the encoder may hand over: a frame of H.264.
LegalFrame(frame) ==
  /\ frame \in Seq(Seq(Byte)) /\ frame # <<>>
  /\ \A i \in DOMAIN frame : LegalNalu(frame[i])

\* Where the NALUs of a frame lie in its bytes.
LayoutOf(frame, off, e) ==
  /\ e \in [1..Len(frame) -> 0..1] /\ e[1] = 1
  /\ Ends(off, [k \in 1..Len(frame) |-> 3 + e[k] + Len(frame[k])], Len(frame))
  /\ Len(AnnexB(frame)) = off[Len(frame) + 1]
  /\ \A k \in 1..Len(frame) :
        /\ e[k] = 1 => AnnexB(frame)[off[k] + 1] = 0
        /\ AnnexB(frame)[off[k] + e[k] + 1] = 0
        /\ AnnexB(frame)[off[k] + e[k] + 2] = 0
        /\ AnnexB(frame)[off[k] + e[k] + 3] = 1
        /\ \A j \in 1..Len(frame[k]) :
              AnnexB(frame)[off[k] + e[k] + 3 + j] = frame[k][j]

\* What a frame is made of.
LEMMA FrameBasics ==
  ASSUME NEW frame, LegalFrame(frame)
  PROVE  /\ Len(frame) \in Nat \ {0} /\ DOMAIN frame = 1..Len(frame) /\ IsQueue(frame)
         /\ \A k \in 1..Len(frame) :
              /\ frame[k] \in Seq(Byte) /\ IsQueue(frame[k]) /\ Len(frame[k]) \in Nat \ {0}
              /\ \A j \in 1..Len(frame[k]) : frame[k][j] \in Byte
              /\ LegalNalu(frame[k])
<1>1. frame \in Seq(Seq(Byte)) /\ frame # <<>>
  BY DEF LegalFrame
<1>2. IsQueue(frame)
  BY <1>1 DEF IsQueue
<1>3. Len(frame) \in Nat \ {0} /\ DOMAIN frame = 1..Len(frame)
  BY <1>1, <1>2, QueueBasics
<1>4. ASSUME NEW k \in 1..Len(frame)
      PROVE  /\ frame[k] \in Seq(Byte) /\ IsQueue(frame[k]) /\ Len(frame[k]) \in Nat \ {0}
             /\ \A j \in 1..Len(frame[k]) : frame[k][j] \in Byte
             /\ LegalNalu(frame[k])
  <2>1. LegalNalu(frame[k])
    BY <1>3 DEF LegalFrame
  <2>2. frame[k] \in Seq(Byte) /\ frame[k] # <<>>
    BY <2>1 DEF LegalNalu
  <2>3. IsQueue(frame[k])
    BY <2>2 DEF IsQueue
  <2>4. \A j \in 1..Len(frame[k]) : frame[k][j] \in Byte
    BY <2>2, ElementOfSeq
  <2> QED
    BY <2>1, <2>2, <2>3, <2>4, QueueBasics
<1> QED
  BY <1>2, <1>3, <1>4

\* The bytes of a frame are its NALUs, each after a start code.
LEMMA AnnexBLayout ==
  ASSUME NEW frame, LegalFrame(frame)
  PROVE  AnnexB(frame) \in Seq(Byte) /\ \E off, e : LayoutOf(frame, off, e)
<1> DEFINE n == Len(frame)
           Long(i) == i = 1 \/ TypeOf(frame[i][1]) \in {7, 8}
           e == [k \in 1..n |-> IF Long(k) THEN 1 ELSE 0]
           Part(k) == (IF Long(k) THEN <<0>> ELSE <<>>) \o <<0, 0, 1>> \o frame[k]
           s == [k \in 1..n |-> Part(k)]
           l == [k \in 1..n |-> 3 + e[k] + Len(frame[k])]
           b == AnnexB(frame)
<1>1. /\ n \in Nat \ {0} /\ DOMAIN frame = 1..n
      /\ \A k \in 1..n : frame[k] \in Seq(Byte) /\ Len(frame[k]) \in Nat
  BY FrameBasics
<1>2. b = FlattenSeq(s)
  BY <1>1, Zenon DEF AnnexB
<1>3. e \in [1..n -> 0..1] /\ e[1] = 1
  BY <1>1
<1>4. ASSUME NEW k \in 1..n
      PROVE  /\ Part(k) \in Seq(Byte) /\ Len(Part(k)) = 3 + e[k] + Len(frame[k])
             /\ e[k] = 1 => Part(k)[1] = 0
             /\ Part(k)[e[k] + 1] = 0 /\ Part(k)[e[k] + 2] = 0 /\ Part(k)[e[k] + 3] = 1
             /\ \A j \in 1..Len(frame[k]) : Part(k)[e[k] + 3 + j] = frame[k][j]
  <2> DEFINE p == IF Long(k) THEN <<0>> ELSE <<>>
  <2>1. e[k] \in 0..1
    BY <1>3
  <2>2. (e[k] = 1) <=> Long(k)
    <3> HIDE DEF Long
    <3> QED
      OBVIOUS
  <2>3. p = IF e[k] = 1 THEN <<0>> ELSE <<>>
    BY <2>2, Zenon
  <2> HIDE DEF p, e
  <2>4. frame[k] \in Seq(Byte)
    BY <1>1
  <2>5. Prefixed(p \o <<0, 0, 1>> \o frame[k], e[k], frame[k])
    BY <2>1, <2>3, <2>4, PrefixFacts, Zenon
  <2>6. Prefixed(Part(k), e[k], frame[k])
    BY <2>5, Zenon DEF p
  <2> HIDE DEF Part
  <2> QED
    BY <2>6 DEF Prefixed
<1> HIDE DEF Part
<1>5. s = [k \in 1..n |-> s[k]] /\ \A k \in 1..n : s[k] = Part(k)
  OBVIOUS
<1>6. IsQueue(s) /\ Len(s) = n
  <2> HIDE DEF s
  <2> QED
    BY <1>1, <1>5, FunctionQueue
<1>7. \A k \in 1..n : s[k] \in Seq(Byte) /\ IsQueue(s[k])
  BY <1>4, <1>5 DEF IsQueue
<1>8. l \in [1..n -> Nat]
  BY <1>1, <1>3
<1>9. PICK off : Ends(off, l, n)
  <2> HIDE DEF l, n
  <2> QED
    BY <1>1, <1>8, EndsExist
<1>10. Lengths(s) = l
  <2>1. \A k \in 1..n : Len(s[k]) = 3 + e[k] + Len(frame[k])
    BY <1>4, <1>5
  <2> HIDE DEF s, e
  <2> QED
    BY <1>6, <2>1 DEF Lengths
<1> HIDE DEF b, e, s, l
<1>11. b \in Seq(Byte)
  BY <1>2, <1>6, <1>7, FlattenType
<1>12. /\ Len(b) = off[n + 1]
       /\ \A k \in 1..n : \A j \in 1..Len(s[k]) : b[off[k] + j] = s[k][j]
  BY <1>2, <1>6, <1>7, <1>9, <1>10, FlattenFacts
<1>13. ASSUME NEW k \in 1..n
       PROVE  /\ e[k] = 1 => b[off[k] + 1] = 0
              /\ b[off[k] + e[k] + 1] = 0
              /\ b[off[k] + e[k] + 2] = 0
              /\ b[off[k] + e[k] + 3] = 1
              /\ \A j \in 1..Len(frame[k]) : b[off[k] + e[k] + 3 + j] = frame[k][j]
  <2>1. e[k] \in 0..1 /\ Len(frame[k]) \in Nat /\ off[k] \in Nat
    BY <1>1, <1>3, <1>9, SMTT(60) DEF Ends
  <2>2. Len(s[k]) = 3 + e[k] + Len(frame[k])
    BY <1>4, <1>5
  <2>3. 1 \in 1..Len(s[k]) /\ e[k] + 1 \in 1..Len(s[k]) /\ e[k] + 2 \in 1..Len(s[k])
        /\ e[k] + 3 \in 1..Len(s[k])
    BY <2>1, <2>2, SMTT(60)
  <2>4. /\ b[off[k] + 1] = s[k][1] /\ b[off[k] + (e[k] + 1)] = s[k][e[k] + 1]
        /\ b[off[k] + (e[k] + 2)] = s[k][e[k] + 2] /\ b[off[k] + (e[k] + 3)] = s[k][e[k] + 3]
    BY <1>12, <2>3
  <2>5. ASSUME NEW j \in 1..Len(frame[k]) PROVE b[off[k] + e[k] + 3 + j] = frame[k][j]
    <3>1. e[k] + 3 + j \in 1..Len(s[k]) /\ off[k] + (e[k] + 3 + j) = off[k] + e[k] + 3 + j
      <4>1. j \in Nat \ {0} /\ j <= Len(frame[k]) /\ e[k] \in Nat
        BY <2>1
      <4>2. e[k] + 3 + j \in Nat \ {0} /\ e[k] + 3 + j <= 3 + e[k] + Len(frame[k])
        BY <2>1, <4>1, SMTT(60)
      <4>3. off[k] + (e[k] + 3 + j) = off[k] + e[k] + 3 + j
        BY <2>1, <4>1
      <4> QED
        BY <2>1, <2>2, <4>2, <4>3
    <3>2. b[off[k] + (e[k] + 3 + j)] = s[k][e[k] + 3 + j]
      BY <1>12, <3>1
    <3> QED
      BY <1>4, <1>5, <3>1, <3>2
  <2>6. /\ off[k] + (e[k] + 1) = off[k] + e[k] + 1 /\ off[k] + (e[k] + 2) = off[k] + e[k] + 2
        /\ off[k] + (e[k] + 3) = off[k] + e[k] + 3
    BY <2>1
  <2> QED
    BY <1>4, <1>5, <2>4, <2>5, <2>6
<1>14. LayoutOf(frame, off, e)
  BY <1>3, <1>9, <1>12, <1>13 DEF LayoutOf, l, b
<1> QED
  BY <1>11, <1>14 DEF b

\* The start codes of a frame are those before its NALUs, and no others.
LEMMA CodesOfFrame ==
  ASSUME NEW frame, LegalFrame(frame), NEW off, NEW e, LayoutOf(frame, off, e)
  PROVE  \A p : CodeAt(AnnexB(frame), p) <=> \E k \in 1..Len(frame) : p = off[k] + e[k]
<1> DEFINE n == Len(frame)
           b == AnnexB(frame)
           l == [k \in 1..n |-> 3 + e[k] + Len(frame[k])]
<1>1. /\ n \in Nat \ {0} /\ \A k \in 1..n : /\ Len(frame[k]) \in Nat \ {0} /\ LegalNalu(frame[k])
                                            /\ \A j \in 1..Len(frame[k]) : frame[k][j] \in Byte
  BY FrameBasics
<1>2. \A k \in 1..n : e[k] \in 0..1
  BY DEF LayoutOf
<1>3. l \in [1..n -> Nat] /\ \A k \in 1..n : l[k] = 3 + e[k] + Len(frame[k])
  BY <1>1, <1>2
<1>4. Ends(off, l, n) /\ Len(b) = off[n + 1]
  BY DEF LayoutOf
<1>5. ASSUME NEW k \in 1..n
      PROVE  /\ e[k] = 1 => b[off[k] + 1] = 0
             /\ b[off[k] + e[k] + 1] = 0
             /\ b[off[k] + e[k] + 2] = 0
             /\ b[off[k] + e[k] + 3] = 1
             /\ \A j \in 1..Len(frame[k]) : b[off[k] + e[k] + 3 + j] = frame[k][j]
  BY DEF LayoutOf
<1> HIDE DEF l, b
<1>6. ASSUME NEW k \in 1..n
      PROVE  off[k] \in Nat /\ off[k + 1] = off[k] + l[k] /\ off[k + 1] <= Len(b) /\ Len(b) \in Nat
  <2>1. off[k + 1] <= off[n + 1]
    <3>1. k + 1 \in 1..(n + 1) /\ n + 1 \in 1..(n + 1) /\ k + 1 <= n + 1 /\ n \in Nat
      BY <1>1
    <3> HIDE DEF n
    <3> QED
      BY <1>3, <1>4, <3>1, EndsGrow
  <2>2. off \in [1..(n + 1) -> Nat] /\ off[k + 1] = off[k] + l[k]
    BY <1>4 DEF Ends
  <2>3. k \in 1..(n + 1) /\ n + 1 \in 1..(n + 1)
    BY <1>1
  <2> QED
    BY <1>4, <2>1, <2>2, <2>3
<1>7. ASSUME NEW k \in 1..n
      PROVE  \E o \in Nat, x \in 0..1, m \in Nat \ {0} :
                /\ o = off[k] /\ x = e[k] /\ m = Len(frame[k]) /\ l[k] = 3 + x + m
                /\ o + 3 + x + m <= Len(b)
                /\ x = 1 => b[o + 1] = 0
                /\ b[o + x + 1] = 0 /\ b[o + x + 2] = 0 /\ b[o + x + 3] = 1
                /\ \A j \in 1..m : b[o + x + 3 + j] = frame[k][j]
  <2>1. PICK o \in Nat, x \in 0..1, m \in Nat \ {0} : o = off[k] /\ x = e[k] /\ m = Len(frame[k])
    BY <1>1, <1>2, <1>6
  <2>2. l[k] = 3 + x + m
    BY <1>3, <2>1
  <2>3. PICK y \in Nat : y = off[k + 1] /\ y = o + l[k] /\ y <= Len(b)
    <3>1. l[k] \in Nat
      BY <1>3
    <3> QED
      BY <1>6, <2>1, <3>1, SMTT(60)
  <2>4. o + 3 + x + m <= Len(b)
    BY <2>2, <2>3
  <2> QED
    BY <1>5, <2>1, <2>2, <2>4, ZenonT(60)
<1>8. ASSUME NEW k \in 1..n PROVE CodeAt(b, off[k] + e[k])
  <2>1. PICK o \in Nat, x \in 0..1, m \in Nat \ {0} :
                /\ o = off[k] /\ x = e[k] /\ m = Len(frame[k]) /\ l[k] = 3 + x + m
                /\ o + 3 + x + m <= Len(b)
                /\ x = 1 => b[o + 1] = 0
                /\ b[o + x + 1] = 0 /\ b[o + x + 2] = 0 /\ b[o + x + 3] = 1
                /\ \A j \in 1..m : b[o + x + 3 + j] = frame[k][j]
    BY <1>7
  <2>2. Len(b) \in Nat
    BY <1>6
  <2>3. o + x \in 0..(Len(b) - 4)
    <3>1. PICK z \in Nat : z = Len(b)
      BY <2>2
    <3>2. o + 3 + x + m <= z
      BY <2>1, <3>1
    <3>3. o + x \in 0..(z - 4)
      BY <3>2
    <3> QED
      BY <3>1, <3>3
  <2>4. CodeAt(b, o + x)
    BY <2>1, <2>3 DEF CodeAt
  <2> QED
    BY <2>1, <2>4
<1>9. ASSUME NEW p, CodeAt(b, p) PROVE \E k \in 1..n : p = off[k] + e[k]
  <2>1. /\ p \in Nat /\ p <= Len(b) - 4 /\ Len(b) \in Nat
        /\ b[p + 1] = 0 /\ b[p + 2] = 0 /\ b[p + 3] = 1
    <3>1. n \in 1..n
      BY <1>1
    <3>2. Len(b) \in Nat
      BY <1>6, <3>1
    <3> QED
      BY <1>9, <3>2 DEF CodeAt
  <2>2. PICK k \in 1..n : p + 1 - off[k] \in 1..l[k]
    <3>1. p + 1 \in 1..off[n + 1]
      <4>1. p + 1 \in 1..Len(b)
        BY <2>1
      <4> QED
        BY <1>4, <4>1
    <3>2. n \in Nat
      BY <1>1
    <3> HIDE DEF n
    <3>3. \A x \in 1..off[n + 1] : \E k \in 1..n : x - off[k] \in 1..l[k]
      BY <1>3, <1>4, <3>2, EndsPlace
    <3>4. \E k \in 1..n : (p + 1) - off[k] \in 1..l[k]
      BY <3>1, <3>3, Zenon
    <3>5. \A k \in 1..n : off[k] \in Int
      BY <1>6
    <3>6. \A x \in Int : (p + 1) - x = p + 1 - x
      BY <2>1
    <3> QED
      BY <3>4, <3>5, <3>6
  <2>3. PICK o \in Nat, x \in 0..1, m \in Nat \ {0} :
                /\ o = off[k] /\ x = e[k] /\ m = Len(frame[k]) /\ l[k] = 3 + x + m
                /\ o + 3 + x + m <= Len(b)
                /\ x = 1 => b[o + 1] = 0
                /\ b[o + x + 1] = 0 /\ b[o + x + 2] = 0 /\ b[o + x + 3] = 1
                /\ \A j \in 1..m : b[o + x + 3 + j] = frame[k][j]
    BY <1>7
  <2>4. p + 1 - o \in 1..(3 + x + m)
    BY <2>2, <2>3
  <2> SUFFICES ASSUME p # o + x PROVE FALSE
    BY <2>3
  <2>5. p \in Nat /\ o \in Nat /\ x \in 0..1
    BY <2>1
  <2>6. CASE p < o + x
    <3>1. p = o /\ x = 1 /\ p + 3 = o + x + 2
      BY <2>4, <2>5, <2>6
    <3>2. b[p + 3] = 1
      BY <2>1, Zenon
    <3>3. b[o + x + 2] = 0
      BY <2>3, Zenon
    <3>4. b[p + 3] = b[o + x + 2]
      BY <3>1, Zenon
    <3> QED
      BY <3>2, <3>3, <3>4
  <2>7. CASE p = o + x + 1
    <3>1. p + 2 = o + x + 3
      BY <2>5, <2>7
    <3>2. b[p + 2] = 0
      BY <2>1, Zenon
    <3>3. b[o + x + 3] = 1
      BY <2>3, Zenon
    <3>4. b[p + 2] = b[o + x + 3]
      BY <3>1, Zenon
    <3> QED
      BY <3>2, <3>3, <3>4
  <2>8. CASE p = o + x + 2
    <3>1. p + 1 = o + x + 3
      BY <2>5, <2>8
    <3>2. b[p + 1] = 0
      BY <2>1, Zenon
    <3>3. b[o + x + 3] = 1
      BY <2>3, Zenon
    <3>4. b[p + 1] = b[o + x + 3]
      BY <3>1, Zenon
    <3> QED
      BY <3>2, <3>3, <3>4
  <2>9. CASE p > o + x + 2
    <3>1. PICK i \in 1..m : o + x + 3 + i = p + 1 /\ o + x + 3 + (i + 1) = p + 2
                            /\ o + x + 3 + (i + 2) = p + 3
      <4>1. (p + 1) - (o + x + 3) \in 1..m
        BY <2>4, <2>5, <2>9
      <4> QED
        BY <2>5, <4>1
    <3>2. /\ frame[k][m] # 0
          /\ \A j \in 1..(m - 2) : <<frame[k][j], frame[k][j + 1], frame[k][j + 2]>> # <<0, 0, 1>>
      BY <1>1, <2>3 DEF LegalNalu
    <3>3. frame[k][i] = 0
      BY <2>1, <2>3, <3>1
    <3>4. i + 1 \in 1..m
      BY <3>2, <3>3
    <3>5. frame[k][i + 1] = 0
      BY <2>1, <2>3, <3>1, <3>4
    <3>6. i + 2 \in 1..m /\ i \in 1..(m - 2)
      <4>1. i + 1 # m
        BY <3>2, <3>5
      <4> QED
        BY <3>4, <4>1
    <3>7. frame[k][i + 2] = 1
      BY <2>1, <2>3, <3>1, <3>6
    <3> QED
      BY <3>2, <3>3, <3>5, <3>6, <3>7
  <2> QED
    BY <2>5, <2>6, <2>7, <2>8, <2>9
<1> QED
  BY <1>8, <1>9 DEF b

\* The NALUs of a frame, and no others, are found in its bytes.
LEMMA NalusFound ==
  ASSUME NEW frame, LegalFrame(frame)
  PROVE  FindNaluIndices(AnnexB(frame)) = frame
<1> DEFINE n == Len(frame)
           b == AnnexB(frame)
           at == StartCodes(b)
<1>1. PICK off, e : LayoutOf(frame, off, e)
  BY AnnexBLayout
<1> DEFINE l == [k \in 1..n |-> 3 + e[k] + Len(frame[k])]
           c == [k \in 1..n |-> off[k] + e[k]]
<1>2. /\ n \in Nat \ {0} /\ DOMAIN frame = 1..n /\ IsQueue(frame)
      /\ \A k \in 1..n : /\ IsQueue(frame[k]) /\ Len(frame[k]) \in Nat \ {0} /\ LegalNalu(frame[k])
                         /\ \A j \in 1..Len(frame[k]) : frame[k][j] \in Byte
  BY FrameBasics
<1>3. b \in Seq(Byte) /\ IsQueue(b)
  BY AnnexBLayout DEF IsQueue
<1>4. (\A k \in 1..n : e[k] \in 0..1) /\ e[1] = 1
  BY <1>1 DEF LayoutOf
<1>5. l \in [1..n -> Nat] /\ \A k \in 1..n : l[k] = 3 + e[k] + Len(frame[k])
  BY <1>2, <1>4
<1>6. Ends(off, l, n) /\ Len(b) = off[n + 1]
  BY <1>1 DEF LayoutOf
<1>7. ASSUME NEW k \in 1..n
      PROVE  /\ e[k] = 1 => b[off[k] + 1] = 0
             /\ \A j \in 1..Len(frame[k]) : b[off[k] + e[k] + 3 + j] = frame[k][j]
  BY <1>1 DEF LayoutOf
<1>8. \A p : CodeAt(b, p) <=> \E k \in 1..n : p = off[k] + e[k]
  BY <1>1, CodesOfFrame
<1>9. CodesFrom(b, 0, at)
  BY <1>3, StartCodesFound
<1> HIDE DEF l, b, at
<1>10. ASSUME NEW k \in 1..n PROVE off[k] \in Nat /\ off[k + 1] = off[k] + 3 + e[k] + Len(frame[k])
  <2>1. off \in [1..(n + 1) -> Nat] /\ off[k + 1] = off[k] + l[k]
    BY <1>6 DEF Ends
  <2>2. k \in 1..(n + 1)
    BY <1>2
  <2>3. l[k] = 3 + e[k] + Len(frame[k]) /\ e[k] \in Nat /\ Len(frame[k]) \in Nat
    BY <1>2, <1>4, <1>5
  <2>4. off[k] \in Nat
    BY <2>1, <2>2
  <2>5. PICK o \in Nat, x \in Nat, m \in Nat : o = off[k] /\ x = e[k] /\ m = Len(frame[k])
    BY <2>3, <2>4
  <2>6. o + (3 + x + m) = o + 3 + x + m
    OBVIOUS
  <2> QED
    BY <2>1, <2>3, <2>4, <2>5, <2>6
<1>11. \A i, j \in 1..(n + 1) : i <= j => off[i] <= off[j]
  <2>1. n \in Nat
    BY <1>2
  <2> HIDE DEF n
  <2> QED
    BY <1>5, <1>6, <2>1, EndsGrow
<1>12. \A k \in 1..n : c[k] = off[k] + e[k] /\ c[k] \in Nat
  <2> SUFFICES ASSUME NEW k \in 1..n PROVE c[k] = off[k] + e[k] /\ c[k] \in Nat
    OBVIOUS
  <2>1. c[k] = off[k] + e[k]
    OBVIOUS
  <2>2. off[k] \in Nat /\ e[k] \in Nat
    BY <1>4, <1>10
  <2> QED
    BY <2>1, <2>2
<1>13. IsQueue(c) /\ Len(c) = n
  <2>1. c = [k \in 1..n |-> c[k]] /\ n \in Nat
    BY <1>2
  <2> HIDE DEF c, n
  <2> QED
    BY <2>1, FunctionQueue
<1> HIDE DEF c
<1>14. ASSUME NEW i \in 1..n, NEW j \in 1..n, i < j PROVE c[i] < c[j]
  <2>1. i + 1 \in 1..(n + 1) /\ j \in 1..(n + 1) /\ i + 1 <= j
    BY <1>2, <1>14
  <2>2. off[i + 1] <= off[j]
    BY <1>11, <2>1
  <2>3. PICK o \in Nat, x \in 0..1, m \in Nat : o = off[i] /\ x = e[i] /\ m = Len(frame[i])
    BY <1>2, <1>4, <1>10
  <2>4. off[i + 1] = o + 3 + x + m /\ c[i] = o + x
    BY <1>10, <1>12, <2>3
  <2>5. PICK r \in Nat, y \in 0..1 : r = off[j] /\ y = e[j]
    BY <1>4, <1>10
  <2>6. c[j] = r + y
    BY <1>12, <2>5
  <2>7. o + 3 + x + m <= r
    BY <2>2, <2>4, <2>5
  <2>8. o + x < r + y
    BY <2>7
  <2> QED
    BY <2>4, <2>6, <2>8
<1>15. Increasing(c)
  BY <1>12, <1>13, <1>14 DEF Increasing
<1>16. Tasks(c) = Tasks(at)
  <2>1. \A p : p \in Tasks(c) <=> \E k \in 1..n : p = off[k] + e[k]
    BY <1>12, <1>13 DEF Tasks
  <2>2. \A p : p \in Tasks(at) <=> CodeAt(b, p) /\ p >= 0
    BY <1>9 DEF CodesFrom
  <2>3. \A p : CodeAt(b, p) => p >= 0
    BY <1>3 DEF CodeAt
  <2> QED
    BY <1>8, <2>1, <2>2, <2>3
<1>17. at = c
  BY <1>9, <1>15, <1>16, IncreasingEqual DEF CodesFrom
<1> DEFINE Start(k) == IF at[k] > 0 /\ b[at[k]] = 0 THEN at[k] - 1 ELSE at[k]
           End(k) == IF k = Len(at) THEN Len(b) ELSE Start(k + 1)
<1>18. ASSUME NEW k \in 1..n PROVE Start(k) = off[k]
  <2>1. at[k] = off[k] + e[k] /\ off[k] \in Nat
    BY <1>10, <1>12, <1>17
  <2>2. CASE e[k] = 1
    <3>1. b[at[k]] = 0 /\ at[k] > 0
      BY <1>7, <2>1, <2>2
    <3> QED
      BY <2>1, <2>2, <3>1
  <2>3. CASE e[k] = 0
    <3>1. k # 1 /\ k - 1 \in 1..n /\ (k - 1) + 1 = k
      BY <1>2, <1>4, <2>3
    <3> DEFINE m == k - 1
    <3>2. /\ off[k] = off[m] + 3 + e[m] + Len(frame[m]) /\ off[m] \in Nat /\ e[m] \in 0..1
          /\ Len(frame[m]) \in 1..Len(frame[m]) /\ Len(frame[m]) \in Nat
      BY <1>2, <1>4, <1>10, <3>1
    <3>3. b[off[m] + e[m] + 3 + Len(frame[m])] = frame[m][Len(frame[m])]
      BY <1>7, <3>1, <3>2
    <3>4. frame[m][Len(frame[m])] # 0
      BY <1>2, <3>1 DEF LegalNalu
    <3> HIDE DEF m
    <3>5. off[m] + e[m] + 3 + Len(frame[m]) = off[k]
      BY <3>2
    <3>6. b[off[k]] # 0
      BY <3>3, <3>4, <3>5
    <3>7. at[k] = off[k]
      BY <2>1, <2>3
    <3> QED
      BY <3>6, <3>7
  <2> QED
    BY <1>4, <2>2, <2>3
<1> HIDE DEF Start
<1>19. ASSUME NEW k \in 1..n PROVE End(k) = off[k + 1]
  <2>1. Len(at) = n
    BY <1>13, <1>17
  <2>2. CASE k = n
    BY <1>6, <2>1, <2>2
  <2>3. CASE k # n
    <3>1. k + 1 \in 1..n
      BY <1>2, <2>3
    <3> QED
      BY <1>18, <2>1, <2>3, <3>1
  <2> QED
    BY <2>2, <2>3
<1>20. FindNaluIndices(b) = [k \in DOMAIN at |-> SubSeq(b, at[k] + 4, End(k))]
  BY Zenon DEF FindNaluIndices, at, Start
<1> HIDE DEF End
<1>21. DOMAIN at = 1..n
  BY <1>13, <1>17, QueueBasics
<1>22. ASSUME NEW k \in 1..n PROVE SubSeq(b, at[k] + 4, End(k)) = frame[k]
  <2>1. /\ at[k] + 4 = off[k] + e[k] + 4 /\ End(k) = off[k] + 3 + e[k] + Len(frame[k])
        /\ off[k] \in Nat /\ e[k] \in 0..1 /\ Len(frame[k]) \in Nat \ {0} /\ IsQueue(frame[k])
    BY <1>2, <1>4, <1>10, <1>12, <1>17, <1>19
  <2>2. End(k) <= Len(b) /\ Len(b) \in Nat
    <3>1. k + 1 \in 1..(n + 1) /\ n + 1 \in 1..(n + 1) /\ k + 1 <= n + 1
      BY <1>2
    <3>2. off[k + 1] <= off[n + 1]
      BY <1>11, <3>1
    <3> QED
      BY <1>3, <1>6, <1>19, <3>2, QueueBasics
  <2> DEFINE x == at[k] + 4
             y == End(k)
             q == SubSeq(b, x, y)
  <2>3. x \in Nat \ {0} /\ y \in Nat /\ x <= y + 1 /\ y <= Len(b) /\ y - x + 1 = Len(frame[k])
    <3>1. PICK o \in Nat, z \in 0..1, m \in Nat \ {0} : o = off[k] /\ z = e[k] /\ m = Len(frame[k])
      BY <2>1
    <3>2. x = o + z + 4 /\ y = o + 3 + z + m /\ y <= Len(b) /\ Len(b) \in Nat
      BY <2>1, <2>2, <3>1
    <3> HIDE DEF x, y
    <3>3. x \in Nat \ {0} /\ y \in Nat /\ x <= y + 1 /\ y - x + 1 = m
      BY <3>2
    <3> QED
      BY <3>1, <3>2, <3>3
  <2>4. x - 1 = off[k] + e[k] + 3
    BY <2>1
  <2> HIDE DEF x, y
  <2>5. /\ IsQueue(q) /\ Len(q) = y - x + 1
        /\ \A j \in 1..(y - x + 1) : q[j] = b[x + j - 1]
    BY <1>3, <2>3, SubSeqFacts
  <2> HIDE DEF q
  <2>6. ASSUME NEW j \in 1..Len(q) PROVE q[j] = frame[k][j]
    <3>1. j \in 1..Len(frame[k]) /\ j \in 1..(y - x + 1)
      BY <2>3, <2>5
    <3>2. x + j - 1 = off[k] + e[k] + 3 + j
      BY <2>1, <2>3, <2>4, <3>1
    <3>3. b[off[k] + e[k] + 3 + j] = frame[k][j]
      BY <1>7, <3>1
    <3> QED
      BY <2>5, <3>1, <3>2, <3>3
  <2>7. q = frame[k]
    BY <2>1, <2>3, <2>5, <2>6, QueueEqual
  <2> QED
    BY <2>7 DEF q, x, y
<1>23. FindNaluIndices(b) = [k \in 1..n |-> frame[k]]
  BY <1>20, <1>21, <1>22
<1>24. frame = [k \in 1..n |-> frame[k]]
  BY <1>2 DEF IsQueue
<1> QED
  BY <1>23, <1>24 DEF b

-----------------------------------------------------------------------------
(* A size is split about equally, and sums are what they are called.       *)

\* Products of a larger number are larger.
LEMMA TimesGrows ==
  ASSUME NEW a \in Nat, NEW b \in Nat, NEW c \in Nat, a <= b
  PROVE  a * c <= b * c /\ a * c \in Nat /\ b * c \in Nat
<1>1. PICK d \in Nat : b = a + d
  <2>1. b - a \in Nat /\ b = a + (b - a)
    OBVIOUS
  <2> QED
    BY <2>1
<1>2. (a + d) * c = a * c + d * c /\ d * c \in Nat /\ a * c \in Nat
  OBVIOUS
<1>3. b * c = a * c + d * c
  BY <1>1, <1>2
<1> QED
  BY <1>2, <1>3

\* A quotient and its remainder.
LEMMA DivFacts ==
  ASSUME NEW a \in Nat, NEW m \in Nat \ {0}
  PROVE  /\ a \div m \in Nat /\ a % m \in 0..(m - 1)
         /\ a = ((a \div m) * m) + (a % m)
BY SMTT(60)

\* Into how many parts a size is split, and how large they are.
LEMMA ShareFacts ==
  ASSUME NEW size \in Nat, NEW max \in Nat \ {0}, size > max,
         NEW parts, parts = Max({2, (size + max - 1) \div max})
  PROVE  /\ parts \in Nat /\ parts >= 2
         /\ size \div parts \in Nat \ {0} /\ size % parts \in 0..(parts - 1)
         /\ size = ((size \div parts) * parts) + (size % parts)
         /\ size \div parts <= max /\ (size % parts # 0 => size \div parts + 1 <= max)
<1>1. PICK c \in Nat, r \in 0..(max - 1) : c = (size + max - 1) \div max /\ size + max - 1 = c * max + r
  <2>1. size + max - 1 \in Nat
    OBVIOUS
  <2> QED
    BY <2>1, DivFacts
<1>2. parts \in Nat /\ parts >= 2 /\ parts >= c /\ (parts = 2 \/ parts = c)
  <2>1. CASE c <= 2
    <3>1. Max({2, c}) = 2
      <4>1. 2 \in {2, c} /\ \A x \in {2, c} : x \in Int /\ x <= 2
        BY <2>1
      <4> QED
        BY <4>1, MaxIs
    <3> QED
      BY <1>1, <2>1, <3>1
  <2>2. CASE c > 2
    <3>1. Max({2, c}) = c
      <4>1. c \in {2, c} /\ \A x \in {2, c} : x \in Int /\ x <= c
        BY <2>2
      <4> QED
        BY <4>1, MaxIs
    <3> QED
      BY <1>1, <2>2, <3>1
  <2> QED
    BY <2>1, <2>2
<1>3. c * max >= size /\ c * max \in Nat
  <2>1. c * max \in Nat
    OBVIOUS
  <2> QED
    BY <1>1, <2>1
<1>4. c <= size
  <2> SUFFICES ASSUME size + 1 <= c PROVE FALSE
    OBVIOUS
  <2>1. (size + 1) * max <= c * max
    BY TimesGrows
  <2>2. (size + 1) * max = size * max + max /\ size * max \in Nat
    OBVIOUS
  <2>3. 1 * size <= max * size /\ max * size = size * max
    BY TimesGrows
  <2> QED
    BY <1>1, <1>3, <2>1, <2>2, <2>3
<1>5. parts <= size
  BY <1>2, <1>4
<1>6. PICK q \in Nat, t \in 0..(parts - 1) :
        q = size \div parts /\ t = size % parts /\ size = q * parts + t
  <2>1. parts \in Nat \ {0}
    BY <1>2
  <2>2. /\ size \div parts \in Nat /\ size % parts \in 0..(parts - 1)
        /\ size = ((size \div parts) * parts) + (size % parts)
    BY <2>1, DivFacts
  <2> QED
    BY <2>2, Zenon
<1>7. q # 0
  BY <1>2, <1>5, <1>6
<1>8. c * max <= parts * max /\ parts * max = max * parts /\ max * parts \in Nat
  BY <1>2, TimesGrows
<1>9. q * parts \in Nat
  BY <1>2, SMTT(60)
<1>10. q <= max
  <2> SUFFICES ASSUME max + 1 <= q PROVE FALSE
    OBVIOUS
  <2>1. (max + 1) * parts <= q * parts
    BY <1>2, TimesGrows
  <2>2. (max + 1) * parts = max * parts + parts
    BY <1>2
  <2>3. PICK u \in Nat, v \in Nat, w \in Nat : u = q * parts /\ v = max * parts /\ w = c * max
    BY <1>3, <1>8, <1>9
  <2>4. v + parts <= u /\ w <= v /\ w >= size /\ size = u + t
    BY <1>3, <1>6, <1>8, <2>1, <2>2, <2>3
  <2> QED
    BY <1>2, <2>4
<1>11. t # 0 => q + 1 <= max
  <2> SUFFICES ASSUME t # 0, max <= q PROVE FALSE
    BY <1>6
  <2>1. max * parts <= q * parts
    BY <1>2, TimesGrows
  <2>2. PICK u \in Nat, v \in Nat, w \in Nat : u = q * parts /\ v = max * parts /\ w = c * max
    BY <1>3, <1>8, <1>9, SMTT(60)
  <2>3. v <= u /\ w <= v /\ w >= size /\ size = u + t
    BY <1>3, <1>6, <1>8, <2>1, <2>2
  <2> QED
    BY <2>3, SMTT(60)
<1> QED
  BY <1>2, <1>6, <1>7, <1>10, <1>11

\* size is made of the parts p, none of them over max.
Divided(p, off, size, max) ==
  /\ IsQueue(p) /\ Len(p) \in Nat \ {0} /\ Ends(off, p, Len(p)) /\ off[Len(p) + 1] = size
  /\ \A k \in 1..Len(p) : p[k] \in 1..max

\* SplitAboutEqual splits a size that is over max into parts none of which is.
LEMMA SplitFacts ==
  ASSUME NEW size \in Nat, NEW max \in Nat \ {0}, size > max
  PROVE  \E off : Divided(SplitAboutEqual(size, max), off, size, max)
<1> DEFINE parts == Max({2, (size + max - 1) \div max})
           larger == size % parts
           quarter == size \div parts
           Share(left) == size \div parts + (IF left <= larger THEN 1 ELSE 0)
           Part(left, remain) ==
             IF left = 2 /\ Share(left) >= remain THEN remain - 1 ELSE Min({Share(left), remain})
           Row(g, left) == [remain \in 0..size |->
             IF remain = 0 \/ left = 0 THEN <<>>
             ELSE <<Part(left, remain)>> \o g[left - 1][remain - Part(left, remain)]]
           Search(g, m) == g = [left \in 0..m |-> Row(g, left)]
           total == [left \in 0..parts |-> left * quarter + (IF left <= larger THEN left ELSE larger)]
<1>1. PICK n \in Nat, q \in Nat, t \in Nat :
        /\ n = parts /\ q = quarter /\ t = larger
        /\ n >= 2 /\ q # 0 /\ t <= n - 1 /\ size = q * n + t
        /\ q <= max /\ (t # 0 => q + 1 <= max)
  <2>1. /\ parts \in Nat /\ parts >= 2
        /\ size \div parts \in Nat \ {0} /\ size % parts \in 0..(parts - 1)
        /\ size = ((size \div parts) * parts) + (size % parts)
        /\ size \div parts <= max /\ (size % parts # 0 => size \div parts + 1 <= max)
    BY ShareFacts
  <2> HIDE DEF parts
  <2>2. /\ parts \in Nat /\ quarter \in Nat /\ larger \in Nat
        /\ parts >= 2 /\ quarter # 0 /\ larger <= parts - 1 /\ size = quarter * parts + larger
        /\ quarter <= max /\ (larger # 0 => quarter + 1 <= max)
    BY <2>1
  <2> HIDE DEF quarter, larger
  <2> QED
    BY <2>2, Zenon
<1>2. SplitAboutEqual(size, max) = (CHOOSE g : Search(g, parts))[parts][size]
  <2>1. ~(max >= size)
    OBVIOUS
  <2>2. ~(max < 1)
    OBVIOUS
  <2>3. max < size
    OBVIOUS
  <2> QED
    BY <2>1, <2>2, <2>3, Zenon DEF SplitAboutEqual
<1> HIDE DEF parts
<1>3. \A left \in 0..n : /\ Share(left) = q + (IF left <= t THEN 1 ELSE 0)
                         /\ Share(left) \in Nat
  BY <1>1
<1>4. ASSUME NEW left \in 0..n
      PROVE  /\ total[left] = left * q + (IF left <= t THEN left ELSE t)
             /\ total[left] \in 0..size
  <2>1. total[left] = left * q + (IF left <= t THEN left ELSE t)
    BY <1>1
  <2>2. left * q <= n * q /\ left * q \in Nat /\ n * q \in Nat
    BY TimesGrows
  <2>3. n * q = q * n
    OBVIOUS
  <2>4. PICK u \in Nat, v \in Nat : u = left * q /\ v = n * q
    BY <2>2
  <2>5. u <= v /\ size = v + t /\ total[left] = u + (IF left <= t THEN left ELSE t)
    BY <1>1, <2>1, <2>2, <2>3, <2>4
  <2>6. total[left] \in 0..size
    BY <2>5
  <2> QED
    BY <2>1, <2>6
<1>5. total[0] = 0 /\ total[n] = size
  <2>1. 0 * q = 0 /\ n * q = q * n /\ q * n \in Nat
    OBVIOUS
  <2>2. 0 \in 0..n /\ n \in 0..n /\ 0 <= t /\ ~(n <= t)
    BY <1>1
  <2>3. total[0] = 0 * q + 0 /\ total[n] = n * q + t
    BY <1>4, <2>2
  <2> QED
    BY <1>1, <2>1, <2>3
<1>6. ASSUME NEW left \in 1..n
      PROVE  total[left] = total[left - 1] + Share(left)
  <2>1. left * q = (left - 1) * q + q /\ (left - 1) * q \in Int
    <3>1. PICK d \in Nat : d = left - 1
      OBVIOUS
    <3>2. (d + 1) * q = d * q + q /\ d * q \in Int
      OBVIOUS
    <3>3. left = d + 1
      BY <3>1
    <3> QED
      BY <3>1, <3>2, <3>3
  <2>2. left - 1 \in 0..n /\ left \in 0..n
    OBVIOUS
  <2>3. PICK u \in Int : u = (left - 1) * q
    BY <2>1
  <2>4. /\ total[left] = u + q + (IF left <= t THEN left ELSE t)
        /\ total[left - 1] = u + (IF left - 1 <= t THEN left - 1 ELSE t)
    BY <1>4, <2>1, <2>2, <2>3
  <2>5. Share(left) = q + (IF left <= t THEN 1 ELSE 0)
    BY <1>3, <2>2
  <2> HIDE DEF Share, total
  <2> QED
    BY <2>4, <2>5
<1>7. \A left \in 1..n : Share(left) \in 1..max
  BY <1>1, <1>3
<1> HIDE DEF Share, total
<1>8. ASSUME NEW left \in 1..n PROVE total[left] # 0 /\ Part(left, total[left]) = Share(left)
  <2>1. PICK s \in 1..max : s = Share(left)
    BY <1>7
  <2>2. PICK x \in Nat, y \in Nat : x = total[left] /\ y = total[left - 1] /\ x = y + s
    <3>1. left - 1 \in 0..n /\ left \in 0..n
      OBVIOUS
    <3> QED
      BY <1>4, <1>6, <2>1, <3>1
  <2>3. ~(left = 2 /\ s >= x)
    <3> SUFFICES ASSUME left = 2 PROVE y # 0
      BY <2>2
    <3>1. 1 \in 1..n /\ 1 - 1 = 0 /\ left - 1 = 1
      OBVIOUS
    <3>2. total[1] = total[0] + Share(1)
      BY <1>6, <3>1
    <3> QED
      BY <1>5, <1>7, <2>2, <3>1, <3>2
  <2>4. Min({s, x}) = s
    <3>1. {s, x} \in SUBSET (0..x) /\ {s, x} # {} /\ 0 \in Int /\ x \in Int
      BY <2>2
    <3>2. Min({s, x}) \in {s, x} /\ \A y2 \in {s, x} : Min({s, x}) <= y2
      BY <3>1, Extremes
    <3>3. Min({s, x}) = s \/ Min({s, x}) = x
      BY <3>2
    <3>4. Min({s, x}) <= s
      BY <3>2
    <3> QED
      BY <2>2, <3>3, <3>4
  <2>5. Part(left, x) = s
    BY <2>1, <2>3, <2>4
  <2>6. x # 0
    BY <2>2
  <2> HIDE DEF Part
  <2> QED
    BY <2>1, <2>2, <2>5, <2>6
<1> HIDE DEF Part
<1>9. \E g : Search(g, n)
  <2> DEFINE E == {m \in Nat : m <= n => \E g : Search(g, m)}
  <2>1. 0 \in E
    <3>1. 0..0 = {0}
      OBVIOUS
    <3> DEFINE z == [left \in {0} |-> [remain \in 0..size |-> <<>>]]
    <3>2. \A g : Row(g, 0) = [remain \in 0..size |-> <<>>]
      OBVIOUS
    <3> HIDE DEF Row
    <3>3. [left \in {0} |-> Row(z, left)] = z
      BY <3>2, Zenon
    <3>4. Search(z, 0)
      BY <3>1, <3>3, Zenon
    <3> HIDE DEF Search, z
    <3> QED
      BY <3>4
  <2>2. ASSUME NEW m \in E PROVE m + 1 \in E
    <3>1. m \in Nat /\ m + 1 \in Nat
      OBVIOUS
    <3> SUFFICES ASSUME m + 1 <= n PROVE \E g : Search(g, m + 1)
      BY <3>1
    <3>2. PICK g : Search(g, m)
      BY <3>1, SMTT(60)
    <3> DEFINE new == [left \in 0..(m + 1) |-> Row(g, left)]
    <3>3. ASSUME NEW left \in 0..m PROVE new[left] = g[left]
      <4> HIDE DEF Row
      <4>1. left \in 0..(m + 1)
        BY <3>1
      <4>2. g[left] = Row(g, left)
        BY <3>2
      <4> QED
        BY <4>1, <4>2
    <3> HIDE DEF new, Search
    <3>4. ASSUME NEW left \in 0..(m + 1) PROVE Row(new, left) = Row(g, left)
      <4>1. CASE left = 0
        BY <4>1
      <4>2. CASE left # 0
        <5>1. left - 1 \in 0..m
          BY <3>1, <4>2
        <5>2. new[left - 1] = g[left - 1]
          BY <3>3, <5>1
        <5> QED
          BY <5>2, Zenon
      <4> QED
        BY <4>1, <4>2
    <3>5. Search(new, m + 1)
      <4> HIDE DEF Row
      <4>1. [left \in 0..(m + 1) |-> Row(new, left)] = [left \in 0..(m + 1) |-> Row(g, left)]
        BY <3>4
      <4> QED
        BY <4>1 DEF new, Search
    <3> QED
      BY <3>5
  <2>3. Nat \subseteq E
    <3> HIDE DEF E
    <3> QED
      BY <2>1, <2>2, SetInduction
  <2>4. n \in E
    <3> HIDE DEF E
    <3> QED
      BY <2>3
  <2> HIDE DEF Search
  <2> QED
    BY <2>4
<1> HIDE DEF Search
<1>10. PICK g : g = CHOOSE h : Search(h, n)
  OBVIOUS
<1>11. Search(g, n)
  BY <1>9, <1>10
<1>12. SplitAboutEqual(size, max) = g[n][size]
  BY <1>1, <1>2, <1>10
<1>13. /\ g[0][total[0]] = <<>>
       /\ \A left \in 1..n :
            g[left][total[left]] = <<Share(left)>> \o g[left - 1][total[left - 1]]
  <2>1. \A left \in 0..n : g[left] = Row(g, left)
    <3> HIDE DEF Row
    <3> QED
      BY <1>11 DEF Search
  <2>2. g[0][total[0]] = <<>>
    <3>1. 0 \in 0..n /\ total[0] \in 0..size
      BY <1>4
    <3> QED
      BY <2>1, <3>1, ZenonT(60)
  <2>3. ASSUME NEW left \in 1..n
        PROVE  g[left][total[left]] = <<Share(left)>> \o g[left - 1][total[left - 1]]
    <3>1. left \in 0..n /\ left # 0 /\ total[left] \in 0..size /\ total[left] # 0
      BY <1>4, <1>8
    <3>2. g[left][total[left]] =
            <<Part(left, total[left])>> \o g[left - 1][total[left] - Part(left, total[left])]
      <4>1. g[left] = Row(g, left)
        BY <2>1, <3>1
      <4>2. Row(g, left)[total[left]] =
            <<Part(left, total[left])>> \o g[left - 1][total[left] - Part(left, total[left])]
        BY <3>1, Zenon
      <4> QED
        BY <4>1, <4>2, Zenon
    <3>3. total[left] - Share(left) = total[left - 1]
      <4>1. left - 1 \in 0..n
        OBVIOUS
      <4>2. PICK x \in Nat, y \in Nat, z \in Nat :
              x = total[left] /\ y = total[left - 1] /\ z = Share(left)
        BY <1>4, <1>7, <3>1, <4>1
      <4>3. x = y + z
        BY <1>6, <4>2
      <4>4. x - z = y
        BY <4>3
      <4> QED
        BY <4>2, <4>4
    <3> QED
      BY <1>8, <3>2, <3>3
  <2> QED
    BY <2>2, <2>3
<1> DEFINE p(left) == g[left][total[left]]
           Good(left) == /\ IsQueue(p(left)) /\ Len(p(left)) = left
                         /\ \A k \in 1..left : p(left)[k] = Share(left - k + 1)
           G == {m \in Nat : m <= n => Good(m)}
<1>14. 0 \in G
  <2>1. IsQueue(<<>>) /\ Len(<<>>) = 0
    BY ListedTasks
  <2>2. Good(0)
    BY <1>13, <2>1
  <2> HIDE DEF Good
  <2> QED
    BY <2>2
<1>15. ASSUME NEW m \in G PROVE m + 1 \in G
  <2>1. m \in Nat /\ m + 1 \in Nat
    OBVIOUS
  <2> SUFFICES ASSUME m + 1 <= n PROVE Good(m + 1)
    BY <2>1
  <2>2. Good(m)
    BY <2>1
  <2>3. PICK a : a = p(m)
    OBVIOUS
  <2>4. PICK h : h = <<Share(m + 1)>>
    OBVIOUS
  <2>5. IsQueue(h) /\ Len(h) = 1 /\ h[1] = Share(m + 1)
    BY <2>4, ListedTasks
  <2>6. p(m + 1) = h \o a
    <3>1. m + 1 \in 1..n /\ (m + 1) - 1 = m
      BY <2>1
    <3> QED
      BY <1>13, <2>3, <2>4, <3>1
  <2>7. IsQueue(a) /\ Len(a) = m /\ \A k \in 1..m : a[k] = Share(m - k + 1)
    BY <2>2, <2>3
  <2>8. PICK b : b = h \o a
    OBVIOUS
  <2>9. TwoParts(b, h, a)
    BY <2>5, <2>7, <2>8, ConcatTwo, Zenon
  <2>10. IsQueue(b) /\ Len(b) = m + 1
    BY <2>1, <2>5, <2>7, <2>9 DEF TwoParts
  <2>11. ASSUME NEW k \in 1..(m + 1) PROVE b[k] = Share((m + 1) - k + 1)
    <3>1. CASE k = 1
      <4>1. (m + 1) - k + 1 = m + 1 /\ 1 \in 1..Len(h)
        BY <2>1, <2>5, <3>1
      <4> QED
        BY <2>5, <2>9, <3>1, <4>1 DEF TwoParts
    <3>2. CASE k # 1
      <4>1. k - 1 \in 1..m /\ 1 + (k - 1) = k /\ m - (k - 1) + 1 = (m + 1) - k + 1
        BY <2>1, <3>2
      <4>2. b[1 + (k - 1)] = a[k - 1]
        BY <2>5, <2>7, <2>9, <4>1 DEF TwoParts
      <4>3. a[k - 1] = Share(m - (k - 1) + 1)
        BY <2>7, <4>1
      <4> QED
        BY <4>1, <4>2, <4>3
    <3> QED
      BY <3>1, <3>2
  <2> QED
    BY <2>6, <2>8, <2>10, <2>11
<1>16. Good(n)
  <2>1. Nat \subseteq G
    <3> HIDE DEF G
    <3> QED
      BY <1>14, <1>15, SetInduction
  <2> HIDE DEF Good
  <2> QED
    BY <2>1
<1>17. PICK r : r = SplitAboutEqual(size, max)
  OBVIOUS
<1>18. IsQueue(r) /\ Len(r) = n /\ \A k \in 1..n : r[k] = Share(n - k + 1)
  BY <1>5, <1>12, <1>16, <1>17
<1> DEFINE off == [k \in 1..(n + 1) |-> size - total[n - k + 1]]
<1>19. ASSUME NEW k \in 1..(n + 1)
       PROVE  off[k] = size - total[n - k + 1] /\ off[k] \in Nat /\ n - k + 1 \in 0..n
  <2>1. n - k + 1 \in 0..n
    OBVIOUS
  <2>2. PICK x \in 0..size : x = total[n - k + 1]
    BY <1>4, <2>1
  <2> QED
    BY <2>1, <2>2
<1>20. off[1] = 0 /\ off[n + 1] = size
  <2>1. 1 \in 1..(n + 1) /\ n + 1 \in 1..(n + 1) /\ n - 1 + 1 = n /\ n - (n + 1) + 1 = 0
    OBVIOUS
  <2> QED
    BY <1>5, <1>19, <2>1
<1>21. ASSUME NEW k \in 1..n PROVE off[k + 1] = off[k] + r[k] /\ r[k] \in 1..max
  <2>1. PICK l \in 1..n : l = n - k + 1 /\ l - 1 = n - (k + 1) + 1
    OBVIOUS
  <2>2. k \in 1..(n + 1) /\ k + 1 \in 1..(n + 1) /\ l \in 0..n /\ l - 1 \in 0..n
    OBVIOUS
  <2>3. PICK x \in Nat, y \in Nat, s \in 1..max : x = total[l] /\ y = total[l - 1] /\ s = Share(l)
    BY <1>4, <1>7, <2>2
  <2>4. x = y + s /\ size - y = (size - x) + s
    <3>1. x = y + s
      BY <1>6, <2>3
    <3> QED
      BY <3>1
  <2>5. off[k] = size - x /\ off[k + 1] = size - y /\ r[k] = s
    BY <1>18, <1>19, <2>1, <2>2, <2>3
  <2> QED
    BY <2>4, <2>5
<1>22. off \in [1..(n + 1) -> Nat]
  BY <1>19
<1> HIDE DEF off
<1>23. Ends(off, r, n)
  BY <1>20, <1>21, <1>22 DEF Ends
<1>24. Divided(r, off, size, max)
  BY <1>1, <1>18, <1>20, <1>21, <1>23 DEF Divided
<1> QED
  BY <1>17, <1>24

-----------------------------------------------------------------------------
(* What the receiver makes of a payload.                                   *)

\* A sum of the community modules is a Total.
LEMMA SumIsTotal ==
  ASSUME NEW f, NEW S
  PROVE  SumFunctionOnSet(f, S) = Total(f, S)
BY DEF SumFunctionOnSet, FoldFunctionOnSet, MapThenFoldSet, Total, Sums, OneOf

\* The first parts add up to where the next one lies.
LEMMA TotalEnds ==
  ASSUME NEW n \in Nat, NEW l \in [1..n -> Nat], NEW off, Ends(off, l, n)
  PROVE  \A k \in 1..(n + 1) : Total(l, 1..(k - 1)) = off[k]
<1>0. off \in [1..(n + 1) -> Nat] /\ off[1] = 0 /\ \A k \in 1..n : off[k + 1] = off[k] + l[k]
  BY DEF Ends
<1> DEFINE G == {m \in Nat : m <= n => Total(l, 1..m) = off[m + 1]}
<1>1. 0 \in G
  <2>1. 1..0 = {} /\ 0 + 1 = 1
    OBVIOUS
  <2> QED
    BY <1>0, <2>1, TotalEmpty
<1>2. ASSUME NEW m \in G PROVE m + 1 \in G
  <2>1. m \in Nat /\ m + 1 \in Nat
    OBVIOUS
  <2> SUFFICES ASSUME m + 1 <= n PROVE Total(l, 1..(m + 1)) = off[(m + 1) + 1]
    BY <2>1
  <2>2. Total(l, 1..m) = off[m + 1]
    BY <2>1
  <2>3. (1..m) \cup {m + 1} = 1..(m + 1) /\ m + 1 \notin 1..m /\ m + 1 \in 1..n
    BY <2>1
  <2>4. IsFiniteSet(1..m)
    BY <2>1, FS_Interval
  <2>5. \A y \in (1..m) \cup {m + 1} : l[y] \in Int
    <3>1. \A y \in (1..m) \cup {m + 1} : y \in 1..n
      BY <2>1
    <3> QED
      BY <3>1
  <2>6. Total(l, (1..m) \cup {m + 1}) = Total(l, 1..m) + l[m + 1]
    BY <2>3, <2>4, <2>5, TotalAdd
  <2> QED
    BY <1>0, <2>2, <2>3, <2>6
<1>3. Nat \subseteq G
  <2> HIDE DEF G
  <2> QED
    BY <1>1, <1>2, SetInduction
<1>4. ASSUME NEW k \in 1..(n + 1) PROVE Total(l, 1..(k - 1)) = off[k]
  <2>1. k - 1 \in Nat /\ k - 1 <= n /\ (k - 1) + 1 = k
    OBVIOUS
  <2>2. k - 1 \in G
    BY <1>3, <2>1
  <2> QED
    BY <2>1, <2>2
<1> QED
  BY <1>4

-----------------------------------------------------------------------------
\* What a fragment says of being the first or the last one.
HeadBits == {0, EndBit, StartBit, StartBit + EndBit}

\* The first byte of a payload and that of a NALU.
LEMMA ByteFacts ==
  ASSUME NEW b \in Byte, NEW t \in 0..31
  PROVE  /\ TypeOf(b) \in 0..31 /\ WithType(b, t) \in Byte /\ TypeOf(WithType(b, t)) = t
         /\ WithType(WithType(b, t), TypeOf(b)) = b
         /\ \A bits \in HeadBits :
              /\ TypeOf(bits + TypeOf(b)) = TypeOf(b) /\ bits + TypeOf(b) \in Byte
              /\ bits >= StartBit => bits + TypeOf(b) >= StartBit /\ ~(bits + TypeOf(b) < StartBit)
              /\ ~(bits >= StartBit) => bits + TypeOf(b) < StartBit /\ ~(bits + TypeOf(b) >= StartBit)
<1>1. PICK h \in 0..7, r \in 0..31 : b = 32 * h + r /\ h = b \div 32 /\ r = b % 32
  BY DEF Byte
<1>2. TypeOf(b) = r /\ WithType(b, t) = h * 32 + t
  BY <1>1 DEF TypeOf, WithType
<1>3. (h * 32 + t) % 32 = t /\ (h * 32 + t) \div 32 = h /\ h * 32 + t \in Byte
  BY DEF Byte
<1>4. WithType(h * 32 + t, r) = h * 32 + r
  BY <1>3 DEF WithType
<1>5. ASSUME NEW bits \in HeadBits
      PROVE  TypeOf(bits + r) = r /\ bits + r \in Byte
             /\ (bits >= StartBit => bits + r >= StartBit /\ ~(bits + r < StartBit))
             /\ (~(bits >= StartBit) => bits + r < StartBit /\ ~(bits + r >= StartBit))
  BY DEF TypeOf, Byte, HeadBits, StartBit, EndBit
<1>6. TypeOf(WithType(b, t)) = t /\ WithType(b, t) \in Byte /\ WithType(WithType(b, t), TypeOf(b)) = b
  BY <1>1, <1>2, <1>3, <1>4 DEF TypeOf
<1> QED
  BY <1>2, <1>5, <1>6

\* What the depacketizer makes of a payload, by its type.
LEMMA DepacketizeCases ==
  ASSUME NEW nalus, NEW payload
  PROVE  /\ TypeOf(payload[1]) \notin {StapA, FuA} => Depacketize(nalus, payload) = Append(nalus, payload)
         /\ TypeOf(payload[1]) = FuA /\ payload[2] >= StartBit /\ ~(payload[2] < StartBit) =>
              Depacketize(nalus, payload) =
                Append(nalus, <<WithType(payload[1], TypeOf(payload[2]))>> \o SubSeq(payload, 3, Len(payload)))
         /\ TypeOf(payload[1]) = FuA /\ payload[2] < StartBit /\ ~(payload[2] >= StartBit) /\ nalus # <<>> =>
              Depacketize(nalus, payload) =
                [nalus EXCEPT ![Len(nalus)] = @ \o SubSeq(payload, 3, Len(payload))]
<1>1. StapA # FuA
  BY DEF StapA, FuA
<1>2. ASSUME TypeOf(payload[1]) \notin {StapA, FuA}
      PROVE  Depacketize(nalus, payload) = Append(nalus, payload)
  <2>1. TypeOf(payload[1]) # StapA /\ TypeOf(payload[1]) # FuA
    BY <1>2
  <2> QED
    BY <1>2, <2>1, Zenon DEF Depacketize
<1>3. ASSUME TypeOf(payload[1]) = FuA, payload[2] >= StartBit, ~(payload[2] < StartBit)
      PROVE  Depacketize(nalus, payload) =
               Append(nalus, <<WithType(payload[1], TypeOf(payload[2]))>> \o SubSeq(payload, 3, Len(payload)))
  <2>1. TypeOf(payload[1]) # StapA
    BY <1>1, <1>3
  <2> QED
    BY <1>3, <2>1, Zenon DEF Depacketize
<1>4. ASSUME TypeOf(payload[1]) = FuA, payload[2] < StartBit, ~(payload[2] >= StartBit), nalus # <<>>
      PROVE  Depacketize(nalus, payload) =
               [nalus EXCEPT ![Len(nalus)] = @ \o SubSeq(payload, 3, Len(payload))]
  <2>1. TypeOf(payload[1]) # StapA
    BY <1>1, <1>4
  <2> QED
    BY <1>4, <2>1, Zenon DEF Depacketize
<1> QED
  BY <1>2, <1>3, <1>4

\* The receiver puts a list of payloads together one by one.
DepacketizeRuns(g, p) == \A j \in 1..Len(p) : g[j] = Depacketize(g[j - 1], p[j])

\* FoldLeft of the depacketizer is a run of it.
LEMMA DepacketizeFold ==
  ASSUME NEW p, IsQueue(p)
  PROVE  \E g : g[0] = <<>> /\ DepacketizeRuns(g, p) /\ FoldLeft(Depacketize, <<>>, p) = g[Len(p)]
<1> DEFINE n == Len(p)
           Step(g, s) == IF s = {} THEN <<>> ELSE Depacketize(g[s \ {Max(s)}], p[Max(s)])
           Search(g, m) == g = [s \in SUBSET (1..m) |-> Step(g, s)]
<1>1. n \in Nat /\ DOMAIN p = 1..n
  BY QueueBasics
<1>2. FoldLeft(Depacketize, <<>>, p) = (CHOOSE g : Search(g, n))[1..n]
  <2>1. FoldLeft(Depacketize, <<>>, p) = (CHOOSE g : g = [s \in SUBSET (DOMAIN p) |-> Step(g, s)])[DOMAIN p]
    BY Zenon DEF FoldLeft, MapThenFoldSet
  <2> QED
    BY <1>1, <2>1, Zenon
<1>3. ASSUME NEW m \in Nat, NEW s \in SUBSET (1..(m + 1)), s # {}
      PROVE  s \ {Max(s)} \in SUBSET (1..m)
  <2>1. Max(s) \in s /\ \A y \in s : Max(s) >= y
    <3>1. 1 \in Int /\ m + 1 \in Int
      OBVIOUS
    <3> QED
      BY <1>3, <3>1, Extremes
  <2>2. ASSUME NEW y \in s, y # Max(s) PROVE y \in 1..m
    <3>1. y \in 1..(m + 1) /\ Max(s) \in 1..(m + 1) /\ Max(s) >= y
      BY <2>1
    <3> QED
      BY <2>2, <3>1
  <2> QED
    BY <2>2
<1>4. \E g : Search(g, n)
  <2> DEFINE E == {m \in Nat : \E g : Search(g, m)}
  <2>1. 0 \in E
    <3>1. SUBSET (1..0) = {{}}
      OBVIOUS
    <3> DEFINE z == [s \in {{}} |-> <<>>]
    <3>2. \A s \in {{}} : Step(z, s) = <<>>
      BY Zenon
    <3> HIDE DEF Step
    <3>3. [s \in {{}} |-> Step(z, s)] = z
      BY <3>2, Zenon
    <3>4. Search(z, 0)
      BY <3>1, <3>3, Zenon
    <3> HIDE DEF Search, z
    <3> QED
      BY <3>4
  <2>2. ASSUME NEW m \in E PROVE m + 1 \in E
    <3>1. m \in Nat /\ m + 1 \in Nat
      OBVIOUS
    <3>2. PICK g : Search(g, m)
      OBVIOUS
    <3> DEFINE new == [s \in SUBSET (1..(m + 1)) |-> Step(g, s)]
    <3>3. ASSUME NEW s \in SUBSET (1..m) PROVE new[s] = g[s]
      <4> HIDE DEF Step
      <4>1. s \in SUBSET (1..(m + 1))
        BY <3>1
      <4>2. g[s] = Step(g, s)
        BY <3>2
      <4> QED
        BY <4>1, <4>2
    <3> HIDE DEF new, Search
    <3>4. ASSUME NEW s \in SUBSET (1..(m + 1)) PROVE Step(new, s) = Step(g, s)
      <4>1. CASE s = {}
        BY <4>1
      <4>2. CASE s # {}
        <5>1. new[s \ {Max(s)}] = g[s \ {Max(s)}]
          BY <1>3, <3>1, <3>3, <4>2
        <5> QED
          BY <5>1, Zenon
      <4> QED
        BY <4>1, <4>2
    <3>5. Search(new, m + 1)
      <4> HIDE DEF Step
      <4>1. [s \in SUBSET (1..(m + 1)) |-> Step(new, s)] = [s \in SUBSET (1..(m + 1)) |-> Step(g, s)]
        BY <3>4
      <4> QED
        BY <4>1 DEF new, Search
    <3> QED
      BY <3>1, <3>5
  <2>3. Nat \subseteq E
    <3> HIDE DEF E
    <3> QED
      BY <2>1, <2>2, SetInduction
  <2>4. n \in E
    <3> HIDE DEF E
    <3> QED
      BY <1>1, <2>3
  <2> HIDE DEF Search
  <2> QED
    BY <2>4
<1> HIDE DEF Search
<1>5. PICK f : f = CHOOSE h : Search(h, n)
  OBVIOUS
<1>6. Search(f, n)
  BY <1>4, <1>5
<1>7. \A s \in SUBSET (1..n) : f[s] = Step(f, s)
  <2> HIDE DEF Step
  <2> QED
    BY <1>6 DEF Search
<1> DEFINE g == [j \in 0..n |-> f[1..j]]
<1>8. g[0] = <<>>
  <2>1. 1..0 = {} /\ 0 \in 0..n /\ {} \in SUBSET (1..n)
    BY <1>1
  <2> QED
    BY <1>7, <2>1
<1>9. ASSUME NEW j \in 1..n PROVE g[j] = Depacketize(g[j - 1], p[j])
  <2>0. j \in Int /\ n \in Int /\ 1 <= j /\ j <= n
    BY <1>1
  <2> HIDE DEF n
  <2>4. j \in 0..n /\ j - 1 \in 0..n
    BY <2>0
  <2>5. 1..j \in SUBSET (1..n) /\ 1..j # {}
    BY <2>0
  <2>6. (1..j) \ {j} = 1..(j - 1)
    BY <2>0
  <2>1. j \in 0..n /\ j - 1 \in 0..n /\ j \in Int /\ 1..j \in SUBSET (1..n) /\ 1..j # {}
        /\ (1..j) \ {j} = 1..(j - 1)
    BY <2>0, <2>4, <2>5, <2>6
  <2>2. Max(1..j) = j
    <3>1. j \in 1..j /\ \A x \in 1..j : x \in Int /\ x <= j
      BY <2>1
    <3> QED
      BY <2>1, <3>1, MaxIs
  <2>3. f[1..j] = Depacketize(f[(1..j) \ {Max(1..j)}], p[Max(1..j)])
    BY <1>7, <2>1, Zenon
  <2>7. f[1..j] = Depacketize(f[1..(j - 1)], p[j])
    BY <2>1, <2>2, <2>3
  <2> QED
    BY <2>1, <2>7
<1>10. g[n] = f[1..n]
  BY <1>1
<1>11. FoldLeft(Depacketize, <<>>, p) = g[n]
  BY <1>2, <1>5, <1>10
<1> HIDE DEF g
<1> QED
  BY <1>8, <1>9, <1>11 DEF DepacketizeRuns

\* Two neighbouring stretches of a list, one element, and all of it.
LEMMA Stretches ==
  ASSUME NEW q, IsQueue(q)
  PROVE  /\ SubSeq(q, 1, Len(q)) = q
         /\ \A i \in 1..Len(q) : SubSeq(q, i, i) = <<q[i]>>
         /\ \A m \in Nat \ {0}, a \in Nat, b \in Nat :
              m <= a + 1 /\ a <= b /\ b <= Len(q) =>
                SubSeq(q, m, a) \o SubSeq(q, a + 1, b) = SubSeq(q, m, b)
<1>0. Len(q) \in Nat
  BY QueueBasics
<1>1. SubSeq(q, 1, Len(q)) = q
  <2>1. IsQueue(SubSeq(q, 1, Len(q))) /\ Len(SubSeq(q, 1, Len(q))) = Len(q) - 1 + 1
        /\ \A j \in 1..(Len(q) - 1 + 1) : SubSeq(q, 1, Len(q))[j] = q[1 + j - 1]
    BY <1>0, SubSeqFacts
  <2>2. Len(q) - 1 + 1 = Len(q) /\ \A j \in 1..Len(q) : 1 + j - 1 = j
    BY <1>0
  <2> QED
    BY <2>1, <2>2, QueueEqual
<1>2. ASSUME NEW i \in 1..Len(q) PROVE SubSeq(q, i, i) = <<q[i]>>
  <2>0. i \in Nat \ {0} /\ i \in Nat /\ i <= i + 1 /\ i <= Len(q) /\ i - i + 1 = 1 /\ i + 1 - 1 = i
    BY <1>0
  <2>1. IsQueue(SubSeq(q, i, i)) /\ Len(SubSeq(q, i, i)) = i - i + 1
        /\ \A j \in 1..(i - i + 1) : SubSeq(q, i, i)[j] = q[i + j - 1]
    BY <2>0, SubSeqFacts
  <2>2. SubSeq(q, i, i)[1] = q[i] /\ Len(SubSeq(q, i, i)) = 1
    BY <2>0, <2>1
  <2>3. IsQueue(<<q[i]>>) /\ Len(<<q[i]>>) = 1 /\ <<q[i]>>[1] = q[i]
    BY ListedTasks
  <2>4. \A j \in 1..1 : j = 1
    OBVIOUS
  <2> QED
    BY <2>1, <2>2, <2>3, <2>4, QueueEqual
<1>3. ASSUME NEW m \in Nat \ {0}, NEW a \in Nat, NEW b \in Nat,
             m <= a + 1, a <= b, b <= Len(q)
      PROVE  SubSeq(q, m, a) \o SubSeq(q, a + 1, b) = SubSeq(q, m, b)
  <2>1. PICK x : x = SubSeq(q, m, a)
    OBVIOUS
  <2>2. PICK y : y = SubSeq(q, a + 1, b)
    OBVIOUS
  <2>3. PICK z : z = SubSeq(q, m, b)
    OBVIOUS
  <2>4. IsQueue(x) /\ Len(x) = a - m + 1 /\ \A j \in 1..(a - m + 1) : x[j] = q[m + j - 1]
    BY <1>0, <1>3, <2>1, SubSeqFacts
  <2>5. IsQueue(y) /\ Len(y) = b - (a + 1) + 1 /\ \A j \in 1..(b - (a + 1) + 1) : y[j] = q[(a + 1) + j - 1]
    BY <1>0, <1>3, <2>2, SubSeqFacts
  <2>6. IsQueue(z) /\ Len(z) = b - m + 1 /\ \A j \in 1..(b - m + 1) : z[j] = q[m + j - 1]
    BY <1>0, <1>3, <2>3, SubSeqFacts
  <2>7. PICK w : w = x \o y
    OBVIOUS
  <2>8. TwoParts(w, x, y)
    BY <2>4, <2>5, <2>7, ConcatTwo, Zenon
  <2>9. IsQueue(w) /\ Len(w) = b - m + 1
    BY <1>3, <2>4, <2>5, <2>8 DEF TwoParts
  <2>10. ASSUME NEW j \in 1..(b - m + 1) PROVE w[j] = q[m + j - 1]
    <3>1. CASE j <= a - m + 1
      BY <1>3, <2>4, <2>8, <3>1, SMTT(60) DEF TwoParts
    <3>2. CASE ~(j <= a - m + 1)
      <4>1. PICK i \in Int : i = j - (a - m + 1)
        BY <1>3
      <4>2. i \in 1..(b - (a + 1) + 1) /\ (a - m + 1) + i = j /\ (a + 1) + i - 1 = m + j - 1
        BY <1>3, <3>2, <4>1
      <4>3. w[(a - m + 1) + i] = y[i]
        BY <2>4, <2>5, <2>8, <4>2 DEF TwoParts
      <4> QED
        BY <2>5, <4>2, <4>3
    <3> QED
      BY <3>1, <3>2
  <2>11. w = z
    BY <2>6, <2>9, <2>10, QueueEqual
  <2> QED
    BY <2>1, <2>2, <2>3, <2>7, <2>11
<1> QED
  BY <1>1, <1>2, <1>3

\* Lists one after the other, whatever is put together first.
LEMMA ConcatAgain ==
  ASSUME NEW a, NEW b, NEW c, IsQueue(a), IsQueue(b), IsQueue(c)
  PROVE  (a \o b) \o c = a \o (b \o c)
<1>1. PICK A : a \in Seq(A)
  BY DEF IsQueue
<1>2. PICK B : b \in Seq(B)
  BY DEF IsQueue
<1>3. PICK C : c \in Seq(C)
  BY DEF IsQueue
<1> DEFINE U == A \cup B \cup C
<1>4. a \in Seq(U) /\ b \in Seq(U) /\ c \in Seq(U)
  BY <1>1, <1>2, <1>3, SeqMonotonic
<1> HIDE DEF U
<1> QED
  BY <1>4, ConcatAssociative

\* Functions that put lists together from the back exist.
Chain(f, a, n, stop, head, next) ==
  f = [at \in a..n |-> IF at \in stop THEN <<>> ELSE head[at] \o f[next[at]]]

\* A chain that gets closer to its end is one.
LEMMA ChainExists ==
  ASSUME NEW a \in Nat, NEW n \in Nat, a <= n, NEW stop, NEW head, NEW next,
         \A at \in a..n : at \notin stop => next[at] \in (at + 1)..n
  PROVE  \E f : Chain(f, a, n, stop, head, next)
<1> DEFINE Step(f, at) == IF at \in stop THEN <<>> ELSE head[at] \o f[next[at]]
           Search(f, m) == f = [at \in m..n |-> Step(f, at)]
           E == {d \in Nat : d <= n - a => \E f : Search(f, n - d)}
<1>1. 0 \in E
  <2>1. n - 0 = n /\ n..n = {n}
    OBVIOUS
  <2>2. n \in stop
    <3>1. n \in a..n
      OBVIOUS
    <3>2. n \notin stop => next[n] \in (n + 1)..n
      BY <3>1
    <3>3. (n + 1)..n = {}
      OBVIOUS
    <3> QED
      BY <3>2, <3>3
  <2> DEFINE z == [at \in {n} |-> <<>>]
  <2>3. \A at \in {n} : Step(z, at) = <<>>
    BY <2>2, Zenon
  <2> HIDE DEF Step
  <2>4. [at \in {n} |-> Step(z, at)] = z
    BY <2>3, Zenon
  <2>5. Search(z, n)
    BY <2>1, <2>4, Zenon
  <2>6. Search(z, n - 0)
    <3> HIDE DEF Search, z
    <3> QED
      BY <2>1, <2>5
  <2> HIDE DEF Search, z
  <2> QED
    BY <2>6
<1>2. ASSUME NEW d \in E PROVE d + 1 \in E
  <2>0. d \in Nat /\ d + 1 \in Nat
    OBVIOUS
  <2> HIDE DEF Search
  <2> SUFFICES ASSUME d + 1 <= n - a PROVE \E f : Search(f, n - (d + 1))
    BY <2>0
  <2>1. PICK m \in Nat : m = n - (d + 1) /\ m + 1 = n - d /\ m >= a /\ m + 1 <= n
    OBVIOUS
  <2>2. PICK f : Search(f, m + 1)
    <3>1. d <= n - a
      BY <2>0, <2>1
    <3>2. \E f : Search(f, n - d)
      BY <3>1
    <3> QED
      BY <2>1, <3>2
  <2> USE DEF Search
  <2> DEFINE new == [at \in m..n |-> Step(f, at)]
  <2>3. ASSUME NEW at \in (m + 1)..n PROVE new[at] = f[at]
    <3> HIDE DEF Step
    <3>1. at \in m..n
      BY <2>1
    <3>2. f[at] = Step(f, at)
      BY <2>2
    <3> QED
      BY <3>1, <3>2
  <2> HIDE DEF new, Search
  <2>4. ASSUME NEW at \in m..n PROVE Step(new, at) = Step(f, at)
    <3>1. CASE at \in stop
      BY <3>1
    <3>2. CASE at \notin stop
      <4>1. at \in a..n /\ at \in Int
        BY <2>1
      <4>2. next[at] \in (at + 1)..n
        BY <3>2, <4>1
      <4>3. next[at] \in (m + 1)..n
        BY <2>1, <4>2
      <4>4. new[next[at]] = f[next[at]]
        BY <2>3, <4>3
      <4> QED
        BY <4>4, Zenon
    <3> QED
      BY <3>1, <3>2
  <2>5. Search(new, m)
    <3> HIDE DEF Step
    <3>1. [at \in m..n |-> Step(new, at)] = [at \in m..n |-> Step(f, at)]
      BY <2>4
    <3> QED
      BY <3>1 DEF new, Search
  <2> QED
    BY <2>1, <2>5
<1>3. Nat \subseteq E
  <2> HIDE DEF E
  <2> QED
    BY <1>1, <1>2, SetInduction
<1>4. n - a \in Nat /\ n - (n - a) = a
  OBVIOUS
<1>5. n - a \in E
  <2> HIDE DEF E
  <2> QED
    BY <1>3, <1>4
<1>6. \E f : Search(f, a)
  <2> HIDE DEF Search
  <2> QED
    BY <1>4, <1>5
<1> QED
  BY <1>6, Zenon DEF Chain

-----------------------------------------------------------------------------
(* Payloads that assemble NALUs: fragments of one.                         *)

\* Payloads of which a receiver makes the NALUs x, whatever it has before.
Assembles(p, x) ==
  /\ IsQueue(p) /\ IsQueue(x)
  /\ \A g : IsQueue(g[0]) /\ DepacketizeRuns(g, p) => g[Len(p)] = g[0] \o x

\* Payloads after payloads assemble what they do one after the other.
LEMMA AssemblesJoin ==
  ASSUME NEW p, NEW x, NEW q, NEW y, Assembles(p, x), Assembles(q, y)
  PROVE  Assembles(p \o q, x \o y)
<1>1. IsQueue(p) /\ IsQueue(x) /\ IsQueue(q) /\ IsQueue(y)
  BY DEF Assembles
<1>2. PICK r : r = p \o q
  OBVIOUS
<1>3. TwoParts(r, p, q)
  BY <1>1, <1>2, ConcatTwo, Zenon
<1>4. IsQueue(x \o y)
  BY <1>1, ConcatFacts
<1>5. ASSUME NEW g, IsQueue(g[0]), DepacketizeRuns(g, r)
      PROVE  g[Len(r)] = g[0] \o (x \o y)
  <2>1. DepacketizeRuns(g, p)
    <3>1. ASSUME NEW j \in 1..Len(p) PROVE g[j] = Depacketize(g[j - 1], p[j])
      <4>1. j \in 1..Len(r) /\ r[j] = p[j]
        BY <1>3 DEF TwoParts
      <4> QED
        BY <1>5, <4>1 DEF DepacketizeRuns
    <3> QED
      BY <3>1 DEF DepacketizeRuns
  <2>2. g[Len(p)] = g[0] \o x
    BY <1>5, <2>1 DEF Assembles
  <2> DEFINE h == [j \in 0..Len(q) |-> g[Len(p) + j]]
  <2>3. Len(p) \in Nat /\ Len(q) \in Nat /\ Len(r) = Len(p) + Len(q)
    BY <1>3 DEF TwoParts
  <2>4. h[0] = g[Len(p)] /\ h[Len(q)] = g[Len(r)]
    <3>1. 0 \in 0..Len(q) /\ Len(q) \in 0..Len(q) /\ Len(p) + 0 = Len(p)
      BY <2>3
    <3> QED
      BY <2>3, <3>1
  <2>5. DepacketizeRuns(h, q)
    <3>1. ASSUME NEW j \in 1..Len(q) PROVE h[j] = Depacketize(h[j - 1], q[j])
      <4>1. /\ Len(p) + j \in 1..Len(r) /\ j \in 0..Len(q) /\ j - 1 \in 0..Len(q)
            /\ Len(p) + (j - 1) = (Len(p) + j) - 1
        BY <2>3
      <4>2. r[Len(p) + j] = q[j]
        BY <1>3 DEF TwoParts
      <4>3. g[Len(p) + j] = Depacketize(g[(Len(p) + j) - 1], r[Len(p) + j])
        BY <1>5, <4>1 DEF DepacketizeRuns
      <4>4. h[j] = g[Len(p) + j] /\ h[j - 1] = g[(Len(p) + j) - 1]
        BY <4>1
      <4> QED
        BY <4>2, <4>3, <4>4
    <3> HIDE DEF h
    <3> QED
      BY <3>1 DEF DepacketizeRuns
  <2> HIDE DEF h
  <2>6. IsQueue(h[0])
    BY <1>1, <1>5, <2>2, <2>4, ConcatFacts
  <2>7. h[Len(q)] = h[0] \o y
    BY <2>5, <2>6 DEF Assembles
  <2>8. g[Len(r)] = (g[0] \o x) \o y
    BY <2>2, <2>4, <2>7
  <2>9. (g[0] \o x) \o y = g[0] \o (x \o y)
    <3>1. PICK a : a = g[0]
      OBVIOUS
    <3>2. IsQueue(a)
      BY <1>5, <3>1
    <3>3. (a \o x) \o y = a \o (x \o y)
      BY <1>1, <3>2, ConcatAgain, SMTT(60)
    <3> QED
      BY <3>1, <3>3
  <2> QED
    BY <2>8, <2>9
<1>6. IsQueue(r)
  BY <1>3 DEF TwoParts
<1>7. Assembles(r, x \o y)
  BY <1>4, <1>5, <1>6 DEF Assembles
<1> QED
  BY <1>2, <1>7

\* A payload that adds x whatever was there assembles x.
LEMMA AssemblesOne ==
  ASSUME NEW payload, NEW x, IsQueue(x),
         \A nalus : IsQueue(nalus) => Depacketize(nalus, payload) = nalus \o x
  PROVE  Assembles(<<payload>>, x)
<1>1. IsQueue(<<payload>>) /\ Len(<<payload>>) = 1 /\ <<payload>>[1] = payload
  BY ListedTasks
<1>2. ASSUME NEW g, IsQueue(g[0]), DepacketizeRuns(g, <<payload>>) PROVE g[1] = g[0] \o x
  <2>1. 1 \in 1..Len(<<payload>>) /\ 1 - 1 = 0
    BY <1>1
  <2>2. g[1] = Depacketize(g[1 - 1], <<payload>>[1])
    BY <1>2, <2>1 DEF DepacketizeRuns
  <2> QED
    BY <1>1, <1>2, <2>1, <2>2
<1> QED
  BY <1>1, <1>2 DEF Assembles

\* A NALU that is sent alone.
LEMMA AssemblesLone ==
  ASSUME NEW nalu, TypeOf(nalu[1]) \notin {StapA, FuA}
  PROVE  Assembles(<<nalu>>, <<nalu>>)
<1>1. IsQueue(<<nalu>>)
  BY ListedTasks
<1>2. ASSUME NEW nalus, IsQueue(nalus) PROVE Depacketize(nalus, nalu) = nalus \o <<nalu>>
  <2>1. Depacketize(nalus, nalu) = Append(nalus, nalu)
    BY DepacketizeCases
  <2> QED
    BY <1>2, <2>1, AppendIsPost
<1> QED
  BY <1>1, <1>2, AssemblesOne

-----------------------------------------------------------------------------
\* The fragments of a NALU: after its first byte, one stretch in each.
Fragments(p, nalu, off) ==
  /\ IsQueue(p) /\ Len(p) \in Nat \ {0}
  /\ off \in [1..(Len(p) + 1) -> Nat] /\ off[1] = 0 /\ off[Len(p) + 1] = Len(nalu) - 1
  /\ \A k \in 1..Len(p) :
        /\ off[k + 1] - off[k] \in 1..(MaxPayloadLen - 2) /\ off[k + 1] <= Len(nalu) - 1
        /\ \E bits \in HeadBits :
              /\ bits >= StartBit <=> k = 1
              /\ p[k] = <<WithType(nalu[1], FuA), bits + TypeOf(nalu[1])>>
                        \o SubSeq(nalu, off[k] + 2, off[k + 1] + 1)

\* A number two bytes can hold.
Short(n) == n \in Nat /\ n < 65536

\* The length of a payload is a number.
LEMMA PayloadBound ==
  MaxPayloadLen \in Nat /\ MaxPayloadLen >= 4
BY H264PacketizerAssumption DEF H264PacketizerAssumption

\* What fits into a payload has a length that two bytes can say.
LEMMA PayloadShort ==
  \A n \in Nat : n <= MaxPayloadLen => Short(n)
BY H264PacketizerAssumption DEF H264PacketizerAssumption, Short

\* PacketizeFuA makes fragments: the header of the NALU is in each, the rest of
\* it in one.
LEMMA FragmentsMade ==
  ASSUME NEW nalu \in Seq(Byte), Len(nalu) > MaxPayloadLen
  PROVE  \E off : Fragments(PacketizeFuA(nalu), nalu, off)
<1>0. MaxPayloadLen \in Nat /\ MaxPayloadLen >= 4
  BY PayloadBound
<1>1. PICK size \in Nat, max \in Nat \ {0} :
        size = Len(nalu) - 1 /\ max = MaxPayloadLen - 2 /\ size > max /\ Len(nalu) \in Nat
  <2>1. Len(nalu) \in Nat
    OBVIOUS
  <2>0. PICK l \in Nat, m \in Nat : l = Len(nalu) /\ m = MaxPayloadLen /\ m >= 4 /\ l > m
    BY <1>0, <2>1
  <2>2. Len(nalu) - 1 \in Nat /\ MaxPayloadLen - 2 \in Nat \ {0} /\ Len(nalu) - 1 > MaxPayloadLen - 2
    BY <2>0
  <2> QED
    BY <2>1, <2>2
<1>2. PICK sizes : sizes = SplitAboutEqual(size, max)
  OBVIOUS
<1>3. PICK off : Divided(sizes, off, size, max)
  BY <1>1, <1>2, SplitFacts
<1>4. PICK n \in Nat \ {0} : n = Len(sizes) /\ DOMAIN sizes = 1..n
  <2>1. IsQueue(sizes) /\ Len(sizes) \in Nat \ {0}
    BY <1>3 DEF Divided
  <2> QED
    BY <2>1, QueueBasics
<1>5. sizes \in [1..n -> Nat] /\ \A k \in 1..n : sizes[k] \in 1..max
  <2>1. IsQueue(sizes) /\ \A k \in 1..n : sizes[k] \in 1..max
    BY <1>3, <1>4 DEF Divided
  <2>2. Tasks(sizes) \subseteq Nat
    BY <1>1, <1>4, <2>1 DEF Tasks
  <2>3. sizes \in Seq(Nat)
    BY <2>1, <2>2, QueueOf
  <2> QED
    BY <1>4, <2>1, <2>3
<1>6. Ends(off, sizes, n) /\ off[n + 1] = size
  BY <1>3, <1>4 DEF Divided
<1>7. off \in [1..(n + 1) -> Nat] /\ off[1] = 0 /\ \A k \in 1..n : off[k + 1] = off[k] + sizes[k]
  BY <1>6 DEF Ends
<1>8. \A k \in 1..(n + 1) : SumFunctionOnSet(sizes, 1..(k - 1)) = off[k]
  <2>1. \A k \in 1..(n + 1) : Total(sizes, 1..(k - 1)) = off[k]
    <3>1. n \in Nat
      OBVIOUS
    <3>2. sizes \in [1..n -> Nat] /\ Ends(off, sizes, n)
      BY <1>5, <1>6
    <3> QED
      BY <3>1, <3>2, TotalEnds
  <2> QED
    BY <2>1, SumIsTotal
<1> DEFINE Bits(k) == (IF k = 1 THEN StartBit ELSE 0) + (IF k = n THEN EndBit ELSE 0)
           made == [k \in 1..n |->
              <<WithType(nalu[1], FuA), Bits(k) + TypeOf(nalu[1])>>
              \o SubSeq(nalu, off[k] + 2, off[k + 1] + 1)]
<1>9. PacketizeFuA(nalu) = made
  <2>1. PacketizeFuA(nalu) = [k \in DOMAIN sizes |->
              <<WithType(nalu[1], FuA),
                (IF k = 1 THEN StartBit ELSE 0) + (IF k = Len(sizes) THEN EndBit ELSE 0) + TypeOf(nalu[1])>>
              \o SubSeq(nalu, (1 + SumFunctionOnSet(sizes, 1..(k - 1))) + 1,
                        (1 + SumFunctionOnSet(sizes, 1..(k - 1))) + sizes[k])]
    BY <1>1, <1>2, Zenon DEF PacketizeFuA, FuAHeaderSize
  <2>2. ASSUME NEW k \in 1..n
        PROVE  /\ (1 + SumFunctionOnSet(sizes, 1..(k - 1))) + 1 = off[k] + 2
               /\ (1 + SumFunctionOnSet(sizes, 1..(k - 1))) + sizes[k] = off[k + 1] + 1
    <3>0. off[k] \in Nat /\ off[k + 1] \in Nat /\ sizes[k] \in Nat
      BY <1>5, <1>7
    <3>1. PICK o \in Nat, e \in Nat, s \in Nat : o = off[k] /\ e = off[k + 1] /\ s = sizes[k]
      BY <3>0, Zenon
    <3>2. SumFunctionOnSet(sizes, 1..(k - 1)) = o /\ e = o + s
      BY <1>7, <1>8, <3>1
    <3>3. (1 + o) + 1 = o + 2 /\ (1 + o) + s = e + 1
      BY <3>2
    <3> QED
      BY <3>1, <3>2, <3>3
  <2>3. [k \in 1..n |->
              <<WithType(nalu[1], FuA),
                (IF k = 1 THEN StartBit ELSE 0) + (IF k = n THEN EndBit ELSE 0) + TypeOf(nalu[1])>>
              \o SubSeq(nalu, (1 + SumFunctionOnSet(sizes, 1..(k - 1))) + 1,
                        (1 + SumFunctionOnSet(sizes, 1..(k - 1))) + sizes[k])] = made
    BY <2>2, Zenon
  <2> QED
    BY <1>4, <2>1, <2>3, ZenonT(60)
<1>10. IsQueue(made) /\ Len(made) = n
  <2>1. made = [k \in 1..n |-> made[k]]
    BY Zenon
  <2> HIDE DEF made
  <2> QED
    BY <2>1, FunctionQueue
<1>11. ASSUME NEW k \in 1..n
       PROVE  /\ off[k + 1] - off[k] \in 1..(MaxPayloadLen - 2) /\ off[k + 1] <= Len(nalu) - 1
              /\ \E bits \in HeadBits :
                    /\ bits >= StartBit <=> k = 1
                    /\ made[k] = <<WithType(nalu[1], FuA), bits + TypeOf(nalu[1])>>
                        \o SubSeq(nalu, off[k] + 2, off[k + 1] + 1)
  <2>0. off[k] \in Nat /\ off[k + 1] \in Nat /\ sizes[k] \in 1..max /\ off[k + 1] = off[k] + sizes[k]
    <3>1. k \in 1..(n + 1) /\ k + 1 \in 1..(n + 1)
      OBVIOUS
    <3> HIDE DEF made, Bits
    <3> QED
      BY <1>5, <1>7, <3>1
  <2>1. PICK o \in Nat, e \in Nat, s \in 1..max : o = off[k] /\ e = off[k + 1] /\ s = sizes[k] /\ e = o + s
    BY <2>0, Zenon
  <2>2. off[k + 1] <= off[n + 1]
    <3>1. k + 1 \in 1..(n + 1) /\ n + 1 \in 1..(n + 1) /\ k + 1 <= n + 1
      OBVIOUS
    <3> QED
      BY <1>5, <1>6, <3>1, EndsGrow
  <2>3. e - o \in 1..(MaxPayloadLen - 2) /\ e <= Len(nalu) - 1
    <3>1. e - o \in 1..max
      BY <2>1
    <3> QED
      BY <1>1, <1>6, <2>1, <2>2, <3>1
  <2>4. PICK b \in HeadBits : b = Bits(k) /\ (b >= StartBit <=> k = 1)
    BY DEF StartBit, EndBit, HeadBits
  <2>5. made[k] = <<WithType(nalu[1], FuA), b + TypeOf(nalu[1])>>
                  \o SubSeq(nalu, off[k] + 2, off[k + 1] + 1)
    BY <2>4, Zenon
  <2> HIDE DEF made, Bits
  <2>6. \E bits \in HeadBits :
                    /\ bits >= StartBit <=> k = 1
                    /\ made[k] = <<WithType(nalu[1], FuA), bits + TypeOf(nalu[1])>>
                        \o SubSeq(nalu, off[k] + 2, off[k + 1] + 1)
    BY <2>4, <2>5, Zenon
  <2> QED
    BY <2>1, <2>3, <2>6
<1> HIDE DEF made
<1>12. Fragments(made, nalu, off)
  <2>1. off[n + 1] = Len(nalu) - 1
    BY <1>1, <1>6
  <2> HIDE DEF Bits
  <2> QED
    BY <1>4, <1>7, <1>10, <1>11, <2>1, Zenon DEF Fragments
<1> QED
  BY <1>9, <1>12

\* What the depacketizer reads from one fragment.
Fragment(q, nalu, o, e, first) ==
  /\ q \in Seq(Byte) /\ Len(q) = 2 + (e - o)
  /\ TypeOf(q[1]) = FuA /\ WithType(q[1], TypeOf(q[2])) = nalu[1]
  /\ first => q[2] >= StartBit /\ ~(q[2] < StartBit)
  /\ ~first => q[2] < StartBit /\ ~(q[2] >= StartBit)
  /\ SubSeq(q, 3, Len(q)) = SubSeq(nalu, o + 2, e + 1)

\* x after the two bytes of h.
HeadThen(q, S, h, x, l) ==
  /\ q \in Seq(S) /\ Len(q) = 2 + l /\ q[1] = h[1] /\ q[2] = h[2]
  /\ SubSeq(q, 3, Len(q)) = x

\* A stretch of a NALU after two bytes.
LEMMA StretchAfter ==
  ASSUME NEW S, NEW nalu \in Seq(S), NEW o \in Nat, NEW e \in Nat, o < e, e + 1 <= Len(nalu),
         NEW h \in Seq(S), Len(h) = 2
  PROVE  HeadThen(h \o SubSeq(nalu, o + 2, e + 1), S, h, SubSeq(nalu, o + 2, e + 1), e - o)
<1> SUFFICES ASSUME NEW q, q = h \o SubSeq(nalu, o + 2, e + 1)
             PROVE  HeadThen(q, S, h, SubSeq(nalu, o + 2, e + 1), e - o)
  OBVIOUS
<1>0. Len(nalu) \in Nat /\ IsQueue(nalu) /\ IsQueue(h)
  BY DEF IsQueue
<1>1. \A j \in 1..Len(nalu) : nalu[j] \in S
  BY ElementOfSeq
<1>6. PICK s : s = SubSeq(nalu, o + 2, e + 1)
  OBVIOUS
<1>7. IsQueue(s) /\ Len(s) = e - o /\ \A j \in 1..(e - o) : s[j] = nalu[(o + 2) + j - 1]
  <2>1. IsQueue(SubSeq(nalu, o + 2, e + 1)) /\ Len(SubSeq(nalu, o + 2, e + 1)) = (e + 1) - (o + 2) + 1
        /\ \A j \in 1..((e + 1) - (o + 2) + 1) : SubSeq(nalu, o + 2, e + 1)[j] = nalu[(o + 2) + j - 1]
    <3>1. o + 2 \in Nat \ {0} /\ e + 1 \in Nat /\ o + 2 <= (e + 1) + 1
      OBVIOUS
    <3> QED
      BY <1>0, <3>1, SubSeqFacts
  <2>2. (e + 1) - (o + 2) + 1 = e - o
    OBVIOUS
  <2> QED
    BY <1>6, <2>1, <2>2
<1>8. s \in Seq(S)
  <2>1. ASSUME NEW j \in 1..(e - o) PROVE s[j] \in S
    <3>1. (o + 2) + j - 1 \in 1..Len(nalu)
      BY <1>0
    <3> QED
      BY <1>1, <1>7, <3>1
  <2>2. Tasks(s) \subseteq S
    BY <1>7, <2>1 DEF Tasks
  <2> QED
    BY <1>7, <2>2, QueueOf
<1>9. TwoParts(q, h, s)
  BY <1>0, <1>6, <1>7, ConcatTwo, Zenon
<1>10. q \in Seq(S)
  BY <1>6, <1>8, ConcatProperties
<1>11. Len(q) = 2 + (e - o) /\ q[1] = h[1] /\ q[2] = h[2] /\ \A j \in 1..(e - o) : q[2 + j] = s[j]
  <2>1. 1 \in 1..2 /\ 2 \in 1..2
    OBVIOUS
  <2> QED
    BY <1>7, <1>9, <2>1 DEF TwoParts
<1>12. SubSeq(q, 3, Len(q)) = s
  <2>0. PICK l \in Nat : l = Len(q) /\ l = 2 + (e - o)
    BY <1>11
  <2>7. PICK z : z = SubSeq(q, 3, l)
    OBVIOUS
  <2>1. IsQueue(q) /\ 3 \in Nat \ {0} /\ 3 <= l + 1 /\ l <= Len(q)
    BY <1>9, <2>0 DEF TwoParts
  <2>3. IsQueue(z) /\ Len(z) = l - 3 + 1 /\ \A j \in 1..(l - 3 + 1) : z[j] = q[3 + j - 1]
    BY <2>1, <2>7, SubSeqFacts, ZenonT(60)
  <2>4. l - 3 + 1 = e - o /\ \A j \in 1..(e - o) : 3 + j - 1 = 2 + j
    <3>1. PICK d \in Nat : d = e - o
      OBVIOUS
    <3>4. l = 2 + d
      BY <2>0, <3>1, Zenon
    <3>2. l - 3 + 1 = d
      BY <3>4
    <3>3. \A j \in 1..d : 3 + j - 1 = 2 + j
      <4>1. \A j \in Int : 3 + j - 1 = 2 + j
        OBVIOUS
      <4>2. \A j \in 1..d : j \in Int
        OBVIOUS
      <4> QED
        BY <4>1, <4>2, Zenon
    <3> QED
      BY <3>1, <3>2, <3>3, Zenon
  <2>5. \A j \in 1..(e - o) : z[j] = s[j]
    BY <1>11, <2>3, <2>4
  <2>6. z = s
    BY <1>7, <2>3, <2>4, <2>5, QueueEqual
  <2> QED
    BY <2>0, <2>6, <2>7
<1> QED
  BY <1>6, <1>10, <1>11, <1>12 DEF HeadThen

\* The two bytes before it.
LEMMA FragmentHead ==
  ASSUME NEW b \in Byte, NEW bits \in HeadBits, NEW h,
         h = <<WithType(b, FuA), bits + TypeOf(b)>>
  PROVE  /\ h \in Seq(Byte) /\ Len(h) = 2
         /\ TypeOf(h[1]) = FuA /\ WithType(h[1], TypeOf(h[2])) = b
         /\ (bits >= StartBit => h[2] >= StartBit /\ ~(h[2] < StartBit))
         /\ (~(bits >= StartBit) => h[2] < StartBit /\ ~(h[2] >= StartBit))
<1>1. FuA \in 0..31
  BY DEF FuA
<1>2. PICK t \in 0..31 : t = TypeOf(b)
  BY <1>1, ByteFacts
<1>3. PICK c \in Byte : c = WithType(b, FuA)
  BY <1>1, ByteFacts
<1>4. /\ TypeOf(c) = FuA /\ WithType(c, t) = b /\ TypeOf(bits + t) = t /\ bits + t \in Byte
      /\ bits >= StartBit => bits + t >= StartBit /\ ~(bits + t < StartBit)
      /\ ~(bits >= StartBit) => bits + t < StartBit /\ ~(bits + t >= StartBit)
  BY <1>1, <1>2, <1>3, ByteFacts, Zenon
<1>5. PICK d \in Byte : d = bits + t
  BY <1>4
<1>6. h = <<c, d>>
  BY <1>2, <1>3, <1>5
<1>7. h \in Seq(Byte) /\ Len(h) = 2 /\ h[1] = c /\ h[2] = d
  BY <1>6
<1> QED
  BY <1>4, <1>5, <1>7, Zenon

\* The depacketizer reads a fragment as what it was made of.
LEMMA FragmentRead ==
  ASSUME NEW nalu \in Seq(Byte), NEW o \in Nat, NEW e \in Nat, o < e, e + 1 <= Len(nalu),
         NEW bits \in HeadBits
  PROVE  \A q : q = <<WithType(nalu[1], FuA), bits + TypeOf(nalu[1])>> \o SubSeq(nalu, o + 2, e + 1) =>
           Fragment(q, nalu, o, e, bits >= StartBit)
<1>1. PICK b \in Byte : b = nalu[1]
  <2>1. Len(nalu) \in Nat
    BY LenProperties
  <2>2. 1 \in 1..Len(nalu)
    BY <2>1
  <2>3. nalu[1] \in Byte
    BY <2>2, ElementOfSeq, Zenon
  <2> QED
    BY <2>3, Zenon
<1>2. PICK h : h = <<WithType(b, FuA), bits + TypeOf(b)>>
  OBVIOUS
<1>3. /\ h \in Seq(Byte) /\ Len(h) = 2
      /\ TypeOf(h[1]) = FuA /\ WithType(h[1], TypeOf(h[2])) = b
      /\ (bits >= StartBit => h[2] >= StartBit /\ ~(h[2] < StartBit))
      /\ (~(bits >= StartBit) => h[2] < StartBit /\ ~(h[2] >= StartBit))
  BY <1>2, FragmentHead, Zenon
<1>4. ASSUME NEW q, q = h \o SubSeq(nalu, o + 2, e + 1) PROVE Fragment(q, nalu, o, e, bits >= StartBit)
  <2>2. HeadThen(q, Byte, h, SubSeq(nalu, o + 2, e + 1), e - o)
    BY <1>3, <1>4, StretchAfter, Zenon
  <2>1. /\ q \in Seq(Byte) /\ Len(q) = 2 + (e - o) /\ q[1] = h[1] /\ q[2] = h[2]
        /\ SubSeq(q, 3, Len(q)) = SubSeq(nalu, o + 2, e + 1)
    BY <2>2, Zenon DEF HeadThen
  <2> QED
    BY <1>1, <1>3, <2>1, Zenon DEF Fragment
<1> QED
  BY <1>1, <1>2, <1>4, Zenon

\* The last of the NALUs so far goes on.
LEMMA LastGoesOn ==
  ASSUME NEW a, NEW x, NEW y, IsQueue(a)
  PROVE  [Append(a, x) EXCEPT ![Len(Append(a, x))] = y] = Append(a, y)
<1>1. PICK q : q = Append(a, x)
  OBVIOUS
<1>2. PICK r : r = Append(a, y)
  OBVIOUS
<1>3. PICK n \in Nat : n = Len(a)
  BY QueueBasics
<1>4. IsQueue(q) /\ Len(q) = n + 1 /\ \A i \in 1..n : q[i] = a[i]
  BY <1>1, <1>3, AppendFacts
<1>5. IsQueue(r) /\ Len(r) = n + 1 /\ r[n + 1] = y /\ \A i \in 1..n : r[i] = a[i]
  BY <1>2, <1>3, AppendFacts
<1>6. DOMAIN q = 1..(n + 1)
  BY <1>4, QueueBasics
<1> DEFINE z == [q EXCEPT ![n + 1] = y]
<1>7. z = [i \in 1..(n + 1) |-> z[i]]
  BY <1>6
<1>8. z[n + 1] = y /\ \A i \in 1..n : z[i] = q[i]
  <2>1. n + 1 \in 1..(n + 1) /\ \A i \in 1..n : i \in 1..(n + 1) /\ i # n + 1
    OBVIOUS
  <2> QED
    BY <1>6, <2>1
<1> HIDE DEF z
<1>9. IsQueue(z) /\ Len(z) = n + 1
  <2>1. n + 1 \in Nat
    OBVIOUS
  <2> QED
    BY <1>7, <2>1, FunctionQueue
<1>10. \A i \in 1..(n + 1) : z[i] = r[i]
  <2>1. \A i \in 1..(n + 1) : i = n + 1 \/ i \in 1..n
    OBVIOUS
  <2> QED
    BY <1>4, <1>5, <1>8, <2>1
<1>11. z = r
  BY <1>5, <1>9, <1>10, QueueEqual
<1> QED
  BY <1>1, <1>2, <1>4, <1>11 DEF z

\* The fragments of a NALU assemble it, and none is too large.
LEMMA FragmentsAssemble ==
  ASSUME NEW nalu \in Seq(Byte), Len(nalu) > MaxPayloadLen, NEW p, NEW off, Fragments(p, nalu, off)
  PROVE  /\ Assembles(p, <<nalu>>)
         /\ \A k \in 1..Len(p) : p[k] \in Seq(Byte) /\ Len(p[k]) \in 1..MaxPayloadLen
<1>0. PICK n \in Nat \ {0} : n = Len(p) /\ IsQueue(p)
  BY DEF Fragments
<1>1. off \in [1..(n + 1) -> Nat] /\ off[1] = 0 /\ off[n + 1] = Len(nalu) - 1
  BY <1>0 DEF Fragments
<1>2. Len(nalu) \in Nat /\ IsQueue(nalu)
  BY DEF IsQueue
<1>3. ASSUME NEW k \in 1..n
      PROVE  /\ off[k] \in Nat /\ off[k + 1] \in Nat /\ off[k] < off[k + 1] /\ off[k + 1] + 1 <= Len(nalu)
             /\ off[k + 1] - off[k] \in 1..(MaxPayloadLen - 2)
             /\ Fragment(p[k], nalu, off[k], off[k + 1], k = 1)
  <2>1. k \in 1..(n + 1) /\ k + 1 \in 1..(n + 1)
    OBVIOUS
  <2>2. PICK o \in Nat, e \in Nat : o = off[k] /\ e = off[k + 1]
    BY <1>1, <2>1, Zenon
  <2>3. e - o \in 1..(MaxPayloadLen - 2) /\ e <= Len(nalu) - 1
    BY <1>0, <2>2 DEF Fragments
  <2>4. o < e /\ e + 1 <= Len(nalu)
    <3>1. PICK d \in Int : d = e - o /\ d >= 1
      BY <2>3, PayloadBound
    <3>2. o < e
      BY <3>1
    <3> QED
      BY <1>2, <2>3, <3>2
  <2>5. PICK bits \in HeadBits :
          /\ bits >= StartBit <=> k = 1
          /\ p[k] = <<WithType(nalu[1], FuA), bits + TypeOf(nalu[1])>> \o SubSeq(nalu, off[k] + 2, off[k + 1] + 1)
    BY <1>0, Zenon DEF Fragments
  <2>6. p[k] = <<WithType(nalu[1], FuA), bits + TypeOf(nalu[1])>> \o SubSeq(nalu, o + 2, e + 1)
    BY <2>2, <2>5, Zenon
  <2>7. Fragment(p[k], nalu, o, e, bits >= StartBit)
    BY <2>4, <2>6, FragmentRead, Zenon
  <2>8. Fragment(p[k], nalu, o, e, k = 1)
    BY <2>5, <2>7, Zenon DEF Fragment
  <2> QED
    BY <2>2, <2>3, <2>4, <2>8
<1>4. ASSUME NEW k \in 1..n PROVE p[k] \in Seq(Byte) /\ Len(p[k]) \in 1..MaxPayloadLen
  <2>1. PICK o \in Nat, e \in Nat : o = off[k] /\ e = off[k + 1] /\ e - o \in 1..(MaxPayloadLen - 2)
    BY <1>3
  <2>2. Fragment(p[k], nalu, o, e, k = 1)
    BY <1>3, <2>1
  <2>3. p[k] \in Seq(Byte) /\ Len(p[k]) = 2 + (e - o)
    BY <2>2 DEF Fragment
  <2> QED
    BY <2>1, <2>3, PayloadBound, SMTT(60)
<1>5. IsQueue(<<nalu>>)
  BY ListedTasks
<1>6. ASSUME NEW g, IsQueue(g[0]), DepacketizeRuns(g, p) PROVE g[Len(p)] = g[0] \o <<nalu>>
  <2> DEFINE Done(j) == SubSeq(nalu, 1, off[j + 1] + 1)
             G == {m \in Nat : m + 1 <= n => g[m + 1] = Append(g[0], Done(m + 1))}
  <2>1. 0 \in G
    <3>1. 1 \in 1..n /\ 0 + 1 = 1 /\ 1 - 1 = 0 /\ 1 + 1 = 2
      OBVIOUS
    <3>2. PICK e \in Nat : e = off[2] /\ 0 < e /\ e + 1 <= Len(nalu) /\ Fragment(p[1], nalu, 0, e, TRUE)
      BY <1>1, <1>3, <3>1
    <3>3. g[1] = Depacketize(g[0], p[1])
      BY <1>0, <1>6, <3>1 DEF DepacketizeRuns
    <3>4. g[1] = Append(g[0], <<WithType(p[1][1], TypeOf(p[1][2]))>> \o SubSeq(p[1], 3, Len(p[1])))
      BY <3>2, <3>3, DepacketizeCases DEF Fragment
    <3>5. g[1] = Append(g[0], <<nalu[1]>> \o SubSeq(nalu, 2, e + 1))
      <4>1. WithType(p[1][1], TypeOf(p[1][2])) = nalu[1] /\ SubSeq(p[1], 3, Len(p[1])) = SubSeq(nalu, 0 + 2, e + 1)
        BY <3>2, Zenon DEF Fragment
      <4>2. 0 + 2 = 2
        OBVIOUS
      <4> QED
        BY <3>4, <4>1, <4>2, Zenon
    <3>6. <<nalu[1]>> = SubSeq(nalu, 1, 1)
      <4>1. 1 \in 1..Len(nalu)
        BY <1>2, <3>2
      <4> QED
        BY <1>2, <4>1, Stretches
    <3>7. SubSeq(nalu, 1, 1) \o SubSeq(nalu, 1 + 1, e + 1) = SubSeq(nalu, 1, e + 1)
      <4>1. 1 \in Nat \ {0} /\ 1 \in Nat /\ e + 1 \in Nat /\ 1 <= 1 + 1 /\ 1 <= e + 1 /\ e + 1 <= Len(nalu)
        BY <3>2
      <4> QED
        BY <1>2, <4>1, Stretches
    <3>8. g[1] = Append(g[0], SubSeq(nalu, 1, e + 1))
      BY <3>1, <3>5, <3>6, <3>7
    <3> QED
      BY <3>1, <3>2, <3>8
  <2>2. ASSUME NEW m \in G PROVE m + 1 \in G
    <3>1. m \in Nat /\ m + 1 \in Nat /\ (m + 1) - 1 = m
      OBVIOUS
    <3> SUFFICES ASSUME (m + 1) + 1 <= n PROVE g[(m + 1) + 1] = Append(g[0], Done((m + 1) + 1))
      BY <3>1
    <3>2. PICK k \in 2..n : k = (m + 1) + 1 /\ k - 1 = m + 1 /\ k \in 1..n /\ k # 1 /\ m + 1 <= n
      BY <3>1
    <3>3. PICK o \in Nat, e \in Nat : /\ o = off[k] /\ e = off[k + 1] /\ o < e /\ e + 1 <= Len(nalu)
                                      /\ Fragment(p[k], nalu, o, e, k = 1)
      BY <1>3, <3>2
    <3>4. g[k - 1] = Append(g[0], SubSeq(nalu, 1, o + 1))
      BY <3>1, <3>2, <3>3
    <3>5. g[k] = Depacketize(g[k - 1], p[k])
      BY <1>0, <1>6, <3>2 DEF DepacketizeRuns
    <3>6. PICK old : old = g[k - 1]
      OBVIOUS
    <3>7. old # <<>> /\ old[Len(old)] = SubSeq(nalu, 1, o + 1)
      <4>1. IsQueue(old) /\ Len(old) = Len(g[0]) + 1 /\ old[Len(g[0]) + 1] = SubSeq(nalu, 1, o + 1)
        BY <1>6, <3>4, <3>6, AppendFacts
      <4>2. Len(g[0]) \in Nat
        BY <1>6, QueueBasics
      <4> QED
        BY <4>1, <4>2, QueueBasics
    <3>8. g[k] = [old EXCEPT ![Len(old)] = old[Len(old)] \o SubSeq(p[k], 3, Len(p[k]))]
      <4>1. TypeOf(p[k][1]) = FuA /\ p[k][2] < StartBit /\ ~(p[k][2] >= StartBit)
        BY <3>2, <3>3 DEF Fragment
      <4> QED
        BY <3>5, <3>6, <3>7, <4>1, DepacketizeCases
    <3>9. old[Len(old)] \o SubSeq(p[k], 3, Len(p[k])) = SubSeq(nalu, 1, o + 1) \o SubSeq(nalu, o + 2, e + 1)
      BY <3>3, <3>7 DEF Fragment
    <3>10. SubSeq(nalu, 1, o + 1) \o SubSeq(nalu, (o + 1) + 1, e + 1) = SubSeq(nalu, 1, e + 1)
      <4>1. /\ 1 \in Nat \ {0} /\ o + 1 \in Nat /\ e + 1 \in Nat
             /\ 1 <= (o + 1) + 1 /\ o + 1 <= e + 1 /\ e + 1 <= Len(nalu)
        <5>1. o < e /\ e + 1 <= Len(nalu)
          BY <3>3
        <5> HIDE DEF G
        <5> QED
          BY <5>1
      <4> QED
        BY <1>2, <4>1, Stretches
    <3>11. (o + 1) + 1 = o + 2
      OBVIOUS
    <3>12. g[k] = [old EXCEPT ![Len(old)] = SubSeq(nalu, 1, e + 1)]
      BY <3>8, <3>9, <3>10, <3>11
    <3>13. g[k] = Append(g[0], SubSeq(nalu, 1, e + 1))
      <4>1. PICK a : a = g[0]
        OBVIOUS
      <4>2. old = Append(a, SubSeq(nalu, 1, o + 1)) /\ IsQueue(a)
        BY <1>6, <3>4, <3>6, <4>1
      <4>3. [old EXCEPT ![Len(old)] = SubSeq(nalu, 1, e + 1)] = Append(a, SubSeq(nalu, 1, e + 1))
        BY <4>2, LastGoesOn, ZenonT(60)
      <4> QED
        BY <3>12, <4>1, <4>3
    <3> QED
      BY <3>2, <3>3, <3>13
  <2>3. Nat \subseteq G
    <3> HIDE DEF G
    <3> QED
      BY <2>1, <2>2, SetInduction
  <2>4. n - 1 \in G
    <3>1. n - 1 \in Nat
      OBVIOUS
    <3> HIDE DEF G
    <3> QED
      BY <2>3, <3>1
  <2>5. g[n] = Append(g[0], SubSeq(nalu, 1, off[n + 1] + 1))
    <3>1. (n - 1) + 1 = n
      OBVIOUS
    <3> QED
      BY <2>4, <3>1
  <2>6. off[n + 1] + 1 = Len(nalu)
    BY <1>1, <1>2
  <2>7. SubSeq(nalu, 1, Len(nalu)) = nalu
    BY <1>2, Stretches
  <2>8. g[n] = Append(g[0], nalu)
    BY <2>5, <2>6, <2>7
  <2> QED
    BY <1>0, <1>6, <2>8, AppendIsPost
<1> QED
  BY <1>0, <1>4, <1>5, <1>6 DEF Assembles

-----------------------------------------------------------------------------
(* Payloads that assemble NALUs: aggregates of several.                    *)

\* A number of two bytes.
LEMMA TwoBytes ==
  ASSUME NEW l, Short(l)
  PROVE  l \div 256 \in Byte /\ l % 256 \in Byte /\ (l \div 256) * 256 + (l % 256) = l
<1>1. PICK q \in Int, r \in 0..255 : q = l \div 256 /\ r = l % 256 /\ l = q * 256 + r
  BY DEF Short
<1>2. q \in Byte /\ r \in Byte
  BY <1>1 DEF Byte, Short
<1> QED
  BY <1>1, <1>2

\* A NALU of an aggregate after its length.
Entry(q, nalu) ==
  /\ q \in Seq(Byte) /\ Len(q) = 2 + Len(nalu)
  /\ q[1] * 256 + q[2] = Len(nalu)
  /\ \A t \in 1..Len(nalu) : q[2 + t] = nalu[t]

\* The entry of a NALU in an aggregate says how long it is.
LEMMA EntryFacts ==
  ASSUME NEW nalu \in Seq(Byte), Short(Len(nalu))
  PROVE  Entry(<<Len(nalu) \div 256, Len(nalu) % 256>> \o nalu, nalu)
<1>1. PICK l \in Nat : l = Len(nalu) /\ Short(l)
  BY LenProperties
<1>2. PICK a \in Byte, b \in Byte : a = l \div 256 /\ b = l % 256 /\ a * 256 + b = l
  BY <1>1, TwoBytes
<1>3. PICK h : h = <<a, b>>
  OBVIOUS
<1>4. h \in Seq(Byte) /\ Len(h) = 2 /\ h[1] = a /\ h[2] = b
  BY <1>3
<1>5. PICK q : q = h \o nalu
  OBVIOUS
<1>6. IsQueue(h) /\ IsQueue(nalu)
  BY <1>4 DEF IsQueue
<1>7. TwoParts(q, h, nalu)
  BY <1>5, <1>6, ConcatTwo, Zenon
<1>8. q \in Seq(Byte)
  BY <1>4, <1>5, ConcatProperties
<1>9. Len(q) = 2 + l /\ q[1] = a /\ q[2] = b /\ \A t \in 1..l : q[2 + t] = nalu[t]
  <2>1. 1 \in 1..2 /\ 2 \in 1..2
    OBVIOUS
  <2> QED
    BY <1>1, <1>4, <1>7, <2>1 DEF TwoParts
<1>10. Entry(q, nalu)
  BY <1>1, <1>2, <1>8, <1>9 DEF Entry
<1>11. <<Len(nalu) \div 256, Len(nalu) % 256>> \o nalu = q
  BY <1>1, <1>2, <1>3, <1>5
<1> QED
  BY <1>10, <1>11

-----------------------------------------------------------------------------
\* An aggregate of m NALUs from the i-th of a frame on: where they lie.
Aggregate(p, frame, i, m, off) ==
  /\ p \in Seq(Byte) /\ TypeOf(p[1]) = StapA
  /\ Ends(off, [j \in 1..m |-> 2 + Len(frame[i + j - 1])], m) /\ Len(p) = 1 + off[m + 1]
  /\ \A j \in 1..m :
        /\ p[off[j] + 2] * 256 + p[off[j] + 3] = Len(frame[i + j - 1])
        /\ \A t \in 1..Len(frame[i + j - 1]) : p[off[j] + 3 + t] = frame[i + j - 1][t]

\* AggregatePayload makes an aggregate of the NALUs i..k.
LEMMA AggregateMade ==
  ASSUME NEW frame, NEW i \in Nat \ {0}, NEW k \in Nat, i < k,
         \A j \in i..k : frame[j] \in Seq(Byte) /\ Len(frame[j]) \in Nat /\ Short(Len(frame[j])),
         frame[i][1] \in Byte
  PROVE  \E off : Aggregate(AggregatePayload(frame, i, k), frame, i, k - i + 1, off)
<1>1. PICK m \in Nat \ {0} : m = k - i + 1
  OBVIOUS
<1> DEFINE Part(j) == <<Len(frame[i + j - 1]) \div 256, Len(frame[i + j - 1]) % 256>> \o frame[i + j - 1]
           s == [j \in 1..m |-> Part(j)]
           l == [j \in 1..m |-> 2 + Len(frame[i + j - 1])]
<1>2. \A j \in 1..m : /\ frame[i + j - 1] \in Seq(Byte) /\ Len(frame[i + j - 1]) \in Nat
                      /\ Short(Len(frame[i + j - 1]))
  <2>1. \A j \in 1..m : i + j - 1 \in i..k
    BY <1>1
  <2> HIDE DEF Part, s, l
  <2> QED
    BY <2>1
<1>3. \A j \in 1..m : s[j] = Part(j) /\ Entry(Part(j), frame[i + j - 1])
  <2>1. ASSUME NEW j \in 1..m PROVE Entry(Part(j), frame[i + j - 1])
    <3>1. PICK x : x = frame[i + j - 1]
      OBVIOUS
    <3>2. x \in Seq(Byte) /\ Short(Len(x))
      BY <1>2, <3>1
    <3>3. Entry(<<Len(x) \div 256, Len(x) % 256>> \o x, x)
      BY <3>2, EntryFacts
    <3> QED
      BY <3>1, <3>3
  <2> HIDE DEF Part
  <2> QED
    BY <2>1
<1> HIDE DEF Part
<1>4. s = [j \in 1..m |-> s[j]]
  OBVIOUS
<1>5. AggregatePayload(frame, i, k) = <<WithType(frame[i][1], StapA)>> \o FlattenSeq(s)
  <2>1. ~(i = k)
    OBVIOUS
  <2> QED
    BY <1>1, <2>1 DEF AggregatePayload, Part
<1>6. l \in [1..m -> Nat] /\ \A j \in 1..m : l[j] = 2 + Len(frame[i + j - 1])
  BY <1>2
<1> HIDE DEF s, l
<1>7. IsQueue(s) /\ Len(s) = m /\ \A j \in 1..m : s[j] \in Seq(Byte) /\ IsQueue(s[j])
  <2>1. IsQueue(s) /\ Len(s) = m
    BY <1>4, FunctionQueue
  <2>2. \A j \in 1..m : s[j] \in Seq(Byte)
    BY <1>3 DEF Entry
  <2> QED
    BY <2>1, <2>2 DEF IsQueue
<1>8. PICK off : Ends(off, l, m)
  BY <1>6, EndsExist
<1>9. Lengths(s) = l
  <2>1. \A j \in 1..m : Len(s[j]) = 2 + Len(frame[i + j - 1])
    BY <1>3 DEF Entry
  <2>2. Lengths(s) = [j \in 1..m |-> 2 + Len(frame[i + j - 1])]
    BY <1>7, <2>1 DEF Lengths
  <2> QED
    BY <2>2 DEF l
<1>10. PICK b : b = FlattenSeq(s)
  OBVIOUS
<1>11. b \in Seq(Byte) /\ IsQueue(b) /\ Len(b) = off[m + 1]
       /\ \A j \in 1..m : \A t \in 1..Len(s[j]) : b[off[j] + t] = s[j][t]
  <2>1. b \in Seq(Byte)
    BY <1>7, <1>10, FlattenType
  <2>2. Ends(off, Lengths(s), Len(s)) /\ IsQueue(s) /\ \A j \in 1..Len(s) : IsQueue(s[j])
    BY <1>7, <1>8, <1>9
  <2>3. /\ Len(FlattenSeq(s)) = off[Len(s) + 1]
        /\ \A j \in 1..Len(s) : \A t \in 1..Len(s[j]) : FlattenSeq(s)[off[j] + t] = s[j][t]
    BY <2>2, FlattenFacts
  <2> QED
    BY <1>7, <1>10, <2>1, <2>3 DEF IsQueue
<1>12. PICK h : h = <<WithType(frame[i][1], StapA)>>
  OBVIOUS
<1>13. h \in Seq(Byte) /\ IsQueue(h) /\ Len(h) = 1 /\ TypeOf(h[1]) = StapA
  <2>1. StapA \in 0..31
    BY DEF StapA
  <2>2. WithType(frame[i][1], StapA) \in Byte /\ TypeOf(WithType(frame[i][1], StapA)) = StapA
    BY <2>1, ByteFacts
  <2>3. h \in Seq(Byte) /\ Len(h) = 1 /\ h[1] = WithType(frame[i][1], StapA)
    BY <1>12, <2>2
  <2> QED
    BY <2>2, <2>3 DEF IsQueue
<1>14. PICK p : p = h \o b
  OBVIOUS
<1>15. TwoParts(p, h, b)
  BY <1>11, <1>13, <1>14, ConcatTwo, Zenon
<1>16. p \in Seq(Byte)
  BY <1>11, <1>13, <1>14, ConcatProperties
<1>17. Len(p) = 1 + off[m + 1] /\ p[1] = h[1] /\ \A x \in 1..off[m + 1] : p[1 + x] = b[x]
  <2>1. 1 \in 1..1
    OBVIOUS
  <2> QED
    BY <1>11, <1>13, <1>15, <2>1 DEF TwoParts
<1>18. ASSUME NEW j \in 1..m
       PROVE  /\ p[off[j] + 2] * 256 + p[off[j] + 3] = Len(frame[i + j - 1])
              /\ \A t \in 1..Len(frame[i + j - 1]) : p[off[j] + 3 + t] = frame[i + j - 1][t]
  <2>1. off[j] \in Nat /\ off[j + 1] \in Nat /\ off[m + 1] \in Nat /\ off[j + 1] = off[j] + l[j]
        /\ off[j + 1] <= off[m + 1]
    <3>1. j \in 1..(m + 1) /\ j + 1 \in 1..(m + 1) /\ m + 1 \in 1..(m + 1) /\ j + 1 <= m + 1
      OBVIOUS
    <3>2. off[j + 1] <= off[m + 1]
      BY <1>6, <1>8, <3>1, EndsGrow
    <3> QED
      BY <1>8, <3>1, <3>2 DEF Ends
  <2>2. PICK n \in Nat : n = Len(frame[i + j - 1]) /\ l[j] = 2 + n
    BY <1>2, <1>6
  <2>3. PICK o \in Nat, e \in Nat, z \in Nat : o = off[j] /\ e = off[j + 1] /\ z = off[m + 1]
    BY <2>1, Zenon
  <2>4. e = o + (2 + n) /\ e <= z
    BY <2>1, <2>2, <2>3
  <2>5. \A t \in 1..(2 + n) : o + t \in 1..z
    BY <2>4
  <2>6. Entry(s[j], frame[i + j - 1])
    BY <1>3
  <2>7. Len(s[j]) = 2 + n /\ s[j][1] * 256 + s[j][2] = n /\ \A t \in 1..n : s[j][2 + t] = frame[i + j - 1][t]
    BY <2>2, <2>6 DEF Entry
  <2>8. \A t \in 1..(2 + n) : p[1 + (o + t)] = s[j][t]
    <3>1. \A t \in 1..(2 + n) : p[1 + (o + t)] = b[o + t]
      BY <1>17, <2>3, <2>5
    <3>2. \A t \in 1..(2 + n) : b[o + t] = s[j][t]
      BY <1>11, <2>3, <2>7
    <3> QED
      BY <3>1, <3>2, Zenon
  <2>9. p[o + 2] = s[j][1] /\ p[o + 3] = s[j][2]
    <3>1. 1 \in 1..(2 + n) /\ 2 \in 1..(2 + n) /\ 1 + (o + 1) = o + 2 /\ 1 + (o + 2) = o + 3
      OBVIOUS
    <3>2. p[1 + (o + 1)] = s[j][1] /\ p[1 + (o + 2)] = s[j][2]
      BY <2>8, <3>1
    <3> QED
      BY <3>1, <3>2
  <2>10. ASSUME NEW t \in 1..n PROVE p[o + 3 + t] = s[j][2 + t]
    <3>1. 2 + t \in 1..(2 + n) /\ 1 + (o + (2 + t)) = o + 3 + t
      OBVIOUS
    <3>2. p[1 + (o + (2 + t))] = s[j][2 + t]
      BY <2>8, <3>1
    <3> QED
      BY <3>1, <3>2
  <2>11. p[o + 2] * 256 + p[o + 3] = n
    BY <2>7, <2>9
  <2>12. \A t \in 1..n : p[o + 3 + t] = frame[i + j - 1][t]
    BY <2>7, <2>10
  <2> QED
    BY <2>2, <2>3, <2>11, <2>12
<1>19. Aggregate(p, frame, i, m, off)
  BY <1>8, <1>13, <1>16, <1>17, <1>18 DEF Aggregate, l
<1> QED
  BY <1>1, <1>5, <1>10, <1>12, <1>14, <1>19

\* The entries that start at the second byte.
Entries(p, split) ==
  split = [at \in 2..(Len(p) + 1) |->
             IF at >= Len(p) \/ (at + 1 + p[at] * 256 + p[at + 1]) > Len(p) THEN <<>>
             ELSE <<SubSeq(p, at + 2, (at + 1 + p[at] * 256 + p[at + 1]))>>
                  \o split[(at + 1 + p[at] * 256 + p[at + 1]) + 1]]

\* An aggregate is split into its entries.
LEMMA DepacketizeEntries ==
  ASSUME NEW nalus, NEW payload, TypeOf(payload[1]) = StapA
  PROVE  Depacketize(nalus, payload) = nalus \o (CHOOSE split : Entries(payload, split))[2]
<1>1. StapA # FuA
  BY DEF StapA, FuA
<1> QED
  BY <1>1, Zenon DEF Depacketize, Entries

\* Bytes are numbers.
LEMMA ByteNat ==
  \A b \in Byte : b \in Nat
BY DEF Byte

\* A payload has entries: each is behind the one before.
LEMMA EntriesExist ==
  ASSUME NEW p \in Seq(Byte), p # <<>>
  PROVE  \E split : Entries(p, split)
<1> DEFINE End(at) == at + 1 + p[at] * 256 + p[at + 1]
           stop == {at \in 2..(Len(p) + 1) : at >= Len(p) \/ End(at) > Len(p)}
           head == [at \in 2..(Len(p) + 1) |-> <<SubSeq(p, at + 2, End(at))>>]
           next == [at \in 2..(Len(p) + 1) |-> End(at) + 1]
<1>1. PICK n \in Nat : n = Len(p) + 1 /\ 2 <= n
  <2>1. IsQueue(p)
    BY DEF IsQueue
  <2> QED
    BY <2>1, QueueBasics
<1>2. ASSUME NEW at \in 2..n, at \notin stop PROVE next[at] \in (at + 1)..n
  <2>0. at \in 2..(Len(p) + 1)
    BY <1>1
  <2>1. ~(at >= Len(p)) /\ ~(End(at) > Len(p))
    BY <1>2, <2>0
  <2>2. at \in 1..Len(p) /\ at + 1 \in 1..Len(p)
    BY <1>1, <2>1
  <2>3. p[at] \in Byte /\ p[at + 1] \in Byte
    BY <2>2, ElementOfSeq
  <2>4. PICK a \in Nat, b \in Nat : a = p[at] /\ b = p[at + 1]
    BY <2>3, ByteNat, Zenon
  <2>5. PICK e \in Nat : e = at + 1 + a * 256 + b
    BY <1>1
  <2>6. e = End(at)
    BY <2>4, <2>5
  <2>7. e + 1 \in (at + 1)..n
    BY <1>1, <2>1, <2>5, <2>6
  <2>8. next[at] = End(at) + 1
    BY <2>0
  <2> QED
    BY <2>6, <2>7, <2>8
<1>3. PICK f : Chain(f, 2, n, stop, head, next)
  <2> HIDE DEF stop, head, next
  <2>1. \E f : Chain(f, 2, n, stop, head, next)
    BY <1>1, <1>2, ChainExists
  <2> QED
    BY <2>1
<1>4. ASSUME NEW at \in 2..n
      PROVE  (IF at \in stop THEN <<>> ELSE head[at] \o f[next[at]]) =
             (IF at >= Len(p) \/ End(at) > Len(p) THEN <<>>
              ELSE <<SubSeq(p, at + 2, End(at))>> \o f[End(at) + 1])
  <2>0. at \in 2..(Len(p) + 1)
    BY <1>1
  <2>1. (at \in stop) <=> (at >= Len(p) \/ End(at) > Len(p))
    BY <2>0
  <2>2. head[at] = <<SubSeq(p, at + 2, End(at))>> /\ next[at] = End(at) + 1
    BY <2>0, Zenon
  <2> HIDE DEF stop, head, next, End
  <2> QED
    BY <2>1, <2>2, Zenon
<1>5. [at \in 2..n |-> IF at \in stop THEN <<>> ELSE head[at] \o f[next[at]]] =
      [at \in 2..n |-> IF at >= Len(p) \/ End(at) > Len(p) THEN <<>>
                       ELSE <<SubSeq(p, at + 2, End(at))>> \o f[End(at) + 1]]
  <2> HIDE DEF stop, head, next, End
  <2> QED
    BY <1>4, Zenon
<1>6. f = [at \in 2..n |-> IF at \in stop THEN <<>> ELSE head[at] \o f[next[at]]]
  BY <1>3, Zenon DEF Chain
<1>7. f = [at \in 2..(Len(p) + 1) |-> IF at >= Len(p) \/ End(at) > Len(p) THEN <<>>
                       ELSE <<SubSeq(p, at + 2, End(at))>> \o f[End(at) + 1]]
  <2> HIDE DEF stop, head, next, End
  <2> QED
    BY <1>1, <1>5, <1>6, Zenon
<1>8. Entries(p, f)
  BY <1>7, Zenon DEF Entries
<1> QED
  BY <1>8

\* An aggregate of the NALUs i..k is taken apart into them.
LEMMA AggregateAssembles ==
  ASSUME NEW frame, IsQueue(frame), NEW i \in Nat \ {0}, NEW k \in Nat, i < k, k <= Len(frame),
         \A j \in i..k : IsQueue(frame[j]) /\ Len(frame[j]) \in Nat,
         NEW p, NEW off, Aggregate(p, frame, i, k - i + 1, off)
  PROVE  Assembles(<<p>>, SubSeq(frame, i, k))
<1>1. PICK m \in Nat \ {0} : m = k - i + 1 /\ k = i + m - 1
  OBVIOUS
<1>2. /\ p \in Seq(Byte) /\ TypeOf(p[1]) = StapA
      /\ Ends(off, [j \in 1..m |-> 2 + Len(frame[i + j - 1])], m) /\ Len(p) = 1 + off[m + 1]
      /\ \A j \in 1..m :
            /\ p[off[j] + 2] * 256 + p[off[j] + 3] = Len(frame[i + j - 1])
            /\ \A t \in 1..Len(frame[i + j - 1]) : p[off[j] + 3 + t] = frame[i + j - 1][t]
  BY <1>1 DEF Aggregate
<1> DEFINE l == [j \in 1..m |-> 2 + Len(frame[i + j - 1])]
<1>3. /\ l \in [1..m -> Nat] /\ \A j \in 1..m : l[j] = 2 + Len(frame[i + j - 1])
      /\ \A j \in 1..m : Len(frame[i + j - 1]) \in Nat /\ IsQueue(frame[i + j - 1])
  <2>1. \A j \in 1..m : i + j - 1 \in i..k
    BY <1>1
  <2>2. \A j \in 1..m : Len(frame[i + j - 1]) \in Nat /\ IsQueue(frame[i + j - 1])
    BY <2>1
  <2> QED
    BY <2>2
<1>4. Ends(off, l, m)
  BY <1>2
<1> HIDE DEF l
<1>16. Len(p) = 1 + off[m + 1]
  BY <1>2
<1>5. off \in [1..(m + 1) -> Nat] /\ off[1] = 0 /\ \A j \in 1..m : off[j + 1] = off[j] + l[j]
  BY <1>4 DEF Ends
<1>6. IsQueue(p) /\ p # <<>>
  <2>1. IsQueue(p)
    BY <1>2 DEF IsQueue
  <2>2. off[m + 1] \in Nat
    BY <1>5
  <2>3. Len(p) # 0
    BY <1>2, <2>2
  <2> QED
    BY <2>1, <2>3, QueueBasics
<1>7. PICK f : f = CHOOSE split : Entries(p, split)
  OBVIOUS
<1>8. Entries(p, f)
  <2>1. \E split : Entries(p, split)
    BY <1>2, <1>6, EntriesExist
  <2> QED
    BY <1>7, <2>1
<1> DEFINE End(at) == at + 1 + p[at] * 256 + p[at + 1]
<1>9. \A at \in 2..(Len(p) + 1) :
        f[at] = IF at >= Len(p) \/ End(at) > Len(p) THEN <<>>
                ELSE <<SubSeq(p, at + 2, End(at))>> \o f[End(at) + 1]
  BY <1>8, ZenonT(60) DEF Entries
<1> DEFINE G == {d \in Nat : d <= m => f[off[m + 1 - d] + 2] = SubSeq(frame, i + (m - d), k)}
<1>10. 0 \in G
  <2>1. PICK z \in Nat : z = off[m + 1]
    BY <1>5
  <2>2. z + 2 \in 2..(Len(p) + 1) /\ z + 2 >= Len(p)
    <3>1. Len(p) = 1 + z
      BY <1>16, <2>1
    <3> HIDE DEF End, G
    <3> QED
      BY <3>1
  <2> HIDE DEF End
  <2>3. f[z + 2] = <<>>
    BY <1>9, <2>2, Zenon
  <2>4. i + (m - 0) = k + 1 /\ m + 1 - 0 = m + 1
    BY <1>1
  <2>5. SubSeq(frame, k + 1, k) = <<>>
    <3>1. IsQueue(SubSeq(frame, k + 1, k)) /\ Len(SubSeq(frame, k + 1, k)) = k - (k + 1) + 1
      <4>1. k + 1 \in Nat \ {0} /\ k + 1 <= k + 1 /\ k <= Len(frame)
        OBVIOUS
      <4> QED
        BY <4>1, SubSeqFacts
    <3>2. k - (k + 1) + 1 = 0
      OBVIOUS
    <3> QED
      BY <3>1, <3>2, QueueBasics
  <2> QED
    BY <2>1, <2>3, <2>4, <2>5
<1>11. ASSUME NEW d \in G PROVE d + 1 \in G
  <2>0. d \in Nat /\ d + 1 \in Nat
    OBVIOUS
  <2> SUFFICES ASSUME d + 1 <= m
               PROVE  f[off[m + 1 - (d + 1)] + 2] = SubSeq(frame, i + (m - (d + 1)), k)
    BY <2>0
  <2>1. PICK j \in 1..m : /\ j = m + 1 - (d + 1) /\ j + 1 = m + 1 - d
                          /\ i + (m - (d + 1)) = i + j - 1 /\ i + (m - d) = (i + j - 1) + 1
    BY <2>0
  <2>2. f[off[j + 1] + 2] = SubSeq(frame, (i + j - 1) + 1, k)
    <3>1. d <= m
      BY <2>0
    <3>2. f[off[m + 1 - d] + 2] = SubSeq(frame, i + (m - d), k)
      BY <3>1
    <3> QED
      BY <2>1, <3>2
  <2> HIDE DEF G
  <2>3. PICK n \in Nat : n = Len(frame[i + j - 1]) /\ l[j] = 2 + n
    BY <1>3
  <2>4. off[j] \in Nat /\ off[j + 1] \in Nat /\ off[m + 1] \in Nat /\ off[j + 1] = off[j] + l[j]
        /\ off[j + 1] <= off[m + 1]
    <3>1. j \in 1..(m + 1) /\ j + 1 \in 1..(m + 1) /\ m + 1 \in 1..(m + 1) /\ j + 1 <= m + 1
      OBVIOUS
    <3>2. off[j + 1] <= off[m + 1]
      BY <1>3, <1>4, <3>1, EndsGrow
    <3> QED
      BY <1>5, <3>1, <3>2
  <2>5. PICK o \in Nat, e \in Nat, z \in Nat : o = off[j] /\ e = off[j + 1] /\ z = off[m + 1]
    BY <2>4, Zenon
  <2>6. e = o + 2 + n /\ e <= z /\ Len(p) = 1 + z
    <3>1. Len(p) = 1 + z
      BY <1>16, <2>5
    <3> HIDE DEF End
    <3>2. e = o + (2 + n)
      BY <2>3, <2>4, <2>5
    <3>3. e = o + 2 + n
      BY <3>2
    <3> QED
      BY <2>4, <2>5, <3>1, <3>3
  <2>7. p[o + 2] * 256 + p[o + 3] = n /\ \A t \in 1..n : p[o + 3 + t] = frame[i + j - 1][t]
    BY <1>2, <2>3, <2>5
  <2>8. PICK a \in Nat, b \in Nat : a = p[o + 2] /\ b = p[o + 3]
    <3>1. o + 2 \in 1..Len(p) /\ o + 3 \in 1..Len(p)
      BY <2>6, SMTT(60)
    <3>2. p[o + 2] \in Byte /\ p[o + 3] \in Byte
      BY <1>2, <3>1, ElementOfSeq
    <3> QED
      BY <3>2, ByteNat, Zenon
  <2>9. End(o + 2) = e + 1
    <3>1. End(o + 2) = o + 2 + 1 + a * 256 + b
      <4>1. (o + 2) + 1 = o + 3
        OBVIOUS
      <4> QED
        BY <2>8, <4>1
    <3>2. a * 256 + b = n
      BY <2>7, <2>8
    <3> QED
      BY <2>6, <3>1, <3>2, SMTT(60)
  <2> HIDE DEF End
  <2>10. o + 2 \in 2..(Len(p) + 1) /\ ~(o + 2 >= Len(p)) /\ ~(End(o + 2) > Len(p))
    BY <2>6, <2>9
  <2>11. f[o + 2] = <<SubSeq(p, (o + 2) + 2, e + 1)>> \o f[(e + 1) + 1]
    BY <1>9, <2>9, <2>10, Zenon
  <2>12. SubSeq(p, (o + 2) + 2, e + 1) = frame[i + j - 1]
    <3>1. PICK q : q = SubSeq(p, o + 4, e + 1)
      OBVIOUS
    <3>2. IsQueue(q) /\ Len(q) = (e + 1) - (o + 4) + 1
          /\ \A t \in 1..((e + 1) - (o + 4) + 1) : q[t] = p[(o + 4) + t - 1]
      <4>1. o + 4 \in Nat \ {0} /\ e + 1 \in Nat /\ o + 4 <= (e + 1) + 1 /\ e + 1 <= Len(p)
        <5>1. e = o + 2 + n
          BY <2>6
        <5>2. o + 4 \in Nat \ {0} /\ e + 1 \in Nat /\ o + 4 <= (e + 1) + 1
          BY <5>1
        <5>3. e + 1 <= Len(p)
          BY <2>6
        <5> QED
          BY <5>2, <5>3
      <4> QED
        BY <1>6, <3>1, <4>1, SubSeqFacts
    <3>3. (e + 1) - (o + 4) + 1 = n /\ \A t \in 1..n : (o + 4) + t - 1 = o + 3 + t
      BY <2>6
    <3>4. \A t \in 1..n : q[t] = frame[i + j - 1][t]
      BY <2>7, <3>2, <3>3
    <3>5. IsQueue(frame[i + j - 1])
      BY <1>3
    <3>6. q = frame[i + j - 1]
      <4>1. PICK x : x = frame[i + j - 1]
        OBVIOUS
      <4>2. IsQueue(x) /\ Len(x) = n /\ \A t \in 1..n : q[t] = x[t]
        BY <2>3, <3>4, <3>5, <4>1
      <4>3. Len(q) = n
        BY <3>2, <3>3
      <4>4. q = x
        BY <3>2, <4>2, <4>3, QueueEqual
      <4> QED
        BY <4>1, <4>4
    <3>7. (o + 2) + 2 = o + 4
      OBVIOUS
    <3> QED
      BY <3>1, <3>6, <3>7
  <2>13. f[(e + 1) + 1] = SubSeq(frame, (i + j - 1) + 1, k)
    <3>1. (e + 1) + 1 = e + 2
      OBVIOUS
    <3> QED
      BY <2>2, <2>5, <3>1
  <2>14. <<frame[i + j - 1]>> \o SubSeq(frame, (i + j - 1) + 1, k) = SubSeq(frame, i + j - 1, k)
    <3>1. PICK c \in Nat \ {0} : c = i + j - 1 /\ c <= k /\ k <= Len(frame) /\ c \in 1..Len(frame)
      <4>1. Len(frame) \in Nat
        BY QueueBasics
      <4> QED
        BY <1>1, <4>1
    <3>2. SubSeq(frame, c, c) = <<frame[c]>>
      BY <3>1, Stretches
    <3>3. c \in Nat /\ c <= c + 1
      OBVIOUS
    <3>4. SubSeq(frame, c, c) \o SubSeq(frame, c + 1, k) = SubSeq(frame, c, k)
      BY <3>1, <3>3, Stretches
    <3> QED
      BY <3>1, <3>2, <3>4
  <2>15. f[o + 2] = SubSeq(frame, i + j - 1, k)
    BY <2>11, <2>12, <2>13, <2>14
  <2> QED
    BY <2>1, <2>5, <2>15
<1>12. Nat \subseteq G
  <2> HIDE DEF G
  <2> QED
    BY <1>10, <1>11, SetInduction
<1>13. f[2] = SubSeq(frame, i, k)
  <2>1. m \in G
    <3> HIDE DEF G
    <3> QED
      BY <1>12
  <2>2. m + 1 - m = 1 /\ i + (m - m) = i /\ 0 + 2 = 2
    OBVIOUS
  <2>3. f[off[m + 1 - m] + 2] = SubSeq(frame, i + (m - m), k)
    BY <2>1
  <2> QED
    BY <1>5, <2>2, <2>3
<1>14. IsQueue(SubSeq(frame, i, k))
  <2>1. i \in Nat \ {0} /\ i <= k + 1
    OBVIOUS
  <2> QED
    BY <2>1, SubSeqFacts
<1>15. ASSUME NEW nalus PROVE Depacketize(nalus, p) = nalus \o SubSeq(frame, i, k)
  <2>1. Depacketize(nalus, p) = nalus \o (CHOOSE split : Entries(p, split))[2]
    BY <1>2, DepacketizeEntries
  <2> QED
    BY <1>7, <1>13, <2>1
<1> QED
  BY <1>14, <1>15, AssemblesOne

\* How long the parts of an aggregate of m NALUs are.
Spans(frame, i, m) == [j \in 1..m |-> 2 + Len(frame[i + j - 1])]

Spanned(frame, i, k, m, off) ==
  /\ i <= k /\ m = k - i + 1 /\ \A j \in i..k : Len(frame[j]) \in Nat
  /\ Ends(off, Spans(frame, i, m), m)

\* What the NALUs i..k add up to, by where they lie in an aggregate.
LEMMA TotalRun ==
  ASSUME NEW frame, NEW i \in Nat \ {0}, NEW k \in Nat, NEW m \in Nat,
         NEW off, Spanned(frame, i, k, m, off)
  PROVE  Sizes(frame, i, k) \in Nat /\ Sizes(frame, i, k) + 2 * m = off[m + 1]
<1> DEFINE f == [j \in i..k |-> Len(frame[j])]
           G == {t \in Nat : t <= m => Total(f, i..(i + t - 1)) \in Nat
                                       /\ Total(f, i..(i + t - 1)) + 2 * t = off[t + 1]}
<1>. i <= k /\ m = k - i + 1 /\ (\A j \in i..k : Len(frame[j]) \in Nat)
     /\ Ends(off, Spans(frame, i, m), m)
  BY DEF Spanned
<1>0. off \in [1..(m + 1) -> Nat] /\ off[1] = 0
      /\ \A j \in 1..m : off[j + 1] = off[j] + (2 + Len(frame[i + j - 1]))
  BY DEF Ends, Spans
<1>1. DOMAIN f = i..k /\ \A j \in i..k : f[j] = Len(frame[j]) /\ f[j] \in Int
  OBVIOUS
<1>2. Sizes(frame, i, k) = Total(f, i..k)
  <2>1. Sizes(frame, i, k) = SumFunctionOnSet(f, DOMAIN f)
    BY DEF Sizes, SumFunction
  <2>2. SumFunctionOnSet(f, i..k) = Total(f, i..k)
    BY SumIsTotal
  <2> QED
    BY <1>1, <2>1, <2>2
<1> HIDE DEF f
<1>3. 0 \in G
  <2>1. i..(i + 0 - 1) = {} /\ 0 + 1 = 1
    OBVIOUS
  <2>2. Total(f, {}) = 0
    BY TotalEmpty
  <2> QED
    BY <1>0, <2>1, <2>2
<1>4. ASSUME NEW t \in G PROVE t + 1 \in G
  <2>1. t \in Nat /\ t + 1 \in Nat
    OBVIOUS
  <2> SUFFICES ASSUME t + 1 <= m
               PROVE  Total(f, i..(i + (t + 1) - 1)) \in Nat
                      /\ Total(f, i..(i + (t + 1) - 1)) + 2 * (t + 1) = off[(t + 1) + 1]
    BY <2>1
  <2>2. PICK z \in Nat : z = Total(f, i..(i + t - 1)) /\ z + 2 * t = off[t + 1]
    BY <2>1
  <2> HIDE DEF G
  <2>3. PICK x \in Nat : x = i + t /\ x - 1 = i + t - 1 /\ x = i + (t + 1) - 1 /\ x \in i..k
    BY <2>1
  <2>4. (i..(x - 1)) \cup {x} = i..x /\ x \notin i..(x - 1)
    BY <2>3
  <2>5. IsFiniteSet(i..(x - 1))
    BY <2>3, FS_Interval
  <2>6. \A y \in (i..(x - 1)) \cup {x} : f[y] \in Int
    <3>1. \A y \in (i..(x - 1)) \cup {x} : y \in i..k
      BY <2>3
    <3> QED
      BY <1>1, <3>1
  <2>7. Total(f, (i..(x - 1)) \cup {x}) = Total(f, i..(x - 1)) + f[x]
    BY <2>4, <2>5, <2>6, TotalAdd
  <2>8. PICK n \in Nat : n = f[x] /\ n = Len(frame[x])
    BY <1>1, <2>3
  <2>9. Total(f, i..x) = z + n
    BY <2>2, <2>3, <2>4, <2>7, <2>8
  <2>10. t + 1 \in 1..m
    BY <2>1
  <2>11. off[(t + 1) + 1] = off[t + 1] + (2 + Len(frame[i + (t + 1) - 1]))
    BY <1>0, <2>10
  <2>12. off[(t + 1) + 1] = (z + 2 * t) + (2 + n)
    BY <2>2, <2>3, <2>8, <2>11
  <2>13. z + n \in Nat /\ (z + n) + 2 * (t + 1) = (z + 2 * t) + (2 + n)
    BY <2>1
  <2> QED
    BY <2>3, <2>9, <2>12, <2>13
<1>5. m \in G
  <2> HIDE DEF G
  <2>1. Nat \subseteq G
    BY <1>3, <1>4, SetInduction
  <2> QED
    BY <2>1
<1>6. i + m - 1 = k
  OBVIOUS
<1> QED
  BY <1>2, <1>5, <1>6

\* What PacketizeStapA takes the NALUs i..k to need is what they need.
LEMMA AggregateSizeTrue ==
  ASSUME NEW frame, NEW i \in Nat \ {0}, NEW k \in Nat, i <= k,
         \A j \in i..k : Len(frame[j]) \in Nat
  PROVE  /\ AggregateSize(frame, i, i) = Len(frame[i])
         /\ AggregateSize(frame, i, k) \in Nat
         /\ \A j \in i..k : Len(frame[j]) <= AggregateSize(frame, i, k)
         /\ i < k => \A off : Ends(off, Spans(frame, i, k - i + 1), k - i + 1)
                         => AggregateSize(frame, i, k) = 1 + off[(k - i + 1) + 1]
<1>1. AggregateSize(frame, i, i) = Len(frame[i])
  <2>0. i \in i..k
    OBVIOUS
  <2>1. PICK n \in Nat : n = Len(frame[i])
    BY <2>0, Zenon
  <2> DEFINE l == Spans(frame, i, 1)
  <2>2. i + 1 - 1 = i /\ 1 \in Nat /\ 1 = i - i + 1 /\ i \in Nat
    OBVIOUS
  <2>3. l \in [1..1 -> Nat]
    <3>1. \A j \in 1..1 : i + j - 1 = i
      OBVIOUS
    <3> QED
      BY <2>1, <3>1 DEF Spans
  <2>4. PICK off : Ends(off, l, 1)
    BY <2>2, <2>3, EndsExist
  <2>5. off[1] = 0 /\ off[1 + 1] = off[1] + l[1]
    BY <2>4 DEF Ends
  <2>6. l[1] = 2 + n
    BY <2>1, <2>2 DEF Spans
  <2>7. Sizes(frame, i, i) \in Nat /\ Sizes(frame, i, i) + 2 * 1 = off[1 + 1]
    <3>1. \A j \in i..i : Len(frame[j]) \in Nat
      BY <2>1
    <3>2. Spanned(frame, i, i, 1, off)
      BY <2>2, <2>4, <3>1 DEF Spanned
    <3> QED
      BY <2>2, <3>2, TotalRun
  <2> HIDE DEF l
  <2>8. Sizes(frame, i, i) = n
    BY <2>5, <2>6, <2>7
  <2>9. ~(i > i)
    OBVIOUS
  <2> QED
    BY <2>1, <2>8, <2>9 DEF AggregateSize
<1>2. CASE i = k
  BY <1>1, <1>2
<1>3. CASE i < k
  <2>0. PICK m \in Nat : m = k - i + 1
    OBVIOUS
  <2> DEFINE l == Spans(frame, i, m)
  <2>1. m \in Nat /\ i <= k /\ k > i
    BY <1>3
  <2>2. \A j \in 1..m : i + j - 1 \in i..k
    BY <2>0
  <2>3. l \in [1..m -> Nat] /\ \A j \in 1..m : l[j] = 2 + Len(frame[i + j - 1])
    BY <2>2 DEF Spans
  <2>4. ASSUME NEW off, Ends(off, l, m)
        PROVE  AggregateSize(frame, i, k) = 1 + off[m + 1] /\ off[m + 1] \in Nat
    <3>1. Sizes(frame, i, k) \in Nat /\ Sizes(frame, i, k) + 2 * m = off[m + 1]
      <4>1. Spanned(frame, i, k, m, off)
        BY <2>0, <2>4 DEF Spanned
      <4> QED
        BY <4>1, TotalRun
    <3>2. PICK z \in Nat : z = Sizes(frame, i, k) /\ z + 2 * m = off[m + 1]
      BY <3>1
    <3>3. AggregateSize(frame, i, k) = z + (5 + 2 * (k - i - 1))
      BY <2>1, <3>2 DEF AggregateSize
    <3>4. z + (5 + 2 * (k - i - 1)) = 1 + (z + 2 * m) /\ z + 2 * m \in Nat
      BY <2>0
    <3> QED
      BY <3>2, <3>3, <3>4
  <2>5. PICK off : Ends(off, l, m)
    BY <2>1, <2>3, EndsExist
  <2>6. AggregateSize(frame, i, k) = 1 + off[m + 1] /\ off[m + 1] \in Nat
    BY <2>4, <2>5
  <2>7. ASSUME NEW j \in i..k PROVE Len(frame[j]) <= AggregateSize(frame, i, k)
    <3>1. PICK t \in 1..m : t = j - i + 1 /\ i + t - 1 = j /\ t \in 1..(m + 1) /\ t + 1 \in 1..(m + 1)
                            /\ t + 1 <= m + 1 /\ m + 1 \in 1..(m + 1)
      BY <2>0
    <3>2. l[t] = 2 + Len(frame[j])
      BY <2>3, <3>1
    <3> HIDE DEF l
    <3>3. off[t + 1] <= off[m + 1]
      BY <2>1, <2>3, <2>5, <3>1, EndsGrow
    <3>4. off[t + 1] = off[t] + l[t] /\ off[t] \in Nat
      BY <2>5, <3>1 DEF Ends
    <3>5. PICK a \in Nat, n \in Nat, z \in Nat : a = off[t] /\ n = Len(frame[j]) /\ z = off[m + 1]
      BY <2>6, <3>4, Zenon
    <3>6. a + (2 + n) <= z
      BY <3>2, <3>3, <3>4, <3>5
    <3>7. AggregateSize(frame, i, k) = 1 + z
      BY <2>6, <3>5
    <3>8. n <= 1 + z
      BY <3>6
    <3> QED
      BY <3>5, <3>7, <3>8
  <2>8. AggregateSize(frame, i, k) \in Nat
    BY <2>6
  <2> QED
    BY <1>1, <2>0, <2>4, <2>7, <2>8
<1> QED
  BY <1>2, <1>3

\* The last NALU of an aggregate is one of the frame, and the aggregate is not
\* too large.
LEMMA AggregateEndFacts ==
  ASSUME NEW frame, LegalFrame(frame), NEW i \in Nat \ {0}, i <= Len(frame),
         Len(frame[i]) <= MaxPayloadLen
  PROVE  /\ AggregateEnd(frame, i) \in i..Len(frame)
         /\ AggregateSize(frame, i, AggregateEnd(frame, i)) <= MaxPayloadLen
<1> DEFINE K == {k \in i..Len(frame) : \A j \in i..k : AggregateSize(frame, i, j) <= MaxPayloadLen}
<1>1. Len(frame) \in Nat /\ \A j \in 1..Len(frame) : Len(frame[j]) \in Nat
  <2>1. Len(frame) \in Nat \ {0} /\ \A j \in 1..Len(frame) : Len(frame[j]) \in Nat \ {0}
    BY FrameBasics
  <2> QED
    BY <2>1
<1>2. AggregateSize(frame, i, i) = Len(frame[i])
  <2>1. \A j \in i..i : Len(frame[j]) \in Nat
    BY <1>1
  <2>2. i \in Nat /\ i <= i
    OBVIOUS
  <2> QED
    BY <2>1, <2>2, AggregateSizeTrue
<1>3. i \in K
  <2>1. i \in i..Len(frame) /\ \A j \in i..i : j = i
    BY <1>1
  <2> QED
    BY <1>2, <2>1
<1>4. K \in SUBSET (i..Len(frame)) /\ K # {} /\ i \in Int /\ Len(frame) \in Int
  BY <1>1, <1>3
<1>5. AggregateEnd(frame, i) = Max(K)
  BY DEF AggregateEnd
<1>6. Max(K) \in K
  <2> HIDE DEF K
  <2> QED
    BY <1>4, Extremes
<1>7. Max(K) \in i..Len(frame) /\ \A j \in i..Max(K) : AggregateSize(frame, i, j) <= MaxPayloadLen
  BY <1>6
<1>8. Max(K) \in i..Max(K)
  <2> HIDE DEF K
  <2>1. Max(K) \in Int /\ i <= Max(K)
    BY <1>1, <1>7
  <2> QED
    BY <2>1
<1> HIDE DEF K
<1> QED
  BY <1>5, <1>7, <1>8

\* A packet with all of the NALUs i..k: one of them, or an aggregate.
LEMMA PayloadMade ==
  ASSUME NEW frame, LegalFrame(frame), NEW i \in Nat \ {0}, NEW k \in Nat, i <= k, k <= Len(frame),
         AggregateSize(frame, i, k) <= MaxPayloadLen
  PROVE  /\ Assembles(<<AggregatePayload(frame, i, k)>>, SubSeq(frame, i, k))
         /\ AggregatePayload(frame, i, k) \in Seq(Byte)
         /\ Len(AggregatePayload(frame, i, k)) \in 1..MaxPayloadLen
<1>1. /\ Len(frame) \in Nat /\ IsQueue(frame)
      /\ \A j \in i..k : /\ frame[j] \in Seq(Byte) /\ IsQueue(frame[j]) /\ Len(frame[j]) \in Nat
                         /\ Len(frame[j]) \in Nat \ {0}
  <2>1. Len(frame) \in Nat
    BY FrameBasics
  <2>2. \A j \in i..k : j \in 1..Len(frame)
    BY <2>1
  <2> QED
    BY <2>1, <2>2, FrameBasics
<1>2. i \in 1..Len(frame) /\ 1 \in 1..Len(frame[i])
  <2>1. i \in 1..Len(frame) /\ i \in i..k
    BY <1>1
  <2>2. Len(frame[i]) \in Nat \ {0}
    BY <1>1, <2>1
  <2> QED
    BY <2>1, <2>2
<1>3. LegalNalu(frame[i]) /\ frame[i][1] \in Byte
  BY <1>2, FrameBasics
<1>4. CASE i = k
  <2>1. AggregatePayload(frame, i, k) = frame[i]
    BY <1>4 DEF AggregatePayload
  <2>2. SubSeq(frame, i, k) = <<frame[i]>>
    BY <1>1, <1>2, <1>4, Stretches
  <2>3. Assembles(<<frame[i]>>, <<frame[i]>>)
    BY <1>3, AssemblesLone DEF LegalNalu
  <2>4. AggregateSize(frame, i, i) = Len(frame[i])
    BY <1>1, AggregateSizeTrue
  <2>5. Len(frame[i]) \in 1..MaxPayloadLen
    <3>1. i \in i..k
      OBVIOUS
    <3>2. PICK n \in Nat \ {0} : n = Len(frame[i])
      BY <1>1, <3>1
    <3>3. n <= MaxPayloadLen
      BY <1>4, <2>4, <3>2
    <3> QED
      BY <3>2, <3>3, PayloadBound
  <2>6. frame[i] \in Seq(Byte)
    BY <1>1
  <2> QED
    BY <2>1, <2>2, <2>3, <2>5, <2>6
<1>5. CASE i < k
  <2>1. AggregateSize(frame, i, k) \in Nat /\ \A j \in i..k : Len(frame[j]) <= AggregateSize(frame, i, k)
    BY <1>1, AggregateSizeTrue
  <2>2. ASSUME NEW j \in i..k PROVE Short(Len(frame[j]))
    <3>1. PICK n \in Nat, z \in Nat : n = Len(frame[j]) /\ z = AggregateSize(frame, i, k)
      BY <1>1, <2>1, Zenon
    <3>2. n <= z /\ z <= MaxPayloadLen
      BY <2>1, <3>1
    <3>3. n <= MaxPayloadLen
      BY <3>2, PayloadBound
    <3> QED
      BY <3>1, <3>3, PayloadShort
  <2>3. PICK p : p = AggregatePayload(frame, i, k)
    OBVIOUS
  <2>4. PICK m \in Nat : m = k - i + 1
    OBVIOUS
  <2>5. PICK off : Aggregate(p, frame, i, m, off)
    BY <1>1, <1>3, <1>5, <2>2, <2>3, <2>4, AggregateMade
  <2>6. Assembles(<<p>>, SubSeq(frame, i, k))
    BY <1>1, <1>5, <2>4, <2>5, AggregateAssembles
  <2>7. p \in Seq(Byte) /\ Ends(off, Spans(frame, i, m), m) /\ Len(p) = 1 + off[m + 1]
    BY <2>5 DEF Aggregate, Spans
  <2>8. AggregateSize(frame, i, k) = 1 + off[m + 1]
    <3>1. \A j \in i..k : Len(frame[j]) \in Nat
      BY <1>1
    <3>2. i < k => \A o : Ends(o, Spans(frame, i, k - i + 1), k - i + 1)
                             => AggregateSize(frame, i, k) = 1 + o[(k - i + 1) + 1]
      BY <3>1, AggregateSizeTrue
    <3>3. \A o : Ends(o, Spans(frame, i, m), m) => AggregateSize(frame, i, k) = 1 + o[m + 1]
      BY <1>5, <2>4, <3>2
    <3> QED
      BY <2>7, <3>3
  <2>9. Len(p) \in 1..MaxPayloadLen
    <3>1. PICK z \in Nat : z = AggregateSize(frame, i, k) /\ z <= MaxPayloadLen
      BY <2>1
    <3>2. Len(p) = z
      BY <2>7, <2>8, <3>1
    <3>3. z # 0
      <4>1. i \in i..k
        OBVIOUS
      <4>2. PICK n \in Nat \ {0} : n = Len(frame[i])
        BY <1>1, <4>1
      <4>3. n <= z
        BY <2>1, <3>1, <4>1, <4>2
      <4> QED
        BY <4>3
    <3> QED
      BY <3>1, <3>2, <3>3, PayloadBound
  <2> QED
    BY <2>3, <2>6, <2>7, <2>9
<1> QED
  BY <1>4, <1>5

-----------------------------------------------------------------------------
(* The whole packetizer.                                                   *)

\* The packets from each NALU of a frame on.
Generates(frame, g) ==
  g = [i \in 1..(Len(frame) + 1) |->
         IF i > Len(frame) THEN <<>>
         ELSE IF Len(frame[i]) > MaxPayloadLen
              THEN PacketizeFuA(frame[i]) \o g[i + 1]
              ELSE <<AggregatePayload(frame, i, AggregateEnd(frame, i))>>
                   \o g[AggregateEnd(frame, i) + 1]]

\* Packetize goes through the NALUs that are found, as Generates says.
LEMMA PacketizeGenerates ==
  ASSUME NEW buffer
  PROVE  Packetize(buffer) = (CHOOSE g : Generates(FindNaluIndices(buffer), g))[1]
BY Zenon DEF Packetize, Generates

\* Payloads of one packet, by what they are made of.
Large(frame, i) == Len(frame[i]) > MaxPayloadLen
HeadOf(frame, i) ==
  IF Large(frame, i) THEN PacketizeFuA(frame[i])
  ELSE <<AggregatePayload(frame, i, AggregateEnd(frame, i))>>
NextOf(frame, i) == IF Large(frame, i) THEN i + 1 ELSE AggregateEnd(frame, i) + 1

\* That is a chain of packets from one NALU to a later one.
LEMMA GeneratesChain ==
  ASSUME NEW frame, Len(frame) \in Nat, NEW g
  PROVE  Generates(frame, g) <=>
           Chain(g, 1, Len(frame) + 1, {Len(frame) + 1},
                 [i \in 1..Len(frame) |-> HeadOf(frame, i)], [i \in 1..Len(frame) |-> NextOf(frame, i)])
<1> DEFINE n == Len(frame)
           head == [i \in 1..n |-> HeadOf(frame, i)]
           next == [i \in 1..n |-> NextOf(frame, i)]
           A(i) == IF i > n THEN <<>>
                   ELSE IF Len(frame[i]) > MaxPayloadLen
                        THEN PacketizeFuA(frame[i]) \o g[i + 1]
                        ELSE <<AggregatePayload(frame, i, AggregateEnd(frame, i))>>
                             \o g[AggregateEnd(frame, i) + 1]
           B(i) == IF i \in {n + 1} THEN <<>> ELSE head[i] \o g[next[i]]
<1>1. ASSUME NEW i \in 1..(n + 1) PROVE A(i) = B(i)
  <2>1. CASE i = n + 1
    <3>1. i > n
      BY <2>1
    <3> QED
      BY <2>1, <3>1
  <2>2. CASE i \in 1..n
    <3>1. ~(i > n) /\ i # n + 1
      BY <2>2
    <3>2. head[i] = HeadOf(frame, i) /\ next[i] = NextOf(frame, i)
      BY <2>2
    <3> HIDE DEF head, next
    <3>3. B(i) = HeadOf(frame, i) \o g[NextOf(frame, i)]
      BY <3>1, <3>2
    <3>4. A(i) = IF Large(frame, i) THEN PacketizeFuA(frame[i]) \o g[i + 1]
                 ELSE <<AggregatePayload(frame, i, AggregateEnd(frame, i))>>
                             \o g[AggregateEnd(frame, i) + 1]
      BY <3>1, Zenon DEF Large
    <3> HIDE DEF A, B
    <3>5. CASE Large(frame, i)
      BY <3>3, <3>4, <3>5 DEF HeadOf, NextOf
    <3>6. CASE ~Large(frame, i)
      BY <3>3, <3>4, <3>6 DEF HeadOf, NextOf
    <3> QED
      BY <3>5, <3>6
  <2> QED
    BY <2>1, <2>2
<1>2. Generates(frame, g) <=> g = [i \in 1..(n + 1) |-> A(i)]
  BY DEF Generates
<1>3. Chain(g, 1, n + 1, {n + 1}, head, next) <=> g = [i \in 1..(n + 1) |-> B(i)]
  BY DEF Chain
<1> HIDE DEF A, B
<1>4. [i \in 1..(n + 1) |-> A(i)] = [i \in 1..(n + 1) |-> B(i)]
  BY <1>1
<1> QED
  BY <1>2, <1>3, <1>4

\* Payloads that fit.
Payloads(p) == \A k \in 1..Len(p) : p[k] \in Seq(Byte) /\ Len(p[k]) \in 1..MaxPayloadLen

\* The packets that start with NALU i of a frame end with another one, and
\* hold the NALUs between them.
LEMMA HeadFacts ==
  ASSUME NEW frame, LegalFrame(frame), NEW i \in 1..Len(frame)
  PROVE  /\ NextOf(frame, i) \in (i + 1)..(Len(frame) + 1)
         /\ Assembles(HeadOf(frame, i), SubSeq(frame, i, NextOf(frame, i) - 1))
         /\ Payloads(HeadOf(frame, i)) /\ Len(HeadOf(frame, i)) \in Nat \ {0}
<1>1. /\ Len(frame) \in Nat /\ IsQueue(frame) /\ frame[i] \in Seq(Byte) /\ Len(frame[i]) \in Nat
      /\ i \in Nat \ {0} /\ i <= Len(frame)
  <2>1. Len(frame) \in Nat \ {0} /\ IsQueue(frame) /\ frame[i] \in Seq(Byte) /\ Len(frame[i]) \in Nat \ {0}
    BY FrameBasics
  <2> QED
    BY <2>1
<1>2. CASE Large(frame, i)
  <2>1. PICK p : p = PacketizeFuA(frame[i]) /\ p = HeadOf(frame, i)
    BY <1>2 DEF HeadOf
  <2>2. NextOf(frame, i) = i + 1
    BY <1>2 DEF NextOf
  <2>3. PICK off : Fragments(p, frame[i], off)
    BY <1>1, <1>2, <2>1, FragmentsMade DEF Large
  <2>4. Assembles(p, <<frame[i]>>) /\ Payloads(p)
    BY <1>1, <1>2, <2>3, FragmentsAssemble DEF Large, Payloads
  <2>5. Len(p) \in Nat \ {0}
    BY <2>3 DEF Fragments
  <2>6. SubSeq(frame, i, i) = <<frame[i]>>
    BY <1>1, Stretches
  <2>7. (i + 1) - 1 = i /\ i + 1 \in (i + 1)..(Len(frame) + 1)
    BY <1>1
  <2> QED
    BY <2>1, <2>2, <2>4, <2>5, <2>6, <2>7
<1>3. CASE ~Large(frame, i)
  <2>1. PICK k : k = AggregateEnd(frame, i)
    OBVIOUS
  <2>2. HeadOf(frame, i) = <<AggregatePayload(frame, i, k)>> /\ NextOf(frame, i) = k + 1
    BY <1>3, <2>1 DEF HeadOf, NextOf
  <2>3. Len(frame[i]) <= MaxPayloadLen
    BY <1>1, <1>3, PayloadBound DEF Large
  <2>4. k \in i..Len(frame) /\ AggregateSize(frame, i, k) <= MaxPayloadLen
    BY <1>1, <2>1, <2>3, AggregateEndFacts
  <2>5. k \in Nat /\ i <= k /\ k <= Len(frame)
    BY <1>1, <2>4
  <2>6. PICK x : x = AggregatePayload(frame, i, k)
    OBVIOUS
  <2>7. Assembles(<<x>>, SubSeq(frame, i, k)) /\ x \in Seq(Byte) /\ Len(x) \in 1..MaxPayloadLen
    BY <1>1, <2>4, <2>5, <2>6, PayloadMade
  <2>8. Payloads(<<x>>) /\ Len(<<x>>) \in Nat \ {0}
    BY <2>7 DEF Payloads
  <2>9. (k + 1) - 1 = k /\ k + 1 \in (i + 1)..(Len(frame) + 1)
    BY <1>1, <2>5
  <2> QED
    BY <2>2, <2>6, <2>7, <2>8, <2>9
<1> QED
  BY <1>2, <1>3

\* Payloads of two packets.
LEMMA PayloadsJoin ==
  ASSUME NEW p, NEW q, IsQueue(p), IsQueue(q), Payloads(p), Payloads(q)
  PROVE  Payloads(p \o q)
<1>1. PICK r : r = p \o q
  OBVIOUS
<1>2. TwoParts(r, p, q)
  BY <1>1, ConcatTwo, Zenon
<1>3. ASSUME NEW k \in 1..Len(r)
      PROVE  \/ \E i \in 1..Len(p) : r[k] = p[i]
             \/ \E i \in 1..Len(q) : r[k] = q[i]
  <2>1. PICK a \in Nat, b \in Nat : a = Len(p) /\ b = Len(q) /\ Len(r) = a + b
    BY <1>2 DEF TwoParts
  <2>2. CASE k <= a
    <3>1. k \in 1..Len(p)
      BY <2>1, <2>2
    <3> QED
      BY <1>2, <3>1 DEF TwoParts
  <2>3. CASE k > a
    <3>1. PICK i \in 1..b : k = a + i
      BY <2>1, <2>3, SMTT(60)
    <3>2. r[a + i] = q[i]
      BY <1>2, <2>1 DEF TwoParts
    <3> QED
      BY <2>1, <3>1, <3>2
  <2> QED
    BY <2>1, <2>2, <2>3
<1>4. Payloads(r)
  BY <1>3 DEF Payloads
<1> QED
  BY <1>1, <1>4

\* No payload holds no NALU.
LEMMA AssemblesNothing ==
  Assembles(<<>>, <<>>) /\ Payloads(<<>>)
<1>1. IsQueue(<<>>) /\ Len(<<>>) = 0
  BY ListedTasks
<1>2. ASSUME NEW q, IsQueue(q) PROVE q = q \o <<>>
  <2>1. PICK r : r = q \o <<>>
    OBVIOUS
  <2>2. IsQueue(r) /\ Len(r) = Len(q) + 0 /\ \A i \in 1..Len(q) : r[i] = q[i]
    BY <1>1, <1>2, <2>1, ConcatFacts
  <2>3. Len(q) \in Nat
    BY <1>2, QueueBasics
  <2>4. q = r
    BY <1>2, <2>2, <2>3, QueueEqual
  <2> QED
    BY <2>1, <2>4
<1>3. Assembles(<<>>, <<>>)
  BY <1>1, <1>2 DEF Assembles
<1>4. Payloads(<<>>)
  BY <1>1 DEF Payloads
<1> QED
  BY <1>3, <1>4

\* Packetize is correct: from the packets of a frame the receiver makes the
\* NALUs of the frame, and no payload is empty or too large.
LEMMA PacketizeFacts ==
  ASSUME NEW frame, LegalFrame(frame), NEW p, p = Packetize(AnnexB(frame))
  PROVE  Assembles(p, frame) /\ Payloads(p) /\ Len(p) \in Nat \ {0}
<1>1. /\ Len(frame) \in Nat /\ IsQueue(frame) /\ Len(frame) >= 1
  <2>1. Len(frame) \in Nat \ {0} /\ IsQueue(frame)
    BY FrameBasics
  <2> QED
    BY <2>1
<1>2. PICK n \in Nat \ {0} : n = Len(frame)
  BY <1>1
<1>3. PICK f : f = CHOOSE g : Generates(frame, g)
  OBVIOUS
<1>4. p = f[1]
  BY <1>3, NalusFound, PacketizeGenerates
<1> DEFINE head == [i \in 1..n |-> HeadOf(frame, i)]
           next == [i \in 1..n |-> NextOf(frame, i)]
<1>5. \A i \in 1..n : head[i] = HeadOf(frame, i) /\ next[i] = NextOf(frame, i)
  OBVIOUS
<1>6. \A i \in 1..(n + 1) : i \notin {n + 1} => next[i] \in (i + 1)..(n + 1)
  <2> SUFFICES ASSUME NEW i \in 1..(n + 1), i \notin {n + 1}
               PROVE  next[i] \in (i + 1)..(n + 1)
    OBVIOUS
  <2>1. i \in 1..n
    OBVIOUS
  <2>2. NextOf(frame, i) \in (i + 1)..(n + 1)
    BY <1>2, <2>1, HeadFacts
  <2> QED
    BY <1>5, <2>1, <2>2
<1>7. \A g : Generates(frame, g) <=> Chain(g, 1, n + 1, {n + 1}, head, next)
  BY <1>1, <1>2, GeneratesChain
<1> HIDE DEF head, next
<1>8. \E g : Chain(g, 1, n + 1, {n + 1}, head, next)
  <2>1. 1 \in Nat /\ n + 1 \in Nat /\ 1 <= n + 1
    OBVIOUS
  <2> QED
    BY <1>6, <2>1, ChainExists
<1>9. Chain(f, 1, n + 1, {n + 1}, head, next)
  BY <1>3, <1>7, <1>8
<1>10. f[n + 1] = <<>> /\ \A i \in 1..n : f[i] = HeadOf(frame, i) \o f[NextOf(frame, i)]
  <2>1. \A i \in 1..(n + 1) : f[i] = IF i \in {n + 1} THEN <<>> ELSE head[i] \o f[next[i]]
    BY <1>9 DEF Chain
  <2>2. n + 1 \in 1..(n + 1) /\ \A i \in 1..n : i \in 1..(n + 1) /\ i \notin {n + 1}
    OBVIOUS
  <2> QED
    BY <1>5, <2>1, <2>2
<1> DEFINE Good(i) == Assembles(f[i], SubSeq(frame, i, n)) /\ Payloads(f[i])
           G == {d \in Nat : d <= n => \A i \in (n + 1 - d)..(n + 1) : Good(i)}
<1>11. Good(n + 1)
  <2>1. SubSeq(frame, n + 1, n) = <<>>
    <3>1. n + 1 \in Nat \ {0} /\ n \in Nat /\ n + 1 <= n + 1 /\ n <= Len(frame) /\ n - (n + 1) + 1 = 0
      BY <1>2
    <3>2. IsQueue(SubSeq(frame, n + 1, n)) /\ Len(SubSeq(frame, n + 1, n)) = n - (n + 1) + 1
      BY <1>1, <3>1, SubSeqFacts
    <3> QED
      BY <3>1, <3>2, QueueBasics
  <2> QED
    BY <1>10, <2>1, AssemblesNothing
<1>12. ASSUME NEW i \in 1..n, \A j \in (i + 1)..(n + 1) : Good(j) PROVE Good(i)
  <2>1. PICK m \in (i + 1)..(n + 1) : m = NextOf(frame, i)
    BY <1>2, HeadFacts
  <2>2. PICK h : h = HeadOf(frame, i)
    OBVIOUS
  <2>3. Assembles(h, SubSeq(frame, i, m - 1)) /\ Payloads(h)
    BY <1>2, <2>1, <2>2, HeadFacts
  <2>4. Assembles(f[m], SubSeq(frame, m, n)) /\ Payloads(f[m])
    BY <1>12, <2>1
  <2>5. f[i] = h \o f[m]
    BY <1>10, <2>1, <2>2
  <2>6. SubSeq(frame, i, m - 1) \o SubSeq(frame, m, n) = SubSeq(frame, i, n)
    <3>1. PICK a \in Nat : a = m - 1 /\ a + 1 = m
      BY <2>1
    <3>2. i \in Nat \ {0} /\ a \in Nat /\ n \in Nat /\ i <= a + 1 /\ a <= n /\ n <= Len(frame)
      BY <1>2, <3>1
    <3>3. SubSeq(frame, i, a) \o SubSeq(frame, a + 1, n) = SubSeq(frame, i, n)
      BY <1>1, <3>2, Stretches
    <3> QED
      BY <3>1, <3>3
  <2>7. Assembles(h \o f[m], SubSeq(frame, i, m - 1) \o SubSeq(frame, m, n))
    BY <2>3, <2>4, AssemblesJoin
  <2>8. IsQueue(h) /\ IsQueue(f[m])
    BY <2>3, <2>4 DEF Assembles
  <2>9. Payloads(h \o f[m])
    BY <2>3, <2>4, <2>8, PayloadsJoin
  <2> QED
    BY <2>5, <2>6, <2>7, <2>9
<1> HIDE DEF Good
<1>13. 0 \in G
  <2>1. \A i \in (n + 1 - 0)..(n + 1) : i = n + 1
    OBVIOUS
  <2> QED
    BY <1>11, <2>1
<1>14. ASSUME NEW d \in G PROVE d + 1 \in G
  <2>1. d \in Nat /\ d + 1 \in Nat
    OBVIOUS
  <2> SUFFICES ASSUME d + 1 <= n, NEW i \in (n + 1 - (d + 1))..(n + 1) PROVE Good(i)
    BY <2>1
  <2>2. \A j \in (n + 1 - d)..(n + 1) : Good(j)
    BY <2>1
  <2>3. CASE i \in (n + 1 - d)..(n + 1)
    BY <2>2, <2>3
  <2>4. CASE i \notin (n + 1 - d)..(n + 1)
    <3>1. i \in 1..n /\ i + 1 = n + 1 - d
      BY <2>1, <2>4
    <3> QED
      BY <1>12, <2>2, <3>1
  <2> QED
    BY <2>3, <2>4
<1>15. Good(1)
  <2>1. Nat \subseteq G
    <3> HIDE DEF G
    <3> QED
      BY <1>13, <1>14, SetInduction
  <2>2. n \in G
    <3> HIDE DEF G
    <3> QED
      BY <2>1
  <2>3. 1 \in (n + 1 - n)..(n + 1)
    OBVIOUS
  <2>4. n \in Nat /\ n <= n
    OBVIOUS
  <2> QED
    BY <2>2, <2>3, <2>4
<1>16. Assembles(p, frame) /\ Payloads(p)
  <2>1. SubSeq(frame, 1, n) = frame
    BY <1>1, <1>2, Stretches
  <2> QED
    BY <1>4, <1>15, <2>1 DEF Good
<1>17. Len(p) \in Nat \ {0}
  <2>1. 1 \in 1..n
    OBVIOUS
  <2>2. PICK h : h = HeadOf(frame, 1)
    OBVIOUS
  <2>3. Payloads(h) /\ Len(h) \in Nat \ {0} /\ IsQueue(h)
    BY <1>2, <2>1, <2>2, HeadFacts DEF Assembles
  <2>4. PICK m \in 2..(n + 1) : m = NextOf(frame, 1)
    <3>1. NextOf(frame, 1) \in (1 + 1)..(n + 1)
      BY <1>2, <2>1, HeadFacts
    <3> QED
      BY <3>1
  <2>5. IsQueue(f[m])
    <3>1. m \in (n + 1 - n)..(n + 1) /\ n \in Nat /\ n <= n
      OBVIOUS
    <3>2. n \in G
      <4> HIDE DEF G
      <4>1. Nat \subseteq G
        BY <1>13, <1>14, SetInduction
      <4> QED
        BY <4>1
    <3>3. Good(m)
      BY <3>1, <3>2
    <3> QED
      BY <3>3 DEF Good, Assembles
  <2>6. p = h \o f[m]
    BY <1>4, <1>10, <2>1, <2>2, <2>4
  <2>7. Len(p) = Len(h) + Len(f[m]) /\ Len(f[m]) \in Nat
    BY <2>3, <2>5, <2>6, ConcatFacts, QueueBasics
  <2> QED
    BY <2>3, <2>7
<1> QED
  BY <1>16, <1>17

\* Whatever a frame is, and wherever its start codes and sizes lie, the receiver
\* makes of the payloads that are cut from it the NALUs of that frame.
THEOREM RoundTrip ==
  ASSUME NEW frame, LegalFrame(frame)
  PROVE  FoldLeft(Depacketize, <<>>, Packetize(AnnexB(frame))) = frame
<1>1. PICK p : p = Packetize(AnnexB(frame))
  OBVIOUS
<1>2. Assembles(p, frame)
  BY <1>1, PacketizeFacts
<1>3. IsQueue(p)
  BY <1>2 DEF Assembles
<1>4. PICK g : g[0] = <<>> /\ DepacketizeRuns(g, p) /\ FoldLeft(Depacketize, <<>>, p) = g[Len(p)]
  BY <1>3, DepacketizeFold
<1>5. IsQueue(<<>>)
  BY ListedTasks
<1>6. g[Len(p)] = <<>> \o frame
  BY <1>2, <1>4, <1>5 DEF Assembles
<1>7. <<>> \o frame = frame
  <2>1. IsQueue(frame)
    BY FrameBasics
  <2>2. PICK r : r = <<>> \o frame
    OBVIOUS
  <2>3. IsQueue(r) /\ Len(r) = 0 + Len(frame) /\ \A i \in 1..Len(frame) : r[0 + i] = frame[i]
    <3>1. Len(<<>>) = 0
      OBVIOUS
    <3> QED
      BY <1>5, <2>1, <2>2, <3>1, ConcatFacts
  <2>4. Len(frame) \in Nat
    BY <2>1, QueueBasics
  <2>5. r = frame
    BY <2>1, <2>3, <2>4, QueueEqual
  <2> QED
    BY <2>2, <2>5
<1> QED
  BY <1>1, <1>4, <1>6, <1>7

-----------------------------------------------------------------------------
(* The packets: what is read from one is what was written.                 *)

\* The entry of a video packet: its number, in the extension.
NumberEntry(value) ==
  [id |-> TransportSeqId, length |-> TransportSeqSize, value |-> value, offset |-> ExtensionsOffset + 1]

\* The numbers of the header extension of a packet, once and for all.
LEMMA ExtensionNumbers ==
  /\ TransportSeqSize \in 1..MaxValueSize /\ TransportSeqId \in 1..255
  /\ TransportSeqId # InvalidId /\ ~(TransportSeqId > OneByteMaxId) /\ ~(TransportSeqSize > OneByteMaxLength)
  /\ 0 + 1 + TransportSeqSize = 3 /\ ExtensionsOffset + 0 + 1 = ExtensionsOffset + 1
  /\ ExtensionsOffset + 4 * ((3 + 3) \div 4) = 20
BY DEF TransportSeqSize, MaxValueSize, TransportSeqId, InvalidId, OneByteMaxId, OneByteMaxLength,
       ExtensionsOffset, FixedHeaderSize

\* There is room for the extension and the payload.
LEMMA CapacityHolds ==
  Capacity \in Nat /\ ~(3 > Capacity) /\ 20 + MaxPayloadLen <= Capacity
<1>1. Capacity \in Nat /\ Capacity >= 12
  BY RtpPacketAssumption DEF RtpPacketAssumption
<1>2. MaxPayloadLen + 20 <= Capacity
  BY VideoPathAssumption DEF VideoPathAssumption
<1> QED
  BY <1>1, <1>2, PayloadBound

\* The extension is registered with its id.
LEMMA ExtensionsIs ==
  Extensions["transport_seq"] = TransportSeqId
<1>1. NoExtensions = [type \in {"transport_seq"} |-> InvalidId]
  BY DEF NoExtensions, ExtensionTypes
<1>2. ~ \E other \in ExtensionTypes : NoExtensions[other] = TransportSeqId
  BY <1>1, ExtensionNumbers DEF ExtensionTypes
<1>3. Extensions = [NoExtensions EXCEPT !["transport_seq"] = TransportSeqId]
  BY <1>2, ExtensionNumbers DEF Extensions, Register, ExtensionTypes
<1> QED
  BY <1>1, <1>3

\* A packet with room for the extension.
LEMMA Reserved ==
  ASSUME NEW p, p = SetExtension(NewPacket(Extensions), "transport_seq", TransportSeqSize, 0)
  PROVE  p = [ids |-> Extensions, marker |-> FALSE, pt |-> 0, seq |-> 0, ts |-> 0, ssrc |-> 0,
              entries |-> <<NumberEntry(0)>>, twoByte |-> FALSE, extensionSize |-> 3,
              payloadOffset |-> 20, payload |-> <<>>]
<1>1. PICK n : n = NewPacket(Extensions)
  OBVIOUS
<1>2. n = [ids |-> Extensions, marker |-> FALSE, pt |-> 0, seq |-> 0, ts |-> 0, ssrc |-> 0,
           entries |-> <<>>, twoByte |-> FALSE, extensionSize |-> 0,
           payloadOffset |-> FixedHeaderSize, payload |-> <<>>]
  BY <1>1 DEF NewPacket
<1>3. p = WriteRawExtension(n, TransportSeqId, TransportSeqSize, 0)
  <2>1. n.ids["transport_seq"] = TransportSeqId
    BY <1>2, ExtensionsIs
  <2> QED
    BY <1>1, <2>1, ExtensionNumbers DEF SetExtension
<1>4. {i \in DOMAIN n.entries : n.entries[i].id = TransportSeqId} = {}
  BY <1>2
<1>5. n.extensionSize = 0 /\ n.payload = <<>>
  BY <1>2
<1>6. ~(TransportSeqId > OneByteMaxId \/ TransportSeqSize > OneByteMaxLength)
  BY ExtensionNumbers
<1>7. p = AppendExtension([n EXCEPT !.twoByte = FALSE], TransportSeqId, TransportSeqSize, 0)
  BY <1>3, <1>4, <1>5, <1>6 DEF WriteRawExtension
<1>8. PICK m : m = [n EXCEPT !.twoByte = FALSE]
  OBVIOUS
<1>9. m = n
  <2>1. m = [ids |-> Extensions, marker |-> FALSE, pt |-> 0, seq |-> 0, ts |-> 0, ssrc |-> 0,
             entries |-> <<>>, twoByte |-> FALSE, extensionSize |-> 0,
             payloadOffset |-> FixedHeaderSize, payload |-> <<>>]
    BY <1>2, <1>8
  <2> QED
    BY <1>2, <2>1, Zenon
<1>10. p = WithExtensionSize([n EXCEPT !.entries = Append(@, NumberEntry(0))], 3)
  <2>1. n.twoByte = FALSE
    BY <1>2
  <2> QED
    BY <1>5, <1>7, <1>8, <1>9, <2>1, ExtensionNumbers, CapacityHolds, ZenonT(60)
       DEF AppendExtension, NumberEntry
<1>11. p = [[n EXCEPT !.entries = Append(@, NumberEntry(0))] EXCEPT !.extensionSize = 3, !.payloadOffset = 20]
  BY <1>10, ExtensionNumbers DEF WithExtensionSize
<1>12. PICK q : q = Append(n.entries, NumberEntry(0))
  OBVIOUS
<1>13. q = <<NumberEntry(0)>>
  BY <1>2, <1>12
<1>14. p = [[n EXCEPT !.entries = q] EXCEPT !.extensionSize = 3, !.payloadOffset = 20]
  BY <1>11, <1>12, Zenon
<1>15. p = [ids |-> Extensions, marker |-> FALSE, pt |-> 0, seq |-> 0, ts |-> 0, ssrc |-> 0,
            entries |-> q, twoByte |-> FALSE, extensionSize |-> 3,
            payloadOffset |-> 20, payload |-> <<>>]
  BY <1>2, <1>14
<1> QED
  BY <1>13, <1>15, Zenon

\* A video packet, field by field.
LEMMA VideoPacketIs ==
  ASSUME NEW ts, NEW seq, NEW payload, NEW last
  PROVE  VideoPacket(ts, seq, payload, last) =
           [ids |-> Extensions, marker |-> last, pt |-> PayloadTypes.video, seq |-> seq, ts |-> ts,
            ssrc |-> Ssrc.video, entries |-> <<NumberEntry(seq)>>, twoByte |-> FALSE,
            extensionSize |-> 3, payloadOffset |-> 20, payload |-> payload]
<1>1. PICK r : r = SetExtension(NewPacket(Extensions), "transport_seq", TransportSeqSize, 0)
  OBVIOUS
<1>2. r = [ids |-> Extensions, marker |-> FALSE, pt |-> 0, seq |-> 0, ts |-> 0, ssrc |-> 0,
              entries |-> <<NumberEntry(0)>>, twoByte |-> FALSE, extensionSize |-> 3,
              payloadOffset |-> 20, payload |-> <<>>]
  BY <1>1, Reserved
<1>3. PICK p : p = [WithPayload(r, payload)
                   EXCEPT !.pt = PayloadTypes.video, !.ssrc = Ssrc.video, !.ts = ts,
                          !.marker = last, !.seq = seq]
  OBVIOUS
<1>4. p = [ids |-> Extensions, marker |-> last, pt |-> PayloadTypes.video, seq |-> seq, ts |-> ts,
            ssrc |-> Ssrc.video, entries |-> <<NumberEntry(0)>>, twoByte |-> FALSE,
            extensionSize |-> 3, payloadOffset |-> 20, payload |-> payload]
  BY <1>2, <1>3 DEF WithPayload
<1>5. VideoPacket(ts, seq, payload, last) = SetExtension(p, "transport_seq", TransportSeqSize, seq)
  BY <1>1, <1>3, Zenon DEF VideoPacket
<1>6. SetExtension(p, "transport_seq", TransportSeqSize, seq)
        = WriteRawExtension(p, TransportSeqId, TransportSeqSize, seq)
  <2>1. p.ids["transport_seq"] = TransportSeqId
    BY <1>4, ExtensionsIs
  <2> QED
    BY <2>1, ExtensionNumbers DEF SetExtension
<1>7. PICK e : e = p.entries
  OBVIOUS
<1>8. e = <<NumberEntry(0)>>
  BY <1>4, <1>7
<1>9. NumberEntry(0).id = TransportSeqId /\ NumberEntry(0).length = TransportSeqSize
  BY DEF NumberEntry
<1>10. DOMAIN e = {1} /\ e[1] = NumberEntry(0)
  BY <1>8
<1>11. {i \in DOMAIN p.entries : p.entries[i].id = TransportSeqId} = {1}
  BY <1>7, <1>9, <1>10
<1>12. WriteRawExtension(p, TransportSeqId, TransportSeqSize, seq) =
         [p EXCEPT !.entries = [i \in DOMAIN @ |-> IF i \in {1} /\ @[i].length = TransportSeqSize
                                       THEN [@[i] EXCEPT !.value = seq] ELSE @[i]]]
  <2>1. {1} # {}
    OBVIOUS
  <2> QED
    BY <1>11, <2>1, Zenon DEF WriteRawExtension
<1>13. [i \in DOMAIN e |-> IF i \in {1} /\ e[i].length = TransportSeqSize
                                       THEN [e[i] EXCEPT !.value = seq] ELSE e[i]] = <<NumberEntry(seq)>>
  <2>1. [NumberEntry(0) EXCEPT !.value = seq] = NumberEntry(seq)
    BY DEF NumberEntry
  <2>2. [i \in {1} |-> NumberEntry(seq)] = <<NumberEntry(seq)>>
    OBVIOUS
  <2> QED
    BY <1>9, <1>10, <2>1, <2>2
<1>14. PICK q : q = [i \in DOMAIN e |-> IF i \in {1} /\ e[i].length = TransportSeqSize
                                       THEN [e[i] EXCEPT !.value = seq] ELSE e[i]]
  OBVIOUS
<1>15. WriteRawExtension(p, TransportSeqId, TransportSeqSize, seq) = [p EXCEPT !.entries = q]
  BY <1>7, <1>12, <1>14
<1>16. [p EXCEPT !.entries = q] =
         [ids |-> Extensions, marker |-> last, pt |-> PayloadTypes.video, seq |-> seq, ts |-> ts,
            ssrc |-> Ssrc.video, entries |-> q, twoByte |-> FALSE,
            extensionSize |-> 3, payloadOffset |-> 20, payload |-> payload]
  <2>1. PICK d, f, n, o : d = <<NumberEntry(0)>> /\ f = FALSE /\ n = 3 /\ o = 20
    OBVIOUS
  <2>2. p = [ids |-> Extensions, marker |-> last, pt |-> PayloadTypes.video, seq |-> seq, ts |-> ts,
            ssrc |-> Ssrc.video, entries |-> d, twoByte |-> f,
            extensionSize |-> n, payloadOffset |-> o, payload |-> payload]
    BY <1>4, <2>1, Zenon
  <2>3. [p EXCEPT !.entries = q] =
           [ids |-> Extensions, marker |-> last, pt |-> PayloadTypes.video, seq |-> seq, ts |-> ts,
            ssrc |-> Ssrc.video, entries |-> q, twoByte |-> f,
            extensionSize |-> n, payloadOffset |-> o, payload |-> payload]
    BY <2>2
  <2> QED
    BY <2>1, <2>3, Zenon
<1> QED
  BY <1>5, <1>6, <1>13, <1>14, <1>15, <1>16, Zenon

\* What is read from a video packet.
LEMMA VideoPacketFacts ==
  ASSUME NEW ts, NEW seq, NEW payload, NEW last, NEW p, p = VideoPacket(ts, seq, payload, last)
  PROVE  /\ p.ts = ts /\ p.seq = seq /\ p.payload = payload /\ p.marker = last
         /\ p.ssrc = Ssrc.video /\ p.pt = PayloadTypes.video
         /\ Size(p) = 20 + Len(payload) /\ PacketIds(p) = {seq}
<1>1. p = [ids |-> Extensions, marker |-> last, pt |-> PayloadTypes.video, seq |-> seq, ts |-> ts,
            ssrc |-> Ssrc.video, entries |-> <<NumberEntry(seq)>>, twoByte |-> FALSE,
            extensionSize |-> 3, payloadOffset |-> 20, payload |-> payload]
  BY VideoPacketIs
<1>2. /\ p.ts = ts /\ p.seq = seq /\ p.payload = payload /\ p.marker = last
      /\ p.ssrc = Ssrc.video /\ p.pt = PayloadTypes.video
  BY <1>1
<1>3. Size(p) = 20 + Len(payload)
  BY <1>1 DEF Size
<1>4. p.ids["transport_seq"] = TransportSeqId /\ p.entries = <<NumberEntry(seq)>>
  BY <1>1, ExtensionsIs
<1>5. ToSet(<<NumberEntry(seq)>>) = {NumberEntry(seq)}
  BY DEF ToSet
<1>6. NumberEntry(seq).id = TransportSeqId /\ NumberEntry(seq).value = seq
  BY DEF NumberEntry
<1>7. FindExtension(p, "transport_seq") = {NumberEntry(seq)}
  BY <1>4, <1>5, <1>6, ExtensionNumbers DEF FindExtension
<1>8. PacketIds(p) = {seq}
  BY <1>6, <1>7 DEF PacketIds
<1> QED
  BY <1>2, <1>3, <1>8

\* The modulus of sequence numbers.
LEMMA SpaceFacts ==
  SeqSpace \in Nat \ {0} /\ FirstSeq \in Nat /\ CacheSize \in Nat \ {0}
<1>1. SeqSpace \in Nat \ {0}
  BY RtcpReceiverAssumption DEF RtcpReceiverAssumption
<1> QED
  BY <1>1, VideoPathAssumption DEF VideoPathAssumption

\* A number of the receiver is found again.
LEMMA WireFacts ==
  ASSUME NEW n \in Nat
  PROVE  Wire(n) \in 0..(SeqSpace - 1) /\ (n < SeqSpace => Number(Wire(n)) = n)
<1>1. PICK s \in Nat \ {0}, b \in Nat : s = SeqSpace /\ b = FirstSeq
  BY SpaceFacts
<1>2. (b + n) \in Int /\ n \in Int
  OBVIOUS
<1>3. (b + n) % s \in 0..(s - 1)
  BY <1>2, ModFacts
<1>4. ASSUME n < s PROVE (((b + n) % s) - b) % s = n
  <2>1. PICK q \in Int : b + n = q * s + ((b + n) % s)
    BY <1>2, ModFacts
  <2>2. PICK r \in Int : r = (b + n) % s
    BY <1>3
  <2>3. PICK k \in Int : k = -q
    OBVIOUS
  <2>4. r - b = n + k * s
    <3>1. PICK z \in Int : z = q * s
      OBVIOUS
    <3>2. k * s = -z
      BY <2>3, <3>1
    <3>3. b + n = z + r
      BY <2>1, <2>2, <3>1
    <3> QED
      BY <3>2, <3>3
  <2>5. (n + k * s) % s = n % s
    BY <1>2, ModShift
  <2>6. n % s = n
    <3>1. n \in 0..(s - 1) /\ 0 \in Int /\ 0 * s + n = n
      BY <1>4
    <3>2. (0 * s + n) % s = n
      BY <3>1, ModUnique
    <3> QED
      BY <3>1, <3>2
  <2> QED
    BY <2>2, <2>4, <2>5, <2>6
<1> QED
  BY <1>1, <1>3, <1>4 DEF Wire, Number

\* A step of i numbers on the wire.
LEMMA WireStep ==
  ASSUME NEW n \in Nat, NEW i \in Nat
  PROVE  (Wire(n) + i) % SeqSpace = Wire(n + i)
<1>1. PICK s \in Nat \ {0}, b \in Nat : s = SeqSpace /\ b = FirstSeq
  BY SpaceFacts
<1>2. b + n \in Int /\ b + (n + i) \in Int
  OBVIOUS
<1>3. PICK q \in Int, r \in Int : b + n = q * s + r /\ r = (b + n) % s
  <2>1. (b + n) % s \in 0..(s - 1) /\ \E q \in Int : b + n = q * s + ((b + n) % s)
    BY <1>2, ModFacts
  <2>2. PICK r \in Int : r = (b + n) % s
    BY <2>1
  <2>3. PICK q \in Int : b + n = q * s + r
    BY <2>1, <2>2
  <2> QED
    BY <2>2, <2>3
<1>4. PICK k \in Int : k = -q
  OBVIOUS
<1>5. r + i = (b + (n + i)) + k * s
  <2>1. PICK z \in Int : z = q * s
    OBVIOUS
  <2>2. k * s = -z
    BY <1>4, <2>1
  <2>3. b + n = z + r
    BY <1>3, <2>1
  <2> QED
    BY <2>2, <2>3
<1>6. ((b + (n + i)) + k * s) % s = (b + (n + i)) % s
  BY <1>2, ModShift
<1> QED
  BY <1>1, <1>3, <1>5, <1>6 DEF Wire

\* A number that is sent in two bytes.
LEMMA Twice ==
  ASSUME NEW n \in Nat
  PROVE  (n \div 256) * 256 + (n % 256) = n
<1>1. 256 \in Nat \ {0}
  OBVIOUS
<1>2. n = ((n \div 256) * 256) + (n % 256)
  BY <1>1, DivFacts
<1> QED
  BY <1>2

\* What an rtx packet is of.
Repeats(p, q) ==
  /\ p.ssrc = Ssrc.rtx /\ p.pt = PayloadTypes.rtx
  /\ p.payload = <<q.seq \div 256, q.seq % 256>> \o q.payload
  /\ p.ts = q.ts /\ p.marker = q.marker /\ p.payloadOffset = FixedHeaderSize

\* The receiver finds the number and the payload of the packet it repeats.
LEMMA RepeatsFacts ==
  ASSUME NEW p, NEW q, Repeats(p, q), q.seq \in Nat, IsQueue(q.payload)
  PROVE  /\ Unwrapped(p) = [n |-> Number(q.seq), payload |-> q.payload]
         /\ Size(p) = 14 + Len(q.payload) /\ Len(q.payload) \in Nat
<1>0. PICK n \in Nat : n = q.seq
  OBVIOUS
<1>1. PICK x, h : x = q.payload /\ h = <<n \div 256, n % 256>>
  OBVIOUS
<1>2. IsQueue(x) /\ IsQueue(h) /\ Len(h) = 2 /\ h[1] = n \div 256 /\ h[2] = n % 256
  BY <1>1, ListedTasks
<1>3. PICK r : r = h \o x
  OBVIOUS
<1>4. p.payload = r
  BY <1>0, <1>1, <1>3 DEF Repeats
<1>5. PICK l \in Nat : l = Len(x)
  BY <1>2, QueueBasics
<1>6. TwoParts(r, h, x)
  BY <1>2, <1>3, ConcatTwo, Zenon
<1>7. IsQueue(r) /\ Len(r) = 2 + l /\ r[1] = n \div 256 /\ r[2] = n % 256
      /\ \A i \in 1..l : r[2 + i] = x[i]
  <2>1. IsQueue(r) /\ Len(r) = 2 + l /\ \A i \in 1..l : r[2 + i] = x[i]
    BY <1>2, <1>5, <1>6 DEF TwoParts
  <2>2. 1 \in 1..Len(h) /\ 2 \in 1..Len(h)
    BY <1>2
  <2>3. r[1] = h[1] /\ r[2] = h[2]
    BY <1>6, <2>2 DEF TwoParts
  <2> QED
    BY <1>2, <2>1, <2>3
<1>8. SubSeq(r, 3, Len(r)) = x
  <2>1. PICK y : y = SubSeq(r, 3, Len(r))
    OBVIOUS
  <2>2. IsQueue(y) /\ Len(y) = (2 + l) - 3 + 1 /\ \A j \in 1..((2 + l) - 3 + 1) : y[j] = r[3 + j - 1]
    <3>1. 3 \in Nat \ {0} /\ 2 + l \in Nat /\ 3 <= (2 + l) + 1 /\ 2 + l <= Len(r)
      BY <1>7
    <3> QED
      BY <1>7, <2>1, <3>1, SubSeqFacts
  <2>3. (2 + l) - 3 + 1 = l /\ \A j \in 1..l : 3 + j - 1 = 2 + j
    OBVIOUS
  <2>4. Len(y) = Len(x) /\ \A j \in 1..l : y[j] = x[j]
    BY <1>5, <1>7, <2>2, <2>3
  <2>5. y = x
    BY <1>2, <1>5, <2>2, <2>4, QueueEqual
  <2> QED
    BY <2>1, <2>5
<1>9. ~(p.ssrc = Ssrc.video)
  BY SsrcAssumption DEF SsrcAssumption, Repeats
<1>10. r[1] * 256 + r[2] = n
  BY <1>7, Twice
<1>11. Unwrapped(p) = [n |-> Number(n), payload |-> x]
  BY <1>4, <1>8, <1>9, <1>10, ZenonT(60) DEF Unwrapped
<1>12. Size(p) = 14 + l
  <2>1. Size(p) = 12 + Len(r)
    BY <1>4 DEF Size, Repeats, FixedHeaderSize
  <2> QED
    BY <1>7, <2>1
<1> QED
  BY <1>0, <1>1, <1>5, <1>11, <1>12

-----------------------------------------------------------------------------
(* The numbers: every packet of every frame has its own.                   *)

\* The payloads of a frame, how many each of the frames fr has, and the number
\* of the first packet of each: after the last frame, of the next one.
CutOf(frame) == Packetize(AnnexB(frame))
Counts(fr) == [f \in 1..Len(fr) |-> Len(CutOf(fr[f]))]
Starts(fr) == CHOOSE s : Ends(s, Counts(fr), Len(fr))

\* The frames of the encoder are legal.
LEMMA FramesAreLegal ==
  ASSUME NEW frame \in Frames
  PROVE  LegalFrame(frame)
BY FramesAssumption DEF FramesAssumption, LegalFrame

\* What Packetize makes of a frame.
LEMMA CutFacts ==
  ASSUME NEW frame \in Frames
  PROVE  /\ IsQueue(CutOf(frame)) /\ Len(CutOf(frame)) \in Nat \ {0}
         /\ \A k \in 1..Len(CutOf(frame)) :
              /\ CutOf(frame)[k] \in Seq(Byte) /\ Len(CutOf(frame)[k]) \in 1..MaxPayloadLen
         /\ FoldLeft(Depacketize, <<>>, CutOf(frame)) = frame
<1>1. LegalFrame(frame)
  BY FramesAreLegal
<1>2. PICK p : p = Packetize(AnnexB(frame)) /\ p = CutOf(frame)
  BY DEF CutOf
<1>3. Assembles(p, frame) /\ Payloads(p) /\ Len(p) \in Nat \ {0}
  BY <1>1, <1>2, PacketizeFacts
<1>4. FoldLeft(Depacketize, <<>>, p) = frame
  BY <1>1, <1>2, RoundTrip
<1> QED
  BY <1>2, <1>3, <1>4 DEF Assembles, Payloads

\* The parts lie in one way only.
LEMMA EndsUnique ==
  ASSUME NEW n \in Nat, NEW l, NEW a, NEW b, Ends(a, l, n), NEW m \in Nat, n <= m, NEW h,
         Ends(b, h, m), \A k \in 1..n : l[k] = h[k]
  PROVE  \A k \in 1..(n + 1) : a[k] = b[k]
<1> DEFINE G == {k \in Nat : k <= n => a[k + 1] = b[k + 1]}
<1>1. a[1] = 0 /\ b[1] = 0 /\ (\A k \in 1..n : a[k + 1] = a[k] + l[k])
      /\ \A k \in 1..m : b[k + 1] = b[k] + h[k]
  BY DEF Ends
<1>2. 0 \in G
  <2>1. 0 + 1 = 1
    OBVIOUS
  <2> QED
    BY <1>1, <2>1
<1>3. ASSUME NEW k \in G PROVE k + 1 \in G
  <2>1. k \in Nat /\ k + 1 \in Nat
    OBVIOUS
  <2> SUFFICES ASSUME k + 1 <= n PROVE a[(k + 1) + 1] = b[(k + 1) + 1]
    BY <2>1
  <2>2. a[k + 1] = b[k + 1]
    BY <2>1
  <2>3. k + 1 \in 1..n /\ k + 1 \in 1..m
    BY <2>1
  <2> QED
    BY <1>1, <2>2, <2>3
<1>4. ASSUME NEW k \in 1..(n + 1) PROVE a[k] = b[k]
  <2>1. Nat \subseteq G
    <3> HIDE DEF G
    <3> QED
      BY <1>2, <1>3, SetInduction
  <2>2. k - 1 \in Nat /\ k - 1 <= n /\ (k - 1) + 1 = k
    OBVIOUS
  <2>3. k - 1 \in G
    <3> HIDE DEF G
    <3> QED
      BY <2>1, <2>2
  <2> QED
    BY <2>2, <2>3
<1> QED
  BY <1>4

\* Where the packets of each frame start.
LEMMA StartsFacts ==
  ASSUME NEW fr \in Seq(Frames)
  PROVE  /\ Len(fr) \in Nat /\ \A f \in 1..Len(fr) : fr[f] \in Frames
         /\ Counts(fr) \in [1..Len(fr) -> Nat \ {0}]
         /\ Counts(fr) \in [1..Len(fr) -> Nat]
         /\ Ends(Starts(fr), Counts(fr), Len(fr))
<1>1. Len(fr) \in Nat /\ \A f \in 1..Len(fr) : fr[f] \in Frames
  BY LenProperties, ElementOfSeq
<1>2. \A f \in 1..Len(fr) : Len(CutOf(fr[f])) \in Nat \ {0}
  BY <1>1, CutFacts
<1>3. Counts(fr) \in [1..Len(fr) -> Nat \ {0}]
  BY <1>2 DEF Counts
<1>4. Counts(fr) \in [1..Len(fr) -> Nat]
  BY <1>2 DEF Counts
<1>5. \E s : Ends(s, Counts(fr), Len(fr))
  BY <1>1, <1>4, EndsExist
<1>6. Ends(Starts(fr), Counts(fr), Len(fr))
  BY <1>5 DEF Starts
<1> QED
  BY <1>1, <1>3, <1>4, <1>6

\* Packet k of frame f, and its number.
Place(fr, f, k) == f \in 1..Len(fr) /\ k \in 1..Len(CutOf(fr[f]))
NumberAt(fr, f, k) == Starts(fr)[f] + k - 1
PacketAt(fr, f, k) ==
  VideoPacket(f, Wire(NumberAt(fr, f, k)), CutOf(fr[f])[k], k = Len(CutOf(fr[f])))

\* So many packets the frames have.
CountOf(fr) == Starts(fr)[Len(fr) + 1]

\* Every packet of the frames has a number of its own, below the count.
LEMMA NumberFacts ==
  ASSUME NEW fr \in Seq(Frames)
  PROVE  /\ CountOf(fr) \in Nat
         /\ \A f, k : Place(fr, f, k) => NumberAt(fr, f, k) \in 0..(CountOf(fr) - 1)
         /\ \A f, k, g, j : Place(fr, f, k) /\ Place(fr, g, j) /\ NumberAt(fr, f, k) = NumberAt(fr, g, j)
                               => f = g /\ k = j
<1>1. PICK n \in Nat : n = Len(fr)
  BY StartsFacts
<1>2. PICK l \in [1..n -> Nat] : l = Counts(fr) /\ \A f \in 1..n : l[f] = Len(CutOf(fr[f]))
  BY <1>1, StartsFacts DEF Counts
<1>3. PICK s : s = Starts(fr) /\ Ends(s, l, n)
  BY <1>1, <1>2, StartsFacts
<1>4. s \in [1..(n + 1) -> Nat] /\ \A f \in 1..n : s[f + 1] = s[f] + l[f]
  BY <1>3 DEF Ends
<1>5. PICK c \in Nat : c = s[n + 1] /\ c = CountOf(fr)
  <2>1. n + 1 \in 1..(n + 1)
    OBVIOUS
  <2>2. s[n + 1] \in Nat
    BY <1>4, <2>1
  <2> QED
    BY <1>1, <1>3, <2>2 DEF CountOf
<1>6. ASSUME NEW f, NEW k, Place(fr, f, k)
      PROVE  /\ f \in 1..n /\ k \in 1..l[f] /\ s[f] \in Nat /\ l[f] \in Nat
             /\ NumberAt(fr, f, k) = s[f] + k - 1 /\ NumberAt(fr, f, k) \in 0..(c - 1)
  <2>1. f \in 1..n /\ k \in 1..l[f]
    BY <1>1, <1>2, <1>6 DEF Place
  <2>2. s[f] \in Nat /\ l[f] \in Nat /\ s[f + 1] = s[f] + l[f]
    <3>1. f \in 1..(n + 1)
      BY <2>1
    <3> QED
      BY <1>2, <1>4, <2>1, <3>1
  <2>3. s[f + 1] <= s[n + 1]
    <3>1. f + 1 \in 1..(n + 1) /\ n + 1 \in 1..(n + 1) /\ f + 1 <= n + 1
      BY <2>1
    <3> QED
      BY <1>3, <3>1, EndsGrow
  <2>4. NumberAt(fr, f, k) = s[f] + k - 1
    BY <1>3 DEF NumberAt
  <2>5. PICK a \in Nat, b \in Nat : a = s[f] /\ b = l[f]
    BY <2>2
  <2>6. a + b <= c
    BY <1>5, <2>2, <2>3, <2>5
  <2>7. k \in 1..b
    BY <2>1, <2>5
  <2>8. a + k - 1 \in 0..(c - 1)
    BY <2>6, <2>7
  <2> QED
    BY <2>1, <2>2, <2>4, <2>5, <2>8
<1>7. ASSUME NEW f, NEW k, NEW g, NEW j, Place(fr, f, k), Place(fr, g, j),
             NumberAt(fr, f, k) = NumberAt(fr, g, j)
      PROVE  f = g /\ k = j
  <2>1. /\ f \in 1..n /\ k \in 1..l[f] /\ s[f] \in Nat /\ l[f] \in Nat
        /\ NumberAt(fr, f, k) = s[f] + k - 1
    BY <1>6, <1>7
  <2>2. /\ g \in 1..n /\ j \in 1..l[g] /\ s[g] \in Nat /\ l[g] \in Nat
        /\ NumberAt(fr, g, j) = s[g] + j - 1
    BY <1>6, <1>7
  <2>3. PICK a \in Nat, b \in Nat : a = s[f] /\ b = s[g]
    BY <2>1, <2>2
  <2>4. k \in Int /\ j \in Int
    BY <2>1, <2>2
  <2>5. a + k - 1 = b + j - 1
    BY <1>7, <2>1, <2>2, <2>3
  <2>6. PICK p \in Int : p = a + k /\ p - a = k /\ p - b = j
    BY <2>4, <2>5
  <2>7. p - s[f] \in 1..l[f] /\ p - s[g] \in 1..l[g]
    BY <2>1, <2>2, <2>3, <2>6
  <2>8. f = g
    BY <1>3, <2>1, <2>2, <2>7, EndsPlace
  <2> QED
    BY <2>3, <2>6, <2>8
<1> QED
  BY <1>5, <1>6, <1>7

\* gr has one more frame: the packets of the others stay what they are.
OneMore(fr, frame, gr) ==
  /\ gr \in Seq(Frames) /\ Len(gr) = Len(fr) + 1 /\ gr[Len(fr) + 1] = frame
  /\ \A f \in 1..Len(fr) : gr[f] = fr[f]
  /\ \A f \in 1..(Len(fr) + 1) : Starts(gr)[f] = Starts(fr)[f]
  /\ CountOf(gr) = CountOf(fr) + Len(CutOf(frame))

\* A frame that is appended is one more.
LEMMA FrameAdded ==
  ASSUME NEW fr \in Seq(Frames), NEW frame \in Frames
  PROVE  OneMore(fr, frame, Append(fr, frame))
<1> DEFINE gr == Append(fr, frame)
<1>1. PICK n \in Nat : n = Len(fr)
  BY StartsFacts
<1>2. gr \in Seq(Frames) /\ Len(gr) = n + 1 /\ gr[n + 1] = frame /\ \A f \in 1..n : gr[f] = fr[f]
  BY <1>1, AppendProperties
<1> HIDE DEF gr
<1>3. Ends(Starts(fr), Counts(fr), n)
  BY <1>1, StartsFacts
<1>4. Ends(Starts(gr), Counts(gr), n + 1)
  BY <1>2, StartsFacts
<1>5. \A f \in 1..n : Counts(fr)[f] = Counts(gr)[f]
  BY <1>1, <1>2 DEF Counts
<1>6. \A f \in 1..(n + 1) : Starts(fr)[f] = Starts(gr)[f]
  <2>1. n + 1 \in Nat /\ n <= n + 1
    OBVIOUS
  <2> QED
    BY <1>3, <1>4, <1>5, <2>1, EndsUnique
<1>7. Starts(gr)[(n + 1) + 1] = Starts(gr)[n + 1] + Len(CutOf(frame))
  <2>1. n + 1 \in 1..(n + 1)
    OBVIOUS
  <2>2. Counts(gr)[n + 1] = Len(CutOf(frame))
    BY <1>2, <2>1 DEF Counts
  <2>3. Starts(gr)[(n + 1) + 1] = Starts(gr)[n + 1] + Counts(gr)[n + 1]
    BY <1>4, <2>1 DEF Ends
  <2> QED
    BY <2>2, <2>3
<1>8. CountOf(gr) = CountOf(fr) + Len(CutOf(frame))
  <2>1. n + 1 \in 1..(n + 1)
    OBVIOUS
  <2> QED
    BY <1>1, <1>2, <1>6, <1>7, <2>1 DEF CountOf
<1> QED
  BY <1>1, <1>2, <1>6, <1>8 DEF OneMore, gr

-----------------------------------------------------------------------------
(* Packets of the frames that were sent.                                   *)

\* A packet of one of the frames.
Sent(p, fr) == \E f, k : Place(fr, f, k) /\ p = PacketAt(fr, f, k)

\* What is read from packet k of frame f.
LEMMA PacketAtFacts ==
  ASSUME NEW fr \in Seq(Frames), CountOf(fr) < SeqSpace, NEW f, NEW k, Place(fr, f, k),
         NEW p, p = PacketAt(fr, f, k)
  PROVE  /\ p.ts = f /\ p.payload = CutOf(fr[f])[k] /\ p.marker = (k = Len(CutOf(fr[f])))
         /\ p.seq = Wire(NumberAt(fr, f, k)) /\ p.seq \in Nat /\ Number(p.seq) = NumberAt(fr, f, k)
         /\ p.ssrc = Ssrc.video /\ p.pt = PayloadTypes.video
         /\ IsQueue(p.payload) /\ Len(p.payload) \in Nat /\ Len(p.payload) <= MaxPayloadLen
         /\ Size(p) <= Capacity /\ PacketIds(p) = {p.seq}
         /\ Unwrapped(p) = [n |-> NumberAt(fr, f, k), payload |-> p.payload]
<1>1. PICK n \in Nat : n = NumberAt(fr, f, k) /\ n < SeqSpace
  <2>1. PICK c \in Nat : c = CountOf(fr)
    BY NumberFacts
  <2>2. NumberAt(fr, f, k) \in 0..(c - 1)
    BY <2>1, NumberFacts
  <2>3. PICK s \in Nat : s = SeqSpace
    BY SpaceFacts
  <2> QED
    BY <2>1, <2>2, <2>3
<1>2. PICK x, last : x = CutOf(fr[f])[k] /\ last = (k = Len(CutOf(fr[f])))
  OBVIOUS
<1>3. p = VideoPacket(f, Wire(n), x, last)
  BY <1>1, <1>2 DEF PacketAt
<1>4. /\ p.ts = f /\ p.seq = Wire(n) /\ p.payload = x /\ p.marker = last
      /\ p.ssrc = Ssrc.video /\ p.pt = PayloadTypes.video
      /\ Size(p) = 20 + Len(x) /\ PacketIds(p) = {Wire(n)}
  BY <1>3, VideoPacketFacts
<1>5. Wire(n) \in Nat /\ Number(Wire(n)) = n
  <2>1. Wire(n) \in 0..(SeqSpace - 1)
    BY WireFacts
  <2> QED
    BY <1>1, <2>1, WireFacts, SpaceFacts
<1>6. x \in Seq(Byte) /\ Len(x) \in 1..MaxPayloadLen
  <2>1. fr[f] \in Frames /\ k \in 1..Len(CutOf(fr[f]))
    BY StartsFacts DEF Place
  <2> QED
    BY <1>2, <2>1, CutFacts
<1>7. IsQueue(x)
  BY <1>6 DEF IsQueue
<1>8. Len(x) \in Nat /\ Len(x) <= MaxPayloadLen /\ 20 + Len(x) <= Capacity
  <2>1. PICK l \in Nat : l = Len(x)
    BY <1>6
  <2>2. l <= MaxPayloadLen
    BY <1>6, <2>1, PayloadBound
  <2>3. 20 + l <= Capacity
    BY <2>2, CapacityHolds, PayloadBound
  <2> QED
    BY <2>1, <2>2, <2>3
<1>9. Unwrapped(p) = [n |-> n, payload |-> x]
  BY <1>4, <1>5, Zenon DEF Unwrapped
<1> QED
  BY <1>1, <1>2, <1>4, <1>5, <1>7, <1>8, <1>9

\* Packets of the frames stay packets of them when there is one more.
LEMMA SentGrows ==
  ASSUME NEW fr \in Seq(Frames), NEW frame \in Frames, NEW gr, OneMore(fr, frame, gr)
  PROVE  /\ \A f, k : Place(fr, f, k) =>
              Place(gr, f, k) /\ NumberAt(gr, f, k) = NumberAt(fr, f, k) /\ gr[f] = fr[f]
              /\ PacketAt(gr, f, k) = PacketAt(fr, f, k)
         /\ \A p : Sent(p, fr) => Sent(p, gr)
<1>1. ASSUME NEW f, NEW k, Place(fr, f, k)
      PROVE  /\ Place(gr, f, k) /\ NumberAt(gr, f, k) = NumberAt(fr, f, k) /\ gr[f] = fr[f]
             /\ PacketAt(gr, f, k) = PacketAt(fr, f, k)
  <2>1. f \in 1..Len(fr) /\ k \in 1..Len(CutOf(fr[f]))
    BY <1>1 DEF Place
  <2>2. PICK n \in Nat : n = Len(fr) /\ Len(gr) = n + 1
    BY StartsFacts DEF OneMore
  <2>3. f \in 1..(n + 1)
    BY <2>1, <2>2
  <2>4. gr[f] = fr[f] /\ Starts(gr)[f] = Starts(fr)[f]
    <3>1. (\A g \in 1..Len(fr) : gr[g] = fr[g])
          /\ \A g \in 1..(Len(fr) + 1) : Starts(gr)[g] = Starts(fr)[g]
      BY DEF OneMore
    <3> QED
      BY <2>1, <2>2, <2>3, <3>1
  <2>5. Place(gr, f, k)
    BY <2>1, <2>2, <2>3, <2>4 DEF Place
  <2>6. NumberAt(gr, f, k) = NumberAt(fr, f, k)
    BY <2>4 DEF NumberAt
  <2> QED
    BY <2>4, <2>5, <2>6 DEF PacketAt
<1>2. ASSUME NEW p, Sent(p, fr) PROVE Sent(p, gr)
  BY <1>1, <1>2 DEF Sent
<1> QED
  BY <1>1, <1>2

\* The packets of the new frame.
LEMMA SentNew ==
  ASSUME NEW fr \in Seq(Frames), NEW frame \in Frames, NEW gr, OneMore(fr, frame, gr)
  PROVE  \A k \in 1..Len(CutOf(frame)) :
            /\ Place(gr, Len(fr) + 1, k) /\ NumberAt(gr, Len(fr) + 1, k) = CountOf(fr) + k - 1
            /\ PacketAt(gr, Len(fr) + 1, k) =
                 VideoPacket(Len(fr) + 1, Wire(CountOf(fr) + k - 1), CutOf(frame)[k], k = Len(CutOf(frame)))
<1>1. PICK n \in Nat : n = Len(fr) /\ Len(gr) = n + 1 /\ gr[n + 1] = frame
  BY StartsFacts DEF OneMore
<1>2. Starts(gr)[n + 1] = CountOf(fr)
  <2>1. n + 1 \in 1..(n + 1)
    OBVIOUS
  <2> QED
    <3>1. \A g \in 1..(Len(fr) + 1) : Starts(gr)[g] = Starts(fr)[g]
      BY DEF OneMore
    <3>2. Starts(gr)[n + 1] = Starts(fr)[n + 1]
      BY <1>1, <2>1, <3>1
    <3> QED
      BY <1>1, <3>2 DEF CountOf
<1>3. n + 1 \in 1..(n + 1)
  OBVIOUS
<1> QED
  BY <1>1, <1>2, <1>3 DEF Place, NumberAt, PacketAt

\* Packets of the frames are those of the frames before and those of the new one.
LEMMA SentSplit ==
  ASSUME NEW fr \in Seq(Frames), NEW frame \in Frames, NEW gr, OneMore(fr, frame, gr),
         NEW f, NEW k, Place(gr, f, k)
  PROVE  \/ Place(fr, f, k)
         \/ f = Len(fr) + 1 /\ k \in 1..Len(CutOf(frame))
<1>1. PICK n \in Nat : n = Len(fr) /\ Len(gr) = n + 1 /\ gr[n + 1] = frame /\ \A g \in 1..n : gr[g] = fr[g]
  BY StartsFacts DEF OneMore
<1>2. f \in 1..(n + 1) /\ k \in 1..Len(CutOf(gr[f]))
  BY <1>1 DEF Place
<1>3. f = n + 1 \/ f \in 1..n
  BY <1>2
<1> QED
  BY <1>1, <1>2, <1>3 DEF Place

-----------------------------------------------------------------------------
\* A list of two.
LEMMA TwoAppended ==
  ASSUME NEW a, NEW b
  PROVE  Append(<<a>>, b) = <<a, b>>
<1>1. PICK q, r, s : q = Append(<<a>>, b) /\ r = <<a, b>> /\ s = <<a>>
  OBVIOUS
<1>2. IsQueue(r) /\ Len(r) = 2 /\ r[1] = a /\ r[2] = b
  BY <1>1, ListedTasks
<1>3. IsQueue(s) /\ Len(s) = 1 /\ s[1] = a
  BY <1>1, ListedTasks
<1>4. /\ IsQueue(Append(s, b)) /\ Len(Append(s, b)) = Len(s) + 1 /\ Append(s, b)[Len(s) + 1] = b
      /\ \A i \in 1..Len(s) : Append(s, b)[i] = s[i]
  BY <1>3, AppendFacts, ZenonT(60)
<1>5. IsQueue(q) /\ Len(q) = 2 /\ q[2] = b /\ q[1] = a
  BY <1>1, <1>3, <1>4
<1>6. \A i \in 1..2 : q[i] = r[i]
  BY <1>2, <1>5
<1>7. q = r
  BY <1>2, <1>5, <1>6, QueueEqual
<1> QED
  BY <1>1, <1>7, Zenon

\* The answer, in which audio and video are sent.
LEMMA AnswerFacts ==
  ASSUME NEW options \in Options, NEW a, a = Answer(options, Ssrc)
  PROVE  /\ a.contents = <<"audio", "video">>
         /\ a.streams.audio = AudioStreams(Ssrc) /\ a.streams.video = VideoStreams(Ssrc)
         /\ a.infos["audio"].ufrag = "own"
         /\ a.groups = <<>> \/ a.groups = <<<<"audio", "video">>>>
         /\ a # NoAnswer
<1>1. options.send.audio /\ options.send.video
  BY OptionsAssumption DEF OptionsAssumption
<1>2. options.send["audio"] /\ options.send["video"]
  BY <1>1
<1>3. <<"audio">> \o <<"video">> = <<"audio", "video">>
  <2>1. IsQueue(<<"audio">>)
    BY ListedTasks
  <2>2. Append(<<"audio">>, "video") = <<"audio">> \o <<"video">>
    BY <2>1, AppendIsPost
  <2>3. Append(<<"audio">>, "video") = <<"audio", "video">>
    BY TwoAppended, Zenon
  <2> QED
    BY <2>2, <2>3, Zenon
<1>4. a = [contents |-> <<"audio", "video">>,
           groups |-> IF options.use_rtp_mux /\ <<"audio", "video">> # <<>>
                     THEN <<<<"audio", "video">>>> ELSE <<>>,
           infos |-> [audio |-> [mid |-> "audio", ufrag |-> "own", pwd |-> "own"],
                      video |-> [mid |-> "video", ufrag |-> "own", pwd |-> "own"]],
           streams |-> [audio |-> AudioStreams(Ssrc), video |-> VideoStreams(Ssrc)]]
  BY <1>1, <1>2, <1>3, Zenon DEF Answer
<1>5. /\ a.contents = <<"audio", "video">>
      /\ a.streams.audio = AudioStreams(Ssrc) /\ a.streams.video = VideoStreams(Ssrc)
      /\ a.infos["audio"].ufrag = "own"
  BY <1>4
<1>6. a.groups = <<>> \/ a.groups = <<<<"audio", "video">>>>
  BY <1>4
<1>7. a # NoAnswer
  <2>1. NoAnswer.contents = <<>> /\ <<"audio", "video">> # <<>>
    BY DEF NoAnswer
  <2> QED
    BY <1>5, <2>1
<1> QED
  BY <1>5, <1>6, <1>7

\* The transport "audio" is one of those the answer is for.
LEMMA AnswerTransport ==
  ASSUME NEW options \in Options, NEW a, a = Answer(options, Ssrc)
  PROVE  "audio" \in WithTransport(a)
<1>1. a.contents = <<"audio", "video">> /\ (a.groups = <<>> \/ a.groups = <<<<"audio", "video">>>>)
  BY AnswerFacts
<1>2. "audio" \in ToSet(a.contents)
  BY <1>1 DEF ToSet
<1>3. IsBundle(a, "audio") => "audio" = GetFirstBundleId(a)
  <2>1. CASE a.groups = <<>>
    <3>1. BundleNames(a) = <<>>
      BY <2>1 DEF BundleNames
    <3>2. ~Contains(<<>>, "audio")
      BY DEF Contains
    <3> QED
      BY <3>1, <3>2 DEF IsBundle
  <2>2. CASE a.groups = <<<<"audio", "video">>>>
    <3>1. BundleNames(a) = <<"audio", "video">>
      BY <2>2 DEF BundleNames
    <3>2. <<"audio", "video">> # <<>> /\ <<"audio", "video">>[1] = "audio"
      OBVIOUS
    <3> QED
      BY <3>1, <3>2 DEF GetFirstBundleId
  <2> QED
    BY <1>1, <2>1, <2>2
<1> QED
  BY <1>2, <1>3 DEF WithTransport

\* The answer as text tells of every kind of packet.
LEMMA AnswerText ==
  ASSUME NEW options \in Options, NEW a, a = Answer(options, Ssrc)
  PROVE  /\ \E section \in ToText(a) : \E codec \in section.codecs :
              Ssrc.audio \in section.ssrcs /\ PayloadTypes.audio = codec.id
         /\ \E section \in ToText(a) : \E codec \in section.codecs :
              Ssrc.video \in section.ssrcs /\ PayloadTypes.video = codec.id
         /\ \E section \in ToText(a) : \E codec \in section.codecs :
              /\ Ssrc.rtx \in section.ssrcs /\ PayloadTypes.rtx = codec.id
              /\ codec.apt = PayloadTypes.video /\ <<Ssrc.video, Ssrc.rtx>> \in section.fids
<1>1. /\ a.contents = <<"audio", "video">>
      /\ a.streams.audio = AudioStreams(Ssrc) /\ a.streams.video = VideoStreams(Ssrc)
  BY AnswerFacts
<1>2. Section(a, "audio") \in ToText(a) /\ Section(a, "video") \in ToText(a)
  <2>1. ToSet(<<"audio", "video">>) = {"audio", "video"}
    BY DEF ToSet
  <2> QED
    BY <1>1, <2>1 DEF ToText
<1>3. AudioCodecs[1] \in Section(a, "audio").codecs
  <2>1. Section(a, "audio").codecs = ToSet(AudioCodecs)
    BY DEF Section
  <2> QED
    BY <2>1 DEF AudioCodecs, ToSet
<1>4. VideoCodecs[1] \in Section(a, "video").codecs /\ VideoCodecs[2] \in Section(a, "video").codecs
  <2>1. Section(a, "video").codecs = ToSet(VideoCodecs)
    BY DEF Section
  <2> QED
    BY <2>1 DEF VideoCodecs, ToSet
<1>5. Ssrc.audio \in Section(a, "audio").ssrcs
  <2>1. PICK t : t = AudioStreams(Ssrc)[1]
    OBVIOUS
  <2>2. t \in ToSet(a.streams["audio"]) /\ Ssrc.audio \in ToSet(t.ssrcs)
    BY <1>1, <2>1 DEF AudioStreams, ToSet
  <2>3. Section(a, "audio").ssrcs = UNION {ToSet(s.ssrcs) : s \in ToSet(a.streams["audio"])}
    BY DEF Section
  <2> QED
    BY <2>2, <2>3
<1>6. /\ Ssrc.video \in Section(a, "video").ssrcs /\ Ssrc.rtx \in Section(a, "video").ssrcs
      /\ <<Ssrc.video, Ssrc.rtx>> \in Section(a, "video").fids
  <2>1. PICK t : t = VideoStreams(Ssrc)[1]
    OBVIOUS
  <2>2. t \in ToSet(a.streams["video"]) /\ Ssrc.video \in ToSet(t.ssrcs) /\ Ssrc.rtx \in ToSet(t.ssrcs)
    BY <1>1, <2>1 DEF VideoStreams, ToSet
  <2>3. Section(a, "video").ssrcs = UNION {ToSet(s.ssrcs) : s \in ToSet(a.streams["video"])}
    BY DEF Section
  <2>4. t.fid = <<Ssrc.video, Ssrc.rtx>> /\ <<Ssrc.video, Ssrc.rtx>> # <<>>
    BY <2>1 DEF VideoStreams
  <2>5. Section(a, "video").fids = {s.fid : s \in ToSet(a.streams["video"])} \ {<<>>}
    BY DEF Section
  <2> QED
    BY <2>2, <2>3, <2>4, <2>5
<1>7. /\ PayloadTypes.audio = AudioCodecs[1].id /\ PayloadTypes.video = VideoCodecs[1].id
      /\ PayloadTypes.rtx = VideoCodecs[2].id /\ VideoCodecs[2].apt = PayloadTypes.video
  BY DEF PayloadTypes, AudioCodecs, VideoCodecs
<1> QED
  BY <1>2, <1>3, <1>4, <1>5, <1>6, <1>7

\* A retransmission repeats its packet.
LEMMA RtxFacts ==
  ASSUME NEW options \in Options, answer = Answer(options, Ssrc), NEW q, NEW n
  PROVE  Repeats(BuildRtxPacket(q, n), q)
<1>1. answer.streams.video = VideoStreams(Ssrc)
  BY AnswerFacts
<1>2. VideoConfig(answer).rtxSsrc = Ssrc.rtx /\ VideoConfig(answer).rtxPt = PayloadTypes.rtx
  BY <1>1 DEF VideoConfig, VideoStreams
<1>3. PICK x, s, t, w : /\ x = <<q.seq \div 256, q.seq % 256>> \o q.payload /\ s = Ssrc.rtx
                        /\ t = PayloadTypes.rtx /\ w = Wire(n)
  OBVIOUS
<1>4. PICK m : m = NewPacket(NoExtensions)
  OBVIOUS
<1>5. BuildRtxPacket(q, n) = [WithPayload(m, x)
         EXCEPT !.pt = t, !.ssrc = s, !.seq = w, !.marker = q.marker, !.ts = q.ts]
  BY <1>2, <1>3, <1>4, ZenonT(60) DEF BuildRtxPacket
<1>6. m = [ids |-> NoExtensions, marker |-> FALSE, pt |-> 0, seq |-> 0, ts |-> 0, ssrc |-> 0,
           entries |-> <<>>, twoByte |-> FALSE, extensionSize |-> 0,
           payloadOffset |-> FixedHeaderSize, payload |-> <<>>]
  BY <1>4 DEF NewPacket
<1>7. PICK p : p = BuildRtxPacket(q, n)
  OBVIOUS
<1>8. /\ p.ssrc = s /\ p.pt = t /\ p.payload = x /\ p.ts = q.ts /\ p.marker = q.marker
      /\ p.payloadOffset = FixedHeaderSize
  BY <1>5, <1>6, <1>7 DEF WithPayload
<1> QED
  BY <1>3, <1>7, <1>8 DEF Repeats

\* What is read from a packet of audio.
LEMMA AudioFacts ==
  ASSUME NEW payload, NEW seq, NEW p,
         p = [WithPayload(NewPacket(NoExtensions), payload)
              EXCEPT !.pt = PayloadTypes.audio, !.ssrc = Ssrc.audio, !.seq = seq]
  PROVE  p.ssrc = Ssrc.audio /\ p.pt = PayloadTypes.audio
<1>1. PICK m : m = NewPacket(NoExtensions)
  OBVIOUS
<1>2. m = [ids |-> NoExtensions, marker |-> FALSE, pt |-> 0, seq |-> 0, ts |-> 0, ssrc |-> 0,
           entries |-> <<>>, twoByte |-> FALSE, extensionSize |-> 0,
           payloadOffset |-> FixedHeaderSize, payload |-> <<>>]
  BY <1>1 DEF NewPacket
<1> QED
  BY <1>1, <1>2 DEF WithPayload

-----------------------------------------------------------------------------
(* Folds of the handlers, as runs of them.                                 *)

\* The blocks of a compound packet, one by one.
BlocksRun(g, p) == \A j \in 1..Len(p) : g[j] = HandleBlock(Ssrc.video, 0, g[j - 1], p[j])

\* ParseCompoundPacket reads its blocks one after the other.
LEMMA BlocksFold ==
  ASSUME NEW p, IsQueue(p), NEW base
  PROVE  \E g : /\ g[0] = base /\ BlocksRun(g, p)
                /\ FoldLeft(LAMBDA h, block : HandleBlock(Ssrc.video, 0, h, block), base, p)
                     = g[Len(p)]
<1> DEFINE n == Len(p)
           Step(g, s) == IF s = {} THEN base ELSE HandleBlock(Ssrc.video, 0, g[s \ {Max(s)}], p[Max(s)])
           Search(g, m) == g = [s \in SUBSET (1..m) |-> Step(g, s)]
<1>1. n \in Nat /\ DOMAIN p = 1..n
  BY QueueBasics
<1>2. FoldLeft(LAMBDA h, block : HandleBlock(Ssrc.video, 0, h, block), base, p)
        = (CHOOSE g : Search(g, n))[1..n]
  <2>1. FoldLeft(LAMBDA h, block : HandleBlock(Ssrc.video, 0, h, block), base, p)
          = (CHOOSE g : g = [s \in SUBSET (DOMAIN p) |-> Step(g, s)])[DOMAIN p]
    BY Zenon DEF FoldLeft, MapThenFoldSet
  <2> QED
    BY <1>1, <2>1, Zenon
<1>3. ASSUME NEW m \in Nat, NEW s \in SUBSET (1..(m + 1)), s # {}
      PROVE  s \ {Max(s)} \in SUBSET (1..m)
  <2>1. Max(s) \in s /\ \A y \in s : Max(s) >= y
    <3>1. 1 \in Int /\ m + 1 \in Int
      OBVIOUS
    <3> QED
      BY <1>3, <3>1, Extremes
  <2>2. ASSUME NEW y \in s, y # Max(s) PROVE y \in 1..m
    <3>1. y \in 1..(m + 1) /\ Max(s) \in 1..(m + 1) /\ Max(s) >= y
      BY <2>1
    <3> QED
      BY <2>2, <3>1
  <2> QED
    BY <2>2
<1>4. \E g : Search(g, n)
  <2> DEFINE E == {m \in Nat : \E g : Search(g, m)}
  <2>1. 0 \in E
    <3>1. SUBSET (1..0) = {{}}
      OBVIOUS
    <3> DEFINE z == [s \in {{}} |-> base]
    <3>2. \A s \in {{}} : Step(z, s) = base
      BY Zenon
    <3> HIDE DEF Step
    <3>3. [s \in {{}} |-> Step(z, s)] = z
      BY <3>2, Zenon
    <3>4. Search(z, 0)
      BY <3>1, <3>3, Zenon
    <3> HIDE DEF Search, z
    <3> QED
      BY <3>4
  <2>2. ASSUME NEW m \in E PROVE m + 1 \in E
    <3>1. m \in Nat /\ m + 1 \in Nat
      OBVIOUS
    <3>2. PICK g : Search(g, m)
      OBVIOUS
    <3> DEFINE new == [s \in SUBSET (1..(m + 1)) |-> Step(g, s)]
    <3>3. ASSUME NEW s \in SUBSET (1..m) PROVE new[s] = g[s]
      <4> HIDE DEF Step
      <4>1. s \in SUBSET (1..(m + 1))
        BY <3>1
      <4>2. g[s] = Step(g, s)
        BY <3>2
      <4> QED
        BY <4>1, <4>2
    <3> HIDE DEF new, Search
    <3>4. ASSUME NEW s \in SUBSET (1..(m + 1)) PROVE Step(new, s) = Step(g, s)
      <4>1. CASE s = {}
        BY <4>1
      <4>2. CASE s # {}
        <5>1. new[s \ {Max(s)}] = g[s \ {Max(s)}]
          BY <1>3, <3>1, <3>3, <4>2
        <5> QED
          BY <5>1, Zenon
      <4> QED
        BY <4>1, <4>2
    <3>5. Search(new, m + 1)
      <4> HIDE DEF Step
      <4>1. [s \in SUBSET (1..(m + 1)) |-> Step(new, s)] = [s \in SUBSET (1..(m + 1)) |-> Step(g, s)]
        BY <3>4
      <4> QED
        BY <4>1 DEF new, Search
    <3> QED
      BY <3>1, <3>5
  <2>3. Nat \subseteq E
    <3> HIDE DEF E
    <3> QED
      BY <2>1, <2>2, SetInduction
  <2>4. n \in E
    <3> HIDE DEF E
    <3> QED
      BY <1>1, <2>3
  <2> HIDE DEF Search
  <2> QED
    BY <2>4
<1> HIDE DEF Search
<1>5. PICK f : f = CHOOSE h : Search(h, n)
  OBVIOUS
<1>6. Search(f, n)
  BY <1>4, <1>5
<1>7. \A s \in SUBSET (1..n) : f[s] = Step(f, s)
  <2> HIDE DEF Step
  <2> QED
    BY <1>6 DEF Search
<1> DEFINE g == [j \in 0..n |-> f[1..j]]
<1>8. g[0] = base
  <2>1. 1..0 = {} /\ 0 \in 0..n /\ {} \in SUBSET (1..n)
    BY <1>1
  <2> QED
    BY <1>7, <2>1
<1>9. ASSUME NEW j \in 1..n PROVE g[j] = HandleBlock(Ssrc.video, 0, g[j - 1], p[j])
  <2>0. j \in Int /\ n \in Int /\ 1 <= j /\ j <= n
    BY <1>1
  <2> HIDE DEF n
  <2>4. j \in 0..n /\ j - 1 \in 0..n
    BY <2>0
  <2>5. 1..j \in SUBSET (1..n) /\ 1..j # {}
    BY <2>0
  <2>6. (1..j) \ {j} = 1..(j - 1)
    BY <2>0
  <2>1. j \in 0..n /\ j - 1 \in 0..n /\ j \in Int /\ 1..j \in SUBSET (1..n) /\ 1..j # {}
        /\ (1..j) \ {j} = 1..(j - 1)
    BY <2>0, <2>4, <2>5, <2>6
  <2>2. Max(1..j) = j
    <3>1. j \in 1..j /\ \A x \in 1..j : x \in Int /\ x <= j
      BY <2>1
    <3> QED
      BY <2>1, <3>1, MaxIs
  <2>3. f[1..j] = HandleBlock(Ssrc.video, 0, f[(1..j) \ {Max(1..j)}], p[Max(1..j)])
    BY <1>7, <2>1, Zenon
  <2>7. f[1..j] = HandleBlock(Ssrc.video, 0, f[1..(j - 1)], p[j])
    BY <2>1, <2>2, <2>3
  <2> QED
    BY <2>1, <2>7
<1>10. g[n] = f[1..n]
  BY <1>1
<1>11. FoldLeft(LAMBDA h, block : HandleBlock(Ssrc.video, 0, h, block), base, p) = g[n]
  BY <1>2, <1>5, <1>10
<1> HIDE DEF g
<1> QED
  BY <1>8, <1>9, <1>11 DEF BlocksRun

\* And the reports of a receiver report.
ReportsRun(g, p) == \A j \in 1..Len(p) : g[j] = HandleReportBlock(Ssrc.video, 0, g[j - 1], p[j])

\* HandleReceiverReport reads its reports one after the other.
LEMMA ReportsFold ==
  ASSUME NEW p, IsQueue(p), NEW base
  PROVE  \E g : /\ g[0] = base /\ ReportsRun(g, p)
                /\ FoldLeft(LAMBDA h, report : HandleReportBlock(Ssrc.video, 0, h, report), base, p)
                     = g[Len(p)]
<1> DEFINE n == Len(p)
           Step(g, s) == IF s = {} THEN base ELSE HandleReportBlock(Ssrc.video, 0, g[s \ {Max(s)}], p[Max(s)])
           Search(g, m) == g = [s \in SUBSET (1..m) |-> Step(g, s)]
<1>1. n \in Nat /\ DOMAIN p = 1..n
  BY QueueBasics
<1>2. FoldLeft(LAMBDA h, report : HandleReportBlock(Ssrc.video, 0, h, report), base, p)
        = (CHOOSE g : Search(g, n))[1..n]
  <2>1. FoldLeft(LAMBDA h, report : HandleReportBlock(Ssrc.video, 0, h, report), base, p)
          = (CHOOSE g : g = [s \in SUBSET (DOMAIN p) |-> Step(g, s)])[DOMAIN p]
    BY Zenon DEF FoldLeft, MapThenFoldSet
  <2> QED
    BY <1>1, <2>1, Zenon
<1>3. ASSUME NEW m \in Nat, NEW s \in SUBSET (1..(m + 1)), s # {}
      PROVE  s \ {Max(s)} \in SUBSET (1..m)
  <2>1. Max(s) \in s /\ \A y \in s : Max(s) >= y
    <3>1. 1 \in Int /\ m + 1 \in Int
      OBVIOUS
    <3> QED
      BY <1>3, <3>1, Extremes
  <2>2. ASSUME NEW y \in s, y # Max(s) PROVE y \in 1..m
    <3>1. y \in 1..(m + 1) /\ Max(s) \in 1..(m + 1) /\ Max(s) >= y
      BY <2>1
    <3> QED
      BY <2>2, <3>1
  <2> QED
    BY <2>2
<1>4. \E g : Search(g, n)
  <2> DEFINE E == {m \in Nat : \E g : Search(g, m)}
  <2>1. 0 \in E
    <3>1. SUBSET (1..0) = {{}}
      OBVIOUS
    <3> DEFINE z == [s \in {{}} |-> base]
    <3>2. \A s \in {{}} : Step(z, s) = base
      BY Zenon
    <3> HIDE DEF Step
    <3>3. [s \in {{}} |-> Step(z, s)] = z
      BY <3>2, Zenon
    <3>4. Search(z, 0)
      BY <3>1, <3>3, Zenon
    <3> HIDE DEF Search, z
    <3> QED
      BY <3>4
  <2>2. ASSUME NEW m \in E PROVE m + 1 \in E
    <3>1. m \in Nat /\ m + 1 \in Nat
      OBVIOUS
    <3>2. PICK g : Search(g, m)
      OBVIOUS
    <3> DEFINE new == [s \in SUBSET (1..(m + 1)) |-> Step(g, s)]
    <3>3. ASSUME NEW s \in SUBSET (1..m) PROVE new[s] = g[s]
      <4> HIDE DEF Step
      <4>1. s \in SUBSET (1..(m + 1))
        BY <3>1
      <4>2. g[s] = Step(g, s)
        BY <3>2
      <4> QED
        BY <4>1, <4>2
    <3> HIDE DEF new, Search
    <3>4. ASSUME NEW s \in SUBSET (1..(m + 1)) PROVE Step(new, s) = Step(g, s)
      <4>1. CASE s = {}
        BY <4>1
      <4>2. CASE s # {}
        <5>1. new[s \ {Max(s)}] = g[s \ {Max(s)}]
          BY <1>3, <3>1, <3>3, <4>2
        <5> QED
          BY <5>1, Zenon
      <4> QED
        BY <4>1, <4>2
    <3>5. Search(new, m + 1)
      <4> HIDE DEF Step
      <4>1. [s \in SUBSET (1..(m + 1)) |-> Step(new, s)] = [s \in SUBSET (1..(m + 1)) |-> Step(g, s)]
        BY <3>4
      <4> QED
        BY <4>1 DEF new, Search
    <3> QED
      BY <3>1, <3>5
  <2>3. Nat \subseteq E
    <3> HIDE DEF E
    <3> QED
      BY <2>1, <2>2, SetInduction
  <2>4. n \in E
    <3> HIDE DEF E
    <3> QED
      BY <1>1, <2>3
  <2> HIDE DEF Search
  <2> QED
    BY <2>4
<1> HIDE DEF Search
<1>5. PICK f : f = CHOOSE h : Search(h, n)
  OBVIOUS
<1>6. Search(f, n)
  BY <1>4, <1>5
<1>7. \A s \in SUBSET (1..n) : f[s] = Step(f, s)
  <2> HIDE DEF Step
  <2> QED
    BY <1>6 DEF Search
<1> DEFINE g == [j \in 0..n |-> f[1..j]]
<1>8. g[0] = base
  <2>1. 1..0 = {} /\ 0 \in 0..n /\ {} \in SUBSET (1..n)
    BY <1>1
  <2> QED
    BY <1>7, <2>1
<1>9. ASSUME NEW j \in 1..n PROVE g[j] = HandleReportBlock(Ssrc.video, 0, g[j - 1], p[j])
  <2>0. j \in Int /\ n \in Int /\ 1 <= j /\ j <= n
    BY <1>1
  <2> HIDE DEF n
  <2>4. j \in 0..n /\ j - 1 \in 0..n
    BY <2>0
  <2>5. 1..j \in SUBSET (1..n) /\ 1..j # {}
    BY <2>0
  <2>6. (1..j) \ {j} = 1..(j - 1)
    BY <2>0
  <2>1. j \in 0..n /\ j - 1 \in 0..n /\ j \in Int /\ 1..j \in SUBSET (1..n) /\ 1..j # {}
        /\ (1..j) \ {j} = 1..(j - 1)
    BY <2>0, <2>4, <2>5, <2>6
  <2>2. Max(1..j) = j
    <3>1. j \in 1..j /\ \A x \in 1..j : x \in Int /\ x <= j
      BY <2>1
    <3> QED
      BY <2>1, <3>1, MaxIs
  <2>3. f[1..j] = HandleReportBlock(Ssrc.video, 0, f[(1..j) \ {Max(1..j)}], p[Max(1..j)])
    BY <1>7, <2>1, Zenon
  <2>7. f[1..j] = HandleReportBlock(Ssrc.video, 0, f[1..(j - 1)], p[j])
    BY <2>1, <2>2, <2>3
  <2> QED
    BY <2>1, <2>7
<1>10. g[n] = f[1..n]
  BY <1>1
<1>11. FoldLeft(LAMBDA h, report : HandleReportBlock(Ssrc.video, 0, h, report), base, p) = g[n]
  BY <1>2, <1>5, <1>10
<1> HIDE DEF g
<1> QED
  BY <1>8, <1>9, <1>11 DEF ReportsRun

\* The cache after packets of a list.
CacheRuns(g, p) == \A j \in 1..Len(p) : g[j] = AddVideoCache(g[j - 1], p[j])

\* The packets of a frame are put into the cache one after the other.
LEMMA CacheFold ==
  ASSUME NEW p, IsQueue(p), NEW base
  PROVE  \E g : g[0] = base /\ CacheRuns(g, p) /\ FoldLeft(AddVideoCache, base, p) = g[Len(p)]
<1> DEFINE n == Len(p)
           Step(g, s) == IF s = {} THEN base ELSE AddVideoCache(g[s \ {Max(s)}], p[Max(s)])
           Search(g, m) == g = [s \in SUBSET (1..m) |-> Step(g, s)]
<1>1. n \in Nat /\ DOMAIN p = 1..n
  BY QueueBasics
<1>2. FoldLeft(AddVideoCache, base, p) = (CHOOSE g : Search(g, n))[1..n]
  <2>1. FoldLeft(AddVideoCache, base, p) = (CHOOSE g : g = [s \in SUBSET (DOMAIN p) |-> Step(g, s)])[DOMAIN p]
    BY Zenon DEF FoldLeft, MapThenFoldSet
  <2> QED
    BY <1>1, <2>1, Zenon
<1>3. ASSUME NEW m \in Nat, NEW s \in SUBSET (1..(m + 1)), s # {}
      PROVE  s \ {Max(s)} \in SUBSET (1..m)
  <2>1. Max(s) \in s /\ \A y \in s : Max(s) >= y
    <3>1. 1 \in Int /\ m + 1 \in Int
      OBVIOUS
    <3> QED
      BY <1>3, <3>1, Extremes
  <2>2. ASSUME NEW y \in s, y # Max(s) PROVE y \in 1..m
    <3>1. y \in 1..(m + 1) /\ Max(s) \in 1..(m + 1) /\ Max(s) >= y
      BY <2>1
    <3> QED
      BY <2>2, <3>1
  <2> QED
    BY <2>2
<1>4. \E g : Search(g, n)
  <2> DEFINE E == {m \in Nat : \E g : Search(g, m)}
  <2>1. 0 \in E
    <3>1. SUBSET (1..0) = {{}}
      OBVIOUS
    <3> DEFINE z == [s \in {{}} |-> base]
    <3>2. \A s \in {{}} : Step(z, s) = base
      BY Zenon
    <3> HIDE DEF Step
    <3>3. [s \in {{}} |-> Step(z, s)] = z
      BY <3>2, Zenon
    <3>4. Search(z, 0)
      BY <3>1, <3>3, Zenon
    <3> HIDE DEF Search, z
    <3> QED
      BY <3>4
  <2>2. ASSUME NEW m \in E PROVE m + 1 \in E
    <3>1. m \in Nat /\ m + 1 \in Nat
      OBVIOUS
    <3>2. PICK g : Search(g, m)
      OBVIOUS
    <3> DEFINE new == [s \in SUBSET (1..(m + 1)) |-> Step(g, s)]
    <3>3. ASSUME NEW s \in SUBSET (1..m) PROVE new[s] = g[s]
      <4> HIDE DEF Step
      <4>1. s \in SUBSET (1..(m + 1))
        BY <3>1
      <4>2. g[s] = Step(g, s)
        BY <3>2
      <4> QED
        BY <4>1, <4>2
    <3> HIDE DEF new, Search
    <3>4. ASSUME NEW s \in SUBSET (1..(m + 1)) PROVE Step(new, s) = Step(g, s)
      <4>1. CASE s = {}
        BY <4>1
      <4>2. CASE s # {}
        <5>1. new[s \ {Max(s)}] = g[s \ {Max(s)}]
          BY <1>3, <3>1, <3>3, <4>2
        <5> QED
          BY <5>1, Zenon
      <4> QED
        BY <4>1, <4>2
    <3>5. Search(new, m + 1)
      <4> HIDE DEF Step
      <4>1. [s \in SUBSET (1..(m + 1)) |-> Step(new, s)] = [s \in SUBSET (1..(m + 1)) |-> Step(g, s)]
        BY <3>4
      <4> QED
        BY <4>1 DEF new, Search
    <3> QED
      BY <3>1, <3>5
  <2>3. Nat \subseteq E
    <3> HIDE DEF E
    <3> QED
      BY <2>1, <2>2, SetInduction
  <2>4. n \in E
    <3> HIDE DEF E
    <3> QED
      BY <1>1, <2>3
  <2> HIDE DEF Search
  <2> QED
    BY <2>4
<1> HIDE DEF Search
<1>5. PICK f : f = CHOOSE h : Search(h, n)
  OBVIOUS
<1>6. Search(f, n)
  BY <1>4, <1>5
<1>7. \A s \in SUBSET (1..n) : f[s] = Step(f, s)
  <2> HIDE DEF Step
  <2> QED
    BY <1>6 DEF Search
<1> DEFINE g == [j \in 0..n |-> f[1..j]]
<1>8. g[0] = base
  <2>1. 1..0 = {} /\ 0 \in 0..n /\ {} \in SUBSET (1..n)
    BY <1>1
  <2> QED
    BY <1>7, <2>1
<1>9. ASSUME NEW j \in 1..n PROVE g[j] = AddVideoCache(g[j - 1], p[j])
  <2>0. j \in Int /\ n \in Int /\ 1 <= j /\ j <= n
    BY <1>1
  <2> HIDE DEF n
  <2>4. j \in 0..n /\ j - 1 \in 0..n
    BY <2>0
  <2>5. 1..j \in SUBSET (1..n) /\ 1..j # {}
    BY <2>0
  <2>6. (1..j) \ {j} = 1..(j - 1)
    BY <2>0
  <2>1. j \in 0..n /\ j - 1 \in 0..n /\ j \in Int /\ 1..j \in SUBSET (1..n) /\ 1..j # {}
        /\ (1..j) \ {j} = 1..(j - 1)
    BY <2>0, <2>4, <2>5, <2>6
  <2>2. Max(1..j) = j
    <3>1. j \in 1..j /\ \A x \in 1..j : x \in Int /\ x <= j
      BY <2>1
    <3> QED
      BY <2>1, <3>1, MaxIs
  <2>3. f[1..j] = AddVideoCache(f[(1..j) \ {Max(1..j)}], p[Max(1..j)])
    BY <1>7, <2>1, Zenon
  <2>7. f[1..j] = AddVideoCache(f[1..(j - 1)], p[j])
    BY <2>1, <2>2, <2>3
  <2> QED
    BY <2>1, <2>7
<1>10. g[n] = f[1..n]
  BY <1>1
<1>11. FoldLeft(AddVideoCache, base, p) = g[n]
  BY <1>2, <1>5, <1>10
<1> HIDE DEF g
<1> QED
  BY <1>8, <1>9, <1>11 DEF CacheRuns

-----------------------------------------------------------------------------
(* A NACK is heard as what it asks for.                                    *)

\* What SendNack sends.
Items == [pid : Nat, mask : SUBSET Nat]
NackBlock(item) ==
  [whole |-> TRUE, type |-> Rtpfb, count |-> NackFmt, media |-> Ssrc.video,
   words |-> <<item>>, padding |-> Padding]
ReportWord == [source |-> Ssrc.video, lastSr |-> 0, delay |-> 0]
ReportBlock ==
  [whole |-> TRUE, type |-> ReceiverReport, count |-> 1, media |-> 0,
   words |-> <<ReportWord>>, padding |-> <<>>]
IsNack(message, item) ==
  \/ message = <<NackBlock(item)>>
  \/ message = <<ReportBlock, NackBlock(item)>>
  \/ message = <<NackBlock(item), [ReportBlock EXCEPT !.whole = FALSE]>>

\* The numbers an item asks for.
NumbersOf(item) ==
  {item.pid} \cup {(item.pid + i) % SeqSpace : i \in {b \in 1..MaskBits : b - 1 \in item.mask}}

\* What Nack::Unpack makes of an item: the numbers it asks for.
LEMMA UnpackFacts ==
  ASSUME NEW item \in Items
  PROVE  IsQueue(Unpack(item)) /\ Tasks(Unpack(item)) = NumbersOf(item) /\ NumbersOf(item) \subseteq Nat
<1> DEFINE one(i) == IF i - 1 \in item.mask THEN <<(item.pid + i) % SeqSpace>> ELSE <<>>
           s == [i \in 1..MaskBits |-> one(i)]
<1>1. PICK m \in Nat : m = MaskBits
  BY DEF MaskBits
<1>2. \A i \in 1..m : IsQueue(one(i)) /\ Tasks(one(i)) = IF i - 1 \in item.mask
                                                         THEN {(item.pid + i) % SeqSpace} ELSE {}
  <2>1. ASSUME NEW i \in 1..m PROVE IsQueue(one(i)) /\ Tasks(one(i)) = IF i - 1 \in item.mask
                                                         THEN {(item.pid + i) % SeqSpace} ELSE {}
    <3>1. CASE i - 1 \in item.mask
      <4>1. one(i) = <<(item.pid + i) % SeqSpace>>
        BY <3>1
      <4> HIDE DEF one
      <4> QED
        BY <3>1, <4>1, ListedTasks
    <3>2. CASE i - 1 \notin item.mask
      <4>1. one(i) = <<>>
        BY <3>2
      <4> HIDE DEF one
      <4> QED
        BY <3>2, <4>1, ListedTasks
    <3> QED
      BY <3>1, <3>2
  <2> QED
    BY <2>1
<1> HIDE DEF one
<1>3. s = [i \in 1..m |-> s[i]] /\ \A i \in 1..m : s[i] = one(i)
  BY <1>1
<1>4. Unpack(item) = <<item.pid>> \o FlattenSeq(s)
  BY Zenon DEF Unpack, s, one
<1> HIDE DEF s
<1>5. IsQueue(s) /\ Len(s) = m
  BY <1>3, FunctionQueue
<1>6. IsQueue(FlattenSeq(s)) /\ Tasks(FlattenSeq(s)) = UNION {Tasks(s[k]) : k \in 1..m}
  <2>1. \A k \in 1..Len(s) : IsQueue(s[k])
    BY <1>2, <1>3, <1>5
  <2> QED
    BY <1>5, <2>1, FlattenTasks
<1>7. UNION {Tasks(s[k]) : k \in 1..m} = {(item.pid + i) % SeqSpace : i \in {b \in 1..m : b - 1 \in item.mask}}
  <2>1. \A k \in 1..m : Tasks(s[k]) = IF k - 1 \in item.mask THEN {(item.pid + k) % SeqSpace} ELSE {}
    BY <1>2, <1>3
  <2> QED
    BY <2>1
<1>8. IsQueue(<<item.pid>>) /\ Tasks(<<item.pid>>) = {item.pid}
  BY ListedTasks
<1>9. IsQueue(Unpack(item)) /\ Tasks(Unpack(item)) = {item.pid} \cup Tasks(FlattenSeq(s))
  <2>1. PICK x, y : x = <<item.pid>> /\ y = FlattenSeq(s)
    OBVIOUS
  <2>2. IsQueue(x) /\ IsQueue(y) /\ Tasks(x) = {item.pid}
    BY <1>6, <1>8, <2>1
  <2>3. IsQueue(x \o y)
    BY <2>2, ConcatFacts
  <2>4. Tasks(x \o y) = Tasks(x) \cup Tasks(y)
    BY <2>2, TasksAfter
  <2>5. Unpack(item) = x \o y
    BY <1>4, <2>1
  <2> QED
    BY <2>1, <2>2, <2>3, <2>4, <2>5
<1>10. NumbersOf(item) = {item.pid} \cup {(item.pid + i) % SeqSpace : i \in {b \in 1..m : b - 1 \in item.mask}}
  BY <1>1 DEF NumbersOf
<1>11. NumbersOf(item) \subseteq Nat
  <2>1. item.pid \in Nat
    BY DEF Items
  <2>2. ASSUME NEW i \in 1..m PROVE (item.pid + i) % SeqSpace \in Nat
    <3>1. item.pid + i \in Int
      BY <2>1
    <3>2. PICK z \in Nat \ {0} : z = SeqSpace
      BY SpaceFacts
    <3>3. (item.pid + i) % z \in 0..(z - 1)
      BY <3>1, ModFacts
    <3>4. (item.pid + i) % z \in Nat
      BY <3>3
    <3> QED
      BY <3>2, <3>4
  <2> QED
    BY <1>10, <2>1, <2>2
<1> QED
  BY <1>6, <1>7, <1>9, <1>10, <1>11

\* The items of a NACK, with those the padding is read as, and their numbers.
Asks(item) == <<item>> \o Padding
NackList(item) == FlattenSeq([i \in DOMAIN Asks(item) |-> Unpack(Asks(item)[i])])

\* The list of a NACK: the numbers of its item, and nothing else when there is
\* no padding.
LEMMA NackListFacts ==
  ASSUME NEW item \in Items
  PROVE  /\ IsQueue(Asks(item)) /\ Asks(item) # <<>>
         /\ IsQueue(NackList(item)) /\ Tasks(NackList(item)) \subseteq Nat
         /\ Padding = <<>> => Tasks(NackList(item)) \subseteq NumbersOf(item)
<1>1. PICK q : q = Asks(item)
  OBVIOUS
<1>2. Padding \in Seq(Items)
  BY PaddingAssumption DEF PaddingAssumption, Items
<1>3. PICK x : x = <<item>>
  OBVIOUS
<1>4. IsQueue(x) /\ Len(x) = 1 /\ x[1] = item /\ x \in Seq(Items)
  BY <1>3, ListedTasks
<1>5. IsQueue(Padding) /\ Len(Padding) \in Nat /\ \A i \in 1..Len(Padding) : Padding[i] \in Items
  <2>1. IsQueue(Padding)
    BY <1>2 DEF IsQueue
  <2>2. Len(Padding) \in Nat
    BY <1>2, LenProperties
  <2>3. \A i \in 1..Len(Padding) : Padding[i] \in Items
    BY <1>2, ElementOfSeq
  <2> QED
    BY <2>1, <2>2, <2>3
<1>6. q = x \o Padding
  BY <1>1, <1>3 DEF Asks
<1>7. TwoParts(q, x, Padding)
  BY <1>4, <1>5, <1>6, ConcatTwo
<1>8. PICK n \in Nat : n = Len(Padding)
  BY <1>5
<1>9. IsQueue(q) /\ Len(q) = 1 + n /\ DOMAIN q = 1..(1 + n) /\ q[1] = item
      /\ \A i \in 1..n : q[1 + i] = Padding[i]
  <2>1. IsQueue(q) /\ Len(q) = 1 + n /\ \A i \in 1..n : q[1 + i] = Padding[i]
    BY <1>4, <1>7, <1>8 DEF TwoParts
  <2>2. 1 \in 1..Len(x)
    BY <1>4
  <2>3. q[1] = x[1]
    BY <1>7, <2>2 DEF TwoParts
  <2>4. DOMAIN q = 1..Len(q)
    BY <2>1, QueueBasics
  <2> QED
    BY <1>4, <2>1, <2>3, <2>4
<1>10. \A i \in 1..(1 + n) : q[i] \in Items
  <2>1. ASSUME NEW i \in 1..(1 + n), i # 1 PROVE q[i] \in Items
    <3>1. PICK j \in 1..n : i = 1 + j
      BY <2>1
    <3> QED
      BY <1>5, <1>8, <1>9, <3>1
  <2> QED
    BY <1>9, <2>1
<1> DEFINE u == [i \in 1..(1 + n) |-> Unpack(q[i])]
<1>11. u = [i \in 1..(1 + n) |-> u[i]] /\ \A i \in 1..(1 + n) : u[i] = Unpack(q[i])
  OBVIOUS
<1>12. NackList(item) = FlattenSeq(u)
  BY <1>1, <1>9 DEF NackList
<1> HIDE DEF u
<1>13. IsQueue(u) /\ Len(u) = 1 + n
  BY <1>11, FunctionQueue
<1>14. IsQueue(FlattenSeq(u)) /\ Tasks(FlattenSeq(u)) = UNION {Tasks(u[k]) : k \in 1..(1 + n)}
  <2>1. \A k \in 1..Len(u) : IsQueue(u[k])
    BY <1>10, <1>11, <1>13, UnpackFacts
  <2> QED
    BY <1>13, <2>1, FlattenTasks
<1>15. \A k \in 1..(1 + n) : Tasks(u[k]) = NumbersOf(q[k]) /\ NumbersOf(q[k]) \subseteq Nat
  BY <1>10, <1>11, UnpackFacts
<1>16. Padding = <<>> => UNION {Tasks(u[k]) : k \in 1..(1 + n)} \subseteq NumbersOf(item)
  <2> SUFFICES ASSUME Padding = <<>>, NEW k \in 1..(1 + n) PROVE Tasks(u[k]) \subseteq NumbersOf(item)
    OBVIOUS
  <2>1. n = 0
    BY <1>8
  <2>2. k = 1
    BY <2>1
  <2> QED
    BY <1>9, <1>15, <2>2
<1>17. q # <<>>
  BY <1>9, QueueBasics
<1> QED
  BY <1>1, <1>9, <1>12, <1>14, <1>15, <1>16, <1>17

-----------------------------------------------------------------------------
\* What the handlers of the blocks tell.
NackCall(item) == [to |-> "OnNackReceived", list |-> NackList(item)]

\* The types of blocks differ.
LEMMA BlockTypes ==
  Rtpfb # ReceiverReport /\ NackFmt = 1
BY DEF Rtpfb, ReceiverReport, NackFmt

\* A NACK is told to the observer.
LEMMA NackBlockHeard ==
  ASSUME NEW item \in Items, NEW heard
  PROVE  HandleBlock(Ssrc.video, 0, heard, NackBlock(item)) = Call(heard, NackCall(item))
<1>1. PICK b : b = NackBlock(item)
  OBVIOUS
<1>2. b.type = Rtpfb /\ b.count = NackFmt /\ Payload(b) = Asks(item)
  BY <1>1 DEF NackBlock, Payload, Asks
<1>3. HandleBlock(Ssrc.video, 0, heard, b) = HandleNack(heard, b)
  <2>1. ~(b.type = ReceiverReport)
    BY <1>2, BlockTypes
  <2>2. NackFmt # TransportFeedbackFmt
    BY DEF NackFmt, TransportFeedbackFmt
  <2> QED
    BY <1>2, <2>1, <2>2, Zenon DEF HandleBlock
<1>4. HandleNack(heard, b) = Call(heard, NackCall(item))
  <2>1. Payload(b) # <<>>
    BY <1>2, NackListFacts
  <2> QED
    BY <1>2, <2>1 DEF HandleNack, NackCall, NackList
<1> QED
  BY <1>1, <1>3, <1>4

\* A report without a sender report tells nothing.
LEMMA ReportBlockHeard ==
  ASSUME NEW heard
  PROVE  HandleBlock(Ssrc.video, 0, heard, ReportBlock) = heard
<1>1. PICK b, w : b = ReportBlock /\ w = <<ReportWord>>
  OBVIOUS
<1>2. IsQueue(w) /\ Len(w) = 1 /\ w[1] = ReportWord
  BY <1>1, ListedTasks
<1>3. b.type = ReceiverReport /\ b.count = 1 /\ Payload(b) = w \o <<>>
  BY <1>1 DEF ReportBlock, Payload
<1>4. w \o <<>> = w
  <2>1. IsQueue(<<>>) /\ Len(<<>>) = 0
    BY ListedTasks
  <2>2. PICK r : r = w \o <<>>
    OBVIOUS
  <2>3. IsQueue(r) /\ Len(r) = 1 + 0 /\ \A i \in 1..Len(w) : r[i] = w[i]
    BY <1>2, <2>1, <2>2, ConcatFacts
  <2>4. r = w
    BY <1>2, <2>3, QueueEqual
  <2> QED
    BY <2>2, <2>4
<1>5. HandleBlock(Ssrc.video, 0, heard, b) = HandleReceiverReport(Ssrc.video, 0, heard, b)
  <2>1. ~(b.type = Rtpfb)
    BY <1>3, BlockTypes
  <2> QED
    BY <1>3, <2>1, Zenon DEF HandleBlock
<1>6. HandleReceiverReport(Ssrc.video, 0, heard, b) =
        FoldLeft(LAMBDA h, report : HandleReportBlock(Ssrc.video, 0, h, report), heard, w)
  <2>1. SubSeq(w, 1, 1) = w
    BY <1>2, Stretches
  <2>2. Payload(b) = w /\ ~(Len(w) < 1)
    BY <1>2, <1>3, <1>4
  <2> QED
    BY <1>3, <2>1, <2>2, Zenon DEF HandleReceiverReport
<1>7. PICK g : /\ g[0] = heard /\ ReportsRun(g, w)
               /\ FoldLeft(LAMBDA h, report : HandleReportBlock(Ssrc.video, 0, h, report), heard, w) = g[Len(w)]
  BY <1>2, ReportsFold, Zenon
<1>8. g[1] = HandleReportBlock(Ssrc.video, 0, g[0], ReportWord)
  <2>1. 1 \in 1..Len(w) /\ 1 - 1 = 0
    BY <1>2
  <2>2. g[1] = HandleReportBlock(Ssrc.video, 0, g[1 - 1], w[1])
    BY <1>7, <2>1 DEF ReportsRun
  <2> QED
    BY <1>2, <2>1, <2>2
<1>9. g[1] = heard
  BY <1>7, <1>8 DEF HandleReportBlock, ReportWord
<1> QED
  BY <1>1, <1>2, <1>5, <1>6, <1>7, <1>9

\* What a message of SendNack makes OnNackReceived be called with.
HeardList(calls) ==
  FlattenSeq([i \in DOMAIN calls |-> IF calls[i].to = "OnNackReceived" THEN calls[i].list ELSE <<>>])

\* One NACK is told as its list.
LEMMA HeardListIs ==
  ASSUME NEW item \in Items, NEW calls, calls = <<NackCall(item)>>
  PROVE  IsQueue(HeardList(calls)) /\ Tasks(HeardList(calls)) = Tasks(NackList(item))
<1>1. DOMAIN calls = 1..1 /\ calls[1] = NackCall(item)
  OBVIOUS
<1>2. NackCall(item).to = "OnNackReceived" /\ NackCall(item).list = NackList(item)
  BY DEF NackCall
<1> DEFINE s == [i \in 1..1 |-> NackList(item)]
<1>3. HeardList(calls) = FlattenSeq(s)
  <2>1. [i \in DOMAIN calls |-> IF calls[i].to = "OnNackReceived" THEN calls[i].list ELSE <<>>] = s
    BY <1>1, <1>2
  <2> QED
    BY <2>1, Zenon DEF HeardList
<1>4. s = [i \in 1..1 |-> s[i]] /\ s[1] = NackList(item)
  OBVIOUS
<1> HIDE DEF s
<1>5. IsQueue(s) /\ Len(s) = 1
  BY <1>4, FunctionQueue
<1>6. IsQueue(NackList(item))
  BY NackListFacts
<1>7. \A k \in 1..Len(s) : k = 1
  BY <1>5
<1>8. IsQueue(FlattenSeq(s)) /\ Tasks(FlattenSeq(s)) = UNION {Tasks(s[k]) : k \in 1..Len(s)}
  <2>1. \A k \in 1..Len(s) : IsQueue(s[k])
    BY <1>4, <1>6, <1>7
  <2> QED
    BY <1>5, <2>1, FlattenTasks
<1>9. UNION {Tasks(s[k]) : k \in 1..Len(s)} = Tasks(NackList(item))
  <2>1. 1 \in 1..Len(s)
    BY <1>5
  <2> QED
    BY <1>4, <1>7, <2>1
<1> QED
  BY <1>3, <1>8, <1>9

\* What whole blocks tell.
Heard(blocks) ==
  FoldLeft(LAMBDA h, block : HandleBlock(Ssrc.video, 0, h, block), NothingHeard, blocks)

\* Blocks are handled one after the other.
LEMMA HeardRuns ==
  ASSUME NEW p, IsQueue(p)
  PROVE  \E g : g[0] = NothingHeard /\ BlocksRun(g, p) /\ Heard(p) = g[Len(p)]
BY BlocksFold, Zenon DEF Heard

\* The blocks before the first one that was cut off.
LEMMA Compound ==
  ASSUME NEW blocks, IsQueue(blocks), NEW upTo \in Nat, upTo <= Len(blocks),
         \A j \in 1..upTo : blocks[j].whole,
         upTo < Len(blocks) => ~blocks[upTo + 1].whole
  PROVE  \/ ParseCompoundPacket(Ssrc.video, 0, blocks) = Heard(SubSeq(blocks, 1, upTo))
         \/ ParseCompoundPacket(Ssrc.video, 0, blocks) = Skip(Heard(SubSeq(blocks, 1, upTo)))
<1>4. upTo < Len(blocks) \/ upTo = Len(blocks)
  <2>1. PICK l \in Nat : l = Len(blocks)
    BY QueueBasics
  <2>2. upTo <= l
    BY <2>1
  <2>3. upTo < l \/ upTo = l
    BY <2>2
  <2> QED
    BY <2>1, <2>3
<1> DEFINE Malformed(k) == ~blocks[k].whole /\ \A j \in 1..(k - 1) : blocks[j].whole
           end == IF \E k \in DOMAIN blocks : Malformed(k)
                  THEN (CHOOSE k \in DOMAIN blocks : Malformed(k)) - 1 ELSE Len(blocks)
<1>1. Len(blocks) \in Nat /\ DOMAIN blocks = 1..Len(blocks)
  BY QueueBasics
<1>2. end = upTo
  <2>1. CASE upTo < Len(blocks)
    <3>1. upTo + 1 \in DOMAIN blocks /\ Malformed(upTo + 1)
      BY <1>1, <2>1
    <3>2. ASSUME NEW k \in DOMAIN blocks, Malformed(k) PROVE k = upTo + 1
      <4>1. k \in 1..Len(blocks)
        BY <1>1
      <4>2. CASE k < upTo + 1
        <5>1. k \in 1..upTo
          BY <4>1, <4>2
        <5> QED
          BY <3>2, <5>1
      <4>3. CASE k > upTo + 1
        <5>1. upTo + 1 \in 1..(k - 1)
          BY <4>1, <4>3
        <5> QED
          BY <2>1, <3>2, <5>1
      <4> QED
        BY <4>1, <4>2, <4>3
    <3>3. (CHOOSE k \in DOMAIN blocks : Malformed(k)) = upTo + 1
      <4> HIDE DEF Malformed
      <4> QED
        BY <3>1, <3>2, Zenon
    <3>4. end = (upTo + 1) - 1
      <4> HIDE DEF Malformed
      <4> QED
        BY <3>1, <3>3, Zenon
    <3> HIDE DEF end
    <3> QED
      BY <3>4
  <2>2. CASE upTo = Len(blocks)
    <3>1. ~ \E k \in DOMAIN blocks : Malformed(k)
      BY <1>1, <2>2
    <3> HIDE DEF Malformed
    <3> QED
      BY <2>2, <3>1, Zenon
  <2> HIDE DEF end, Malformed
  <2> QED
    BY <1>4, <2>1, <2>2, Zenon
<1>3. ParseCompoundPacket(Ssrc.video, 0, blocks) =
        IF end \notin {0, Len(blocks)} THEN Skip(Heard(SubSeq(blocks, 1, end)))
                                       ELSE Heard(SubSeq(blocks, 1, end))
  BY Zenon DEF ParseCompoundPacket, Heard
<1> HIDE DEF end
<1> QED
  BY <1>2, <1>3, Zenon

\* One call comes of a NACK, whatever comes with it.
LEMMA NackHeard ==
  ASSUME NEW item \in Items, NEW message, IsNack(message, item)
  PROVE  ParseCompoundPacket(Ssrc.video, 0, message).calls = <<NackCall(item)>>
<1>1. PICK a, b, c : a = NackBlock(item) /\ b = ReportBlock /\ c = [ReportBlock EXCEPT !.whole = FALSE]
  OBVIOUS
<1>2. a.whole /\ b.whole /\ ~c.whole
  BY <1>1 DEF NackBlock, ReportBlock
<1>3. PICK x : x = Call(NothingHeard, NackCall(item))
  OBVIOUS
<1>4. x.calls = <<NackCall(item)>> /\ Skip(x).calls = <<NackCall(item)>>
  BY <1>3 DEF Call, NothingHeard, Skip
<1>5. ASSUME NEW g, NEW h, g = HandleBlock(Ssrc.video, 0, h, a), h = NothingHeard
      PROVE  g = x
  BY <1>1, <1>3, <1>5, NackBlockHeard
<1>6. ASSUME NEW q, q = <<a>> PROVE Heard(q) = x
  <2>1. IsQueue(q) /\ Len(q) = 1 /\ q[1] = a /\ 1 \in 1..Len(q) /\ 1 - 1 = 0
    BY <1>6, ListedTasks
  <2>2. PICK g : /\ g[0] = NothingHeard /\ BlocksRun(g, q) /\ Heard(q) = g[Len(q)]
    BY <2>1, HeardRuns, Zenon
  <2>3. g[1] = HandleBlock(Ssrc.video, 0, g[1 - 1], q[1])
    BY <2>1, <2>2 DEF BlocksRun
  <2> QED
    BY <1>5, <2>1, <2>2, <2>3
<1>7. ASSUME NEW q, q = <<b, a>> PROVE Heard(q) = x
  <2>1. /\ IsQueue(q) /\ Len(q) = 2 /\ q[1] = b /\ q[2] = a
        /\ 1 \in 1..Len(q) /\ 2 \in 1..Len(q) /\ 1 - 1 = 0 /\ 2 - 1 = 1
    BY <1>7, ListedTasks
  <2>2. PICK g : /\ g[0] = NothingHeard /\ BlocksRun(g, q) /\ Heard(q) = g[Len(q)]
    BY <2>1, HeardRuns, Zenon
  <2>3. g[1] = HandleBlock(Ssrc.video, 0, g[1 - 1], q[1]) /\ g[2] = HandleBlock(Ssrc.video, 0, g[2 - 1], q[2])
    BY <2>1, <2>2 DEF BlocksRun
  <2>4. g[1] = NothingHeard
    BY <1>1, <2>1, <2>2, <2>3, ReportBlockHeard
  <2> QED
    BY <1>5, <2>1, <2>2, <2>3, <2>4
<1>8. CASE message = <<a>>
  <2>1. /\ IsQueue(message) /\ Len(message) = 1 /\ 1 \in Nat /\ 1 <= Len(message) /\ ~(1 < Len(message))
        /\ \A j \in 1..1 : message[j].whole
    BY <1>2, <1>8, ListedTasks
  <2>2. SubSeq(message, 1, 1) = <<a>>
    BY <1>8, <2>1, Stretches
  <2>3. \/ ParseCompoundPacket(Ssrc.video, 0, message) = Heard(<<a>>)
        \/ ParseCompoundPacket(Ssrc.video, 0, message) = Skip(Heard(<<a>>))
    BY <2>1, <2>2, Compound, Zenon
  <2>4. Heard(<<a>>) = x
    BY <1>6, Zenon
  <2> QED
    BY <1>4, <2>3, <2>4
<1>9. CASE message = <<b, a>>
  <2>1. /\ IsQueue(message) /\ Len(message) = 2 /\ 2 \in Nat /\ 2 <= Len(message) /\ ~(2 < Len(message))
        /\ \A j \in 1..2 : message[j].whole
    BY <1>2, <1>9, ListedTasks
  <2>2. SubSeq(message, 1, 2) = message
    BY <2>1, Stretches
  <2>3. \/ ParseCompoundPacket(Ssrc.video, 0, message) = Heard(message)
        \/ ParseCompoundPacket(Ssrc.video, 0, message) = Skip(Heard(message))
    BY <2>1, <2>2, Compound, Zenon
  <2>4. Heard(message) = x
    BY <1>7, <1>9, Zenon
  <2> QED
    BY <1>4, <2>3, <2>4
<1>10. CASE message = <<a, c>>
  <2>1. /\ IsQueue(message) /\ Len(message) = 2 /\ 1 \in Nat /\ 1 <= Len(message) /\ 1 < Len(message)
        /\ (\A j \in 1..1 : message[j].whole) /\ ~message[1 + 1].whole
    BY <1>2, <1>10, ListedTasks
  <2>2. SubSeq(message, 1, 1) = <<a>>
    <3>1. 1 \in 1..Len(message) /\ message[1] = a
      BY <1>10, <2>1
    <3> QED
      BY <2>1, <3>1, Stretches
  <2>3. \/ ParseCompoundPacket(Ssrc.video, 0, message) = Heard(<<a>>)
        \/ ParseCompoundPacket(Ssrc.video, 0, message) = Skip(Heard(<<a>>))
    BY <2>1, <2>2, Compound, Zenon
  <2>4. Heard(<<a>>) = x
    BY <1>6, Zenon
  <2> QED
    BY <1>4, <2>3, <2>4
<1> QED
  BY <1>1, <1>8, <1>9, <1>10 DEF IsNack

-----------------------------------------------------------------------------
(* A round-trip time is heard as it was.                                   *)

\* A number is a remainder and a multiple.
LEMMA Quotient ==
  ASSUME NEW a \in Nat, NEW m \in Nat \ {0}
  PROVE  \E l \in Nat, q \in Int : l = a % m /\ a = q * m + l
<1>1. a \in Int
  OBVIOUS
<1>2. a % m \in 0..(m - 1) /\ \E q \in Int : a = q * m + (a % m)
  BY <1>1, ModFacts, Zenon
<1>3. \A l \in 0..(m - 1) : l \in Nat
  OBVIOUS
<1> QED
  BY <1>2, <1>3, Zenon

\* A product of two numbers.
LEMMA Products ==
  ASSUME NEW a \in Nat, NEW b \in Nat
  PROVE  a * b \in Nat
OBVIOUS

\* An interval of compact NTP time that is not negative is rounded to the
\* nearest unit of a second / MsSecond, and to 1 when it is less.
LEMMA IntervalRounded ==
  ASSUME NEW t \in Nat, 2 * t <= NtpModulus, NEW ms, ms = CompactNtpRttToMs(t)
  PROVE  /\ ms \in Nat \ {0}
         /\ \/ ms = 1 /\ t * MsSecond <= NtpSecond
            \/ /\ 2 * (ms * NtpSecond - t * MsSecond) <= NtpSecond
               /\ 2 * (t * MsSecond - ms * NtpSecond) <= NtpSecond
<1>1. PICK s \in Nat \ {0}, m \in Nat, w \in Nat : s = NtpSecond /\ m = MsSecond /\ w = NtpModulus
  BY RtcpReceiverAssumption DEF RtcpReceiverAssumption
<1>2. PICK p \in Nat : p = t * m
  BY Products
<1>3. 2 * t * m + s = 2 * p + s /\ 2 * s \in Nat \ {0} /\ 2 * p + s \in Nat
  <2>1. 2 * t * m = 2 * (t * m)
    OBVIOUS
  <2> QED
    BY <1>2, <2>1
<1>4. PICK q \in Nat, r \in 0..(2 * s - 1) :
        q = (2 * p + s) \div (2 * s) /\ 2 * p + s = (q * (2 * s)) + r
  BY <1>3, DivFacts, ZenonT(60)
<1>5. PICK x \in Nat : x = q * s
  BY Products
<1>6. q * (2 * s) = 2 * x
  BY <1>5
<1>7. 2 * p + s = 2 * x + r
  BY <1>4, <1>6
<1>8. ms = IF 2 * t > w \/ q < 1 THEN 1 ELSE q
  BY <1>1, <1>3, <1>4 DEF CompactNtpRttToMs
<1>9. ~(2 * t > w)
  BY <1>1
<1>10. CASE q < 1
  <2>1. q = 0 /\ ms = 1
    BY <1>8, <1>10
  <2>2. x = 0
    BY <1>5, <2>1
  <2>3. p <= s
    BY <1>7, <2>2
  <2> QED
    BY <1>1, <1>2, <2>1, <2>3
<1>11. CASE ~(q < 1)
  <2>1. ms = q /\ ms \in Nat \ {0}
    BY <1>8, <1>9, <1>11
  <2>2. 2 * (x - p) <= s /\ 2 * (p - x) <= s
    BY <1>7
  <2>3. ms * NtpSecond = x /\ t * MsSecond = p /\ NtpSecond = s
    BY <1>1, <1>2, <1>5, <2>1
  <2> QED
    BY <2>1, <2>2, <2>3
<1> QED
  BY <1>10, <1>11

\* The round-trip time read from a report is the time since the sender report
\* without the time the receiver held it back, to the nearest millisecond,
\* wherever the compact clock wraps in between: at least 1, and right as long
\* as it is shorter than half of that clock.
THEOREM RttIsRounded ==
  ASSUME NEW sr \in Nat, NEW held \in Nat, NEW now \in Nat, sr + held <= now,
         2 * (now - sr - held) < NtpModulus,
         NEW report, report.lastSr = sr % NtpModulus, report.delay = held,
         NEW rtt, rtt = RttOf(report, now), NEW true, true = now - sr - held
  PROVE  /\ rtt \in Nat \ {0}
         /\ \/ rtt = 1 /\ true * MsSecond <= NtpSecond
            \/ /\ 2 * (rtt * NtpSecond - true * MsSecond) <= NtpSecond
               /\ 2 * (true * MsSecond - rtt * NtpSecond) <= NtpSecond
<1>1. PICK w \in Nat \ {0} : w = NtpModulus
  BY RtcpReceiverAssumption DEF RtcpReceiverAssumption
<1>2. PICK l \in Nat, q \in Int : l = sr % w /\ sr = q * w + l
  BY Quotient, Zenon
<1>3. true \in Nat /\ true \in 0..(w - 1)
  BY <1>1
<1>4. now - l - held = q * w + true
  <2>1. PICK z \in Int : z = q * w
    OBVIOUS
  <2> QED
    BY <1>2, <2>1
<1>5. (now - l - held) % w = true
  BY <1>3, <1>4, ModUnique
<1>6. rtt = CompactNtpRttToMs(true)
  BY <1>1, <1>2, <1>5 DEF RttOf
<1> QED
  BY <1>1, <1>3, <1>6, IntervalRounded

-----------------------------------------------------------------------------
(* The invariant.                                                          *)

\* The packets are numbered through, frame by frame.
FramesInv == frames \in Seq(Frames) /\ created = CountOf(frames) /\ created < SeqSpace

\* A transport that knows the other end only.
Fresh(transport) ==
  \E r, c : transport = [remote |-> r, local |-> NoInfo, candidates |-> c]

\* Nothing is sent before there is an answer, and the answer is one of a sink.
SessionInv ==
  /\ connected \in BOOLEAN
  /\ desc # EmptyDescription /\ ~desc.refused => DOMAIN transports = WithTransport(desc)
  /\ answer = NoAnswer => /\ ~connected /\ frames = <<>> /\ wire = {}
                          /\ \A mid \in DOMAIN transports : Fresh(transports[mid])
  /\ answer # NoAnswer => /\ desc # EmptyDescription /\ ~desc.refused
                          /\ \E options \in Options : answer = Answer(options, Ssrc)
                          /\ "audio" \in DOMAIN transports => transports["audio"].local.ufrag = "own"

\* The pacer and the cache have packets of frames.
PacerInv == IsQueue(pacer) /\ \A p \in Tasks(pacer) : Sent(p, frames)

CacheInv ==
  /\ DOMAIN cache = 0..(CacheSize - 1)
  /\ \A i \in DOMAIN cache :
        cache[i] = NoPacket \/ (Sent(cache[i], frames) /\ cache[i].seq % CacheSize = i)

\* The feedback adapter knows them all, and what it was announced.
AddedInv ==
  /\ \A f, k : Place(frames, f, k) =>
        SendInfo(PacketAt(frames, f, k), PacketAt(frames, f, k).seq) \in added
  /\ announced \subseteq {info.id : info \in added}

\* What is on the wire is audio, a packet of a frame that was announced, or one
\* of a frame repeated, because it was requested.
IsAudio(p) == p.ssrc = Ssrc.audio /\ p.pt = PayloadTypes.audio
IsVideo(p) == Sent(p, frames) /\ p.seq \in announced
IsRepeat(p) == \E q : Sent(q, frames) /\ q.seq \in requested /\ Repeats(p, q)

WireInv == \A p \in wire : IsAudio(p) \/ IsVideo(p) \/ IsRepeat(p)

\* What the receiver has as number n is what was sent under that number.
Arrived(n) ==
  \E f, k : /\ Place(frames, f, k) /\ n = NumberAt(frames, f, k)
            /\ received[n] = [ts |-> f, marker |-> (k = Len(CutOf(frames[f]))),
                              payload |-> CutOf(frames[f])[k]]

ReceiverInv == \A n \in DOMAIN received : Arrived(n)

\* A NACK asks for what the receiver misses; no more was requested.
NackInv ==
  /\ \A message \in rtcp : \E item \in Items : IsNack(message, item) /\ NumbersOf(item) \subseteq asked
  /\ Padding = <<>> => requested \subseteq asked

IndInv ==
  /\ FramesInv /\ SessionInv /\ PacerInv /\ CacheInv
  /\ AddedInv /\ WireInv /\ ReceiverInv /\ NackInv

-----------------------------------------------------------------------------
\* There is no packet before there is a frame.
LEMMA NoFrames ==
  /\ <<>> \in Seq(Frames) /\ CountOf(<<>>) = 0
  /\ \A f, k : ~Place(<<>>, f, k)
  /\ \A p : ~Sent(p, <<>>)
<1>1. <<>> \in Seq(Frames) /\ Len(<<>>) = 0
  OBVIOUS
<1>2. Ends(Starts(<<>>), Counts(<<>>), Len(<<>>))
  BY <1>1, StartsFacts
<1>3. Starts(<<>>)[1] = 0
  BY <1>2 DEF Ends
<1>4. CountOf(<<>>) = 0
  <2>1. 0 + 1 = 1
    OBVIOUS
  <2> QED
    BY <1>1, <1>3, <2>1 DEF CountOf
<1>5. \A f, k : ~Place(<<>>, f, k)
  BY <1>1 DEF Place
<1> QED
  BY <1>1, <1>4, <1>5 DEF Sent

\* The invariant holds at the start.
LEMMA InitInv ==
  Init => IndInv
<1> SUFFICES ASSUME Init PROVE IndInv
  OBVIOUS
<1>1. FramesInv
  BY NoFrames, SpaceFacts DEF Init, FramesInv
<1>2. SessionInv
  BY DEF Init, SessionInv
<1>3. PacerInv
  <2>1. IsQueue(<<>>) /\ Tasks(<<>>) = {}
    BY ListedTasks
  <2> QED
    BY <2>1 DEF Init, PacerInv
<1>4. CacheInv
  BY DEF Init, CacheInv
<1>5. AddedInv
  BY NoFrames DEF Init, AddedInv
<1>6. WireInv
  BY DEF Init, WireInv
<1>7. ReceiverInv
  BY DEF Init, ReceiverInv
<1>8. NackInv
  BY DEF Init, NackInv
<1> QED
  BY <1>1, <1>2, <1>3, <1>4, <1>5, <1>6, <1>7, <1>8 DEF IndInv

-----------------------------------------------------------------------------
\* What keeps each part when its variables stay, or when more is known.
LEMMA FramesKept ==
  ASSUME FramesInv, UNCHANGED <<frames, created>>
  PROVE  FramesInv'
BY DEF FramesInv

\* The packets of the sender.
LEMMA SendingKept ==
  ASSUME PacerInv, CacheInv, AddedInv, UNCHANGED <<frames, pacer, cache, added, announced>>
  PROVE  PacerInv' /\ CacheInv' /\ AddedInv'
BY DEF PacerInv, CacheInv, AddedInv

\* The wire.
LEMMA WireKept ==
  ASSUME WireInv, UNCHANGED <<frames, wire, announced, requested>>
  PROVE  WireInv'
BY DEF WireInv, IsAudio, IsVideo, IsRepeat

\* The receiver.
LEMMA ReceiverKept ==
  ASSUME ReceiverInv, UNCHANGED <<frames, received>>
  PROVE  ReceiverInv'
BY DEF ReceiverInv, Arrived

\* The NACKs.
LEMMA NackKept ==
  ASSUME NackInv, UNCHANGED <<asked, rtcp, requested>>
  PROVE  NackInv'
BY DEF NackInv

\* The session.
LEMMA SessionKept ==
  ASSUME SessionInv, UNCHANGED <<connected, desc, answer, transports, frames, wire>>
  PROVE  SessionInv'
BY DEF SessionInv

\* When the call is up, there is an answer.
LEMMA ConnectedAnswered ==
  ASSUME SessionInv, connected
  PROVE  answer # NoAnswer
BY DEF SessionInv

\* More on the wire, while there is an answer, is nothing to the session.
LEMMA SessionSends ==
  ASSUME SessionInv, answer # NoAnswer, UNCHANGED <<connected, desc, answer, transports>>
  PROVE  SessionInv'
BY DEF SessionInv

-----------------------------------------------------------------------------
(* The session and the way to the wire keep the invariant.                 *)

\* A description that is read makes new transports, or is refused.
LEMMA SetRemoteSDPKeeps ==
  ASSUME IndInv, NEW offer, SetRemoteSDP(offer)
  PROVE  IndInv'
<1>1. SessionInv'
  <2>1. desc = EmptyDescription /\ answer = NoAnswer /\ UNCHANGED <<connected, answer, frames, wire>>
        /\ transports' = IF desc'.refused THEN transports ELSE RemoteTransports(desc')
    BY DEF IndInv, SessionInv, SetRemoteSDP, session, link, sender
  <2>2. DOMAIN RemoteTransports(desc') = WithTransport(desc')
        /\ \A mid \in DOMAIN RemoteTransports(desc') : Fresh(RemoteTransports(desc')[mid])
    BY DEF RemoteTransports, Fresh
  <2>3. CASE desc'.refused
    <3>1. transports' = transports
      BY <2>1, <2>3
    <3> QED
      BY <2>1, <2>3, <3>1 DEF IndInv, SessionInv
  <2>4. CASE ~desc'.refused
    <3>1. transports' = RemoteTransports(desc')
      BY <2>1, <2>4
    <3> QED
      BY <2>1, <2>2, <2>4, <3>1 DEF IndInv, SessionInv
  <2> QED
    BY <2>3, <2>4
<1>2. UNCHANGED <<frames, created, pacer, cache, added, announced, wire, requested, received, asked, rtcp>>
  BY DEF SetRemoteSDP, link, sender, receiver
<1> QED
  BY <1>1, <1>2, FramesKept, SendingKept, WireKept, ReceiverKept, NackKept DEF IndInv

\* The answer gives the transport of the media its own parameters.
LEMMA CreateAnswerKeeps ==
  ASSUME IndInv, NEW options \in Options, CreateAnswer(options)
  PROVE  IndInv'
<1>1. SessionInv'
  <2>1. /\ desc # EmptyDescription /\ ~desc.refused /\ answer = NoAnswer
        /\ answer' = Answer(options, Ssrc)
        /\ transports' = LocalTransports(transports, answer')
        /\ UNCHANGED <<connected, desc, frames, wire>>
    BY DEF CreateAnswer, link, sender
  <2>2. answer' # NoAnswer /\ "audio" \in WithTransport(answer') /\ answer'.infos["audio"].ufrag = "own"
    BY <2>1, AnswerFacts, AnswerTransport
  <2>3. DOMAIN transports' = DOMAIN transports
    BY <2>1 DEF LocalTransports
  <2>4. "audio" \in DOMAIN transports' => transports'["audio"].local.ufrag = "own"
    <3> SUFFICES ASSUME "audio" \in DOMAIN transports PROVE transports'["audio"].local.ufrag = "own"
      BY <2>3
    <3>1. transports'["audio"] = [transports["audio"] EXCEPT !.local = answer'.infos["audio"]]
      BY <2>1, <2>2 DEF LocalTransports
    <3>2. PICK r, c : transports["audio"] = [remote |-> r, local |-> NoInfo, candidates |-> c]
      BY <2>1 DEF IndInv, SessionInv, Fresh
    <3>3. transports'["audio"].local = answer'.infos["audio"]
      BY <3>1, <3>2
    <3> QED
      BY <2>2, <3>3
  <2> QED
    BY <2>1, <2>2, <2>3, <2>4 DEF IndInv, SessionInv
<1>2. UNCHANGED <<frames, created, pacer, cache, added, announced, wire, requested, received, asked, rtcp>>
  BY DEF CreateAnswer, link, sender, receiver
<1> QED
  BY <1>1, <1>2, FramesKept, SendingKept, WireKept, ReceiverKept, NackKept DEF IndInv

\* No transport is complete before there is an answer.
LEMMA OnIceStateKeeps ==
  ASSUME IndInv, NEW up \in BOOLEAN, OnIceState(up)
  PROVE  IndInv'
<1>1. SessionInv'
  <2>1. PICK mid \in DOMAIN transports : Complete(transports[mid])
    BY DEF OnIceState
  <2>2. answer # NoAnswer
    <3> SUFFICES ASSUME answer = NoAnswer PROVE FALSE
      OBVIOUS
    <3>1. PICK r, c : transports[mid] = [remote |-> r, local |-> NoInfo, candidates |-> c]
      BY DEF IndInv, SessionInv, Fresh
    <3>2. transports[mid].local.ufrag = ""
      <4>1. NoInfo.ufrag = ""
        BY DEF NoInfo
      <4>2. transports[mid].local = NoInfo
        BY <3>1
      <4> QED
        BY <4>1, <4>2
    <3> QED
      BY <2>1, <3>2 DEF Complete
  <2>3. connected' \in BOOLEAN /\ UNCHANGED <<desc, transports, answer, frames, wire>>
    BY DEF OnIceState, session, sender
  <2> QED
    BY <2>2, <2>3 DEF IndInv, SessionInv
<1>2. UNCHANGED <<frames, created, pacer, cache, added, announced, wire, requested, received, asked, rtcp>>
  BY DEF OnIceState, session, sender, receiver
<1> QED
  BY <1>1, <1>2, FramesKept, SendingKept, WireKept, ReceiverKept, NackKept DEF IndInv

\* Audio is on the wire at once.
LEMMA SendEncodedAudioKeeps ==
  ASSUME IndInv, NEW payload, SendEncodedAudio(payload)
  PROVE  IndInv'
<1>1. UNCHANGED <<frames, created, pacer, cache, added, announced, requested, received, asked, rtcp,
                  connected, desc, answer, transports>>
  BY DEF SendEncodedAudio, session, link, sender, receiver
<1>2. SessionInv'
  <2>1. connected
    BY DEF SendEncodedAudio
  <2> QED
    BY <1>1, <2>1, ConnectedAnswered, SessionSends DEF IndInv
<1>3. WireInv'
  <2>1. PICK a : a = [WithPayload(NewPacket(NoExtensions), payload)
                      EXCEPT !.pt = PayloadTypes.audio, !.ssrc = Ssrc.audio, !.seq = Wire(audioSent)]
    OBVIOUS
  <2>2. IsAudio(a)
    BY <2>1, AudioFacts DEF IsAudio
  <2>3. wire' \subseteq wire \cup {a}
    BY <2>1 DEF SendEncodedAudio, Transmitted
  <2> QED
    BY <1>1, <2>2, <2>3 DEF IndInv, WireInv, IsAudio, IsVideo, IsRepeat
<1> QED
  BY <1>1, <1>2, <1>3, FramesKept, SendingKept, ReceiverKept, NackKept DEF IndInv

\* A packet that leaves the pacer is announced under its number.
LEMMA SendPacketKeeps ==
  ASSUME IndInv, SendPacket
  PROVE  IndInv'
<1>1. UNCHANGED <<frames, created, cache, added, requested, received, asked, rtcp,
                  connected, desc, answer, transports>>
  BY DEF SendPacket, session, link, sender, receiver
<1>2. PICK p : p = Head(pacer)
  OBVIOUS
<1>3. Sent(p, frames) /\ IsQueue(Tail(pacer)) /\ Tasks(Tail(pacer)) \subseteq Tasks(pacer)
  <2>1. IsQueue(pacer) /\ pacer # <<>>
    BY DEF IndInv, PacerInv, SendPacket
  <2>2. Tasks(pacer) = Tasks(Tail(pacer)) \cup {p}
    BY <1>2, <2>1, TasksAfter
  <2> QED
    BY <2>1, <2>2, TailFacts DEF IndInv, PacerInv
<1>4. PICK f, k : Place(frames, f, k) /\ p = PacketAt(frames, f, k)
  BY <1>3 DEF Sent
<1>5. PacketIds(p) = {p.seq}
  BY <1>4, PacketAtFacts DEF IndInv, FramesInv
<1>6. \/ connected /\ wire' \subseteq wire \cup {p} /\ announced' = announced \cup {p.seq}
      \/ UNCHANGED <<wire, announced>>
  BY <1>2, <1>5 DEF SendPacket, Transmitted
<1>7. SessionInv'
  <2>1. CASE connected
    BY <1>1, <2>1, ConnectedAnswered, SessionSends DEF IndInv
  <2>2. CASE ~connected
    <3>1. UNCHANGED wire
      BY <1>6, <2>2
    <3> QED
      BY <1>1, <3>1, SessionKept DEF IndInv
  <2> QED
    BY <2>1, <2>2
<1>8. PacerInv'
  <2>1. pacer' = Tail(pacer)
    BY DEF SendPacket
  <2> QED
    BY <1>1, <1>3, <2>1 DEF IndInv, PacerInv
<1>9. CacheInv'
  BY <1>1 DEF IndInv, CacheInv
<1>10. AddedInv'
  <2>1. SendInfo(p, p.seq) \in added /\ SendInfo(p, p.seq).id = p.seq
    BY <1>4 DEF IndInv, AddedInv, SendInfo
  <2>2. p.seq \in {info.id : info \in added}
    BY <2>1
  <2>3. announced' \subseteq {info.id : info \in added}
    BY <1>6, <2>2 DEF IndInv, AddedInv
  <2> QED
    BY <1>1, <2>3 DEF IndInv, AddedInv
<1>11. WireInv'
  <2>1. /\ announced \subseteq announced' /\ wire' \subseteq wire \cup {p}
        /\ p \in wire' => p \in wire \/ p.seq \in announced'
    BY <1>6
  <2>2. ASSUME NEW q \in wire' PROVE IsAudio(q)' \/ IsVideo(q)' \/ IsRepeat(q)'
    <3>1. CASE q \in wire
      BY <1>1, <2>1, <3>1 DEF IndInv, WireInv, IsAudio, IsVideo, IsRepeat
    <3>2. CASE q = p /\ p \notin wire
      BY <1>1, <1>3, <2>1, <2>2, <3>2 DEF IsVideo
    <3> QED
      BY <2>1, <3>1, <3>2
  <2> QED
    BY <2>2 DEF WireInv
<1> QED
  BY <1>1, <1>7, <1>8, <1>9, <1>10, <1>11, FramesKept, ReceiverKept, NackKept DEF IndInv

-----------------------------------------------------------------------------
(* Retransmission and the receiver keep it.                                *)

\* What the cache has under a number is a packet with that number.
LEMMA FoundFacts ==
  ASSUME CacheInv, NEW list, IsQueue(list), Tasks(list) \subseteq Nat
  PROVE  /\ IsQueue(Found(list))
         /\ \A i \in DOMAIN Found(list) : Sent(Found(list)[i], frames) /\ Found(list)[i].seq \in Tasks(list)
<1> DEFINE s == [i \in DOMAIN list |-> SetToSeq(FindVideoCache(list[i]))]
<1>1. ASSUME NEW n \in Nat
      PROVE  /\ IsQueue(SetToSeq(FindVideoCache(n)))
             /\ \A p \in Tasks(SetToSeq(FindVideoCache(n))) : Sent(p, frames) /\ p.seq = n
  <2>1. PICK c : c = cache[n % CacheSize]
    OBVIOUS
  <2>2. FindVideoCache(n) = {p \in {c} : p.seq = n}
    BY <2>1 DEF FindVideoCache
  <2>3. IsFiniteSet(FindVideoCache(n))
    BY <2>2, FS_EmptySet, FS_Singleton, FS_Subset
  <2>4. n % CacheSize \in DOMAIN cache
    BY SpaceFacts, ModFacts DEF CacheInv
  <2>5. c = NoPacket \/ Sent(c, frames)
    BY <2>1, <2>4 DEF CacheInv
  <2>6. NoPacket.seq # n
    <3>1. NoPacket.seq = -1
      BY DEF NoPacket
    <3> QED
      BY <3>1
  <2>7. \A p \in FindVideoCache(n) : Sent(p, frames) /\ p.seq = n
    BY <2>2, <2>5, <2>6
  <2>8. IsQueue(SetToSeq(FindVideoCache(n))) /\ Tasks(SetToSeq(FindVideoCache(n))) \subseteq FindVideoCache(n)
    BY <2>3, SetToSeqFacts
  <2> QED
    BY <2>7, <2>8
<1>2. PICK l \in Nat : l = Len(list) /\ DOMAIN list = 1..l
  BY QueueBasics
<1>3. s = [i \in 1..l |-> s[i]] /\ \A i \in 1..l : s[i] = SetToSeq(FindVideoCache(list[i]))
  BY <1>2
<1>4. Found(list) = FlattenSeq(s)
  BY Zenon DEF Found, s
<1> HIDE DEF s
<1>5. IsQueue(s) /\ Len(s) = l
  BY <1>3, FunctionQueue
<1>6. \A i \in 1..l : list[i] \in Nat /\ list[i] \in Tasks(list)
  BY <1>2 DEF Tasks
<1>7. \A i \in 1..l : IsQueue(s[i]) /\ \A p \in Tasks(s[i]) : Sent(p, frames) /\ p.seq \in Tasks(list)
  BY <1>1, <1>3, <1>6
<1>8. PICK r : r = FlattenSeq(s)
  OBVIOUS
<1>9. IsQueue(r) /\ Tasks(r) = UNION {Tasks(s[k]) : k \in 1..l}
  BY <1>5, <1>7, <1>8, FlattenTasks
<1>10. \A p \in Tasks(r) : Sent(p, frames) /\ p.seq \in Tasks(list)
  BY <1>7, <1>9
<1>11. \A i \in DOMAIN r : r[i] \in Tasks(r)
  BY <1>9, QueueBasics DEF Tasks
<1> QED
  BY <1>4, <1>8, <1>9, <1>10, <1>11

\* Every number of a NACK is answered by the packet the cache has.
LEMMA OnRtcpPacketReceivedKeeps ==
  ASSUME IndInv, NEW message, OnRtcpPacketReceived(message)
  PROVE  IndInv'
<1>1. UNCHANGED <<frames, created, cache, pacer, added, announced, received, asked,
                  connected, desc, answer, transports>>
  BY DEF OnRtcpPacketReceived, session, link, sender
<1>2. PICK item \in Items : IsNack(message, item) /\ NumbersOf(item) \subseteq asked
  BY DEF IndInv, NackInv, OnRtcpPacketReceived
<1>3. PICK calls : calls = ParseCompoundPacket(Ssrc.video, 0, message).calls
  OBVIOUS
<1>4. calls = <<NackCall(item)>>
  BY <1>2, <1>3, NackHeard
<1>5. PICK list : list = HeardList(calls)
  OBVIOUS
<1>6. IsQueue(list) /\ Tasks(list) = Tasks(NackList(item))
  BY <1>4, <1>5, HeardListIs
<1>7. PICK packets : packets = Found(list)
  OBVIOUS
<1>8. /\ rtcp' = rtcp \ {message} /\ requested' = requested \cup ToSet(list)
      /\ wire' = wire \cup Transmitted({BuildRtxPacket(packets[i], rtxSent + i - 1) : i \in DOMAIN packets})
  BY <1>3, <1>5, <1>7, Zenon DEF OnRtcpPacketReceived, HeardList
<1>9. Tasks(list) \subseteq Nat /\ (Padding = <<>> => Tasks(list) \subseteq asked)
  BY <1>2, <1>6, NackListFacts
<1>10. requested' = requested \cup Tasks(list)
  BY <1>6, <1>8, ToSetIsTasks
<1>11. \A i \in DOMAIN packets : Sent(packets[i], frames) /\ packets[i].seq \in requested'
  BY <1>6, <1>7, <1>9, <1>10, FoundFacts DEF IndInv
<1>12. ASSUME NEW i \in DOMAIN packets
       PROVE  answer # NoAnswer /\ Repeats(BuildRtxPacket(packets[i], rtxSent + i - 1), packets[i])
  <2>1. frames # <<>>
    BY <1>11, NoFrames
  <2>2. PICK options \in Options : answer = Answer(options, Ssrc)
    BY <2>1 DEF IndInv, SessionInv
  <2> QED
    BY <2>1, <2>2, RtxFacts DEF IndInv, SessionInv
<1>13. ASSUME NEW p \in wire'
       PROVE  p \in wire \/ (answer # NoAnswer /\ IsRepeat(p)')
  <2>1. p \in wire \/ \E i \in DOMAIN packets : p = BuildRtxPacket(packets[i], rtxSent + i - 1)
    BY <1>8 DEF Transmitted
  <2>2. CASE \E i \in DOMAIN packets : p = BuildRtxPacket(packets[i], rtxSent + i - 1)
    BY <1>1, <1>11, <1>12, <2>2 DEF IsRepeat
  <2> QED
    BY <2>1, <2>2
<1>14. SessionInv'
  BY <1>1, <1>13 DEF IndInv, SessionInv
<1>15. WireInv'
  <2>1. ASSUME NEW p \in wire' PROVE IsAudio(p)' \/ IsVideo(p)' \/ IsRepeat(p)'
    <3>1. CASE p \in wire
      BY <1>1, <1>10, <3>1 DEF IndInv, WireInv, IsAudio, IsVideo, IsRepeat
    <3> QED
      BY <1>13, <3>1
  <2> QED
    BY <2>1 DEF WireInv
<1>16. NackInv'
  BY <1>1, <1>8, <1>9, <1>10 DEF IndInv, NackInv
<1> QED
  BY <1>1, <1>14, <1>15, <1>16, FramesKept, SendingKept, ReceiverKept DEF IndInv

\* What a packet on the wire says of the frames: audio nothing, a packet of a
\* frame or its repetition what that packet is.
LEMMA WireSays ==
  ASSUME IndInv, NEW p \in wire, p.ssrc # Ssrc.audio
  PROVE  \E f, k : /\ Place(frames, f, k) /\ p.ts = f /\ p.marker = (k = Len(CutOf(frames[f])))
                   /\ Unwrapped(p) = [n |-> NumberAt(frames, f, k), payload |-> CutOf(frames[f])[k]]
<1>1. frames \in Seq(Frames) /\ CountOf(frames) < SeqSpace
  BY DEF IndInv, FramesInv
<1>2. CASE IsVideo(p)
  <2>1. PICK f, k : Place(frames, f, k) /\ p = PacketAt(frames, f, k)
    BY <1>2 DEF IsVideo, Sent
  <2>2. /\ p.ts = f /\ p.marker = (k = Len(CutOf(frames[f]))) /\ p.payload = CutOf(frames[f])[k]
        /\ Unwrapped(p) = [n |-> NumberAt(frames, f, k), payload |-> p.payload]
    BY <1>1, <2>1, PacketAtFacts
  <2> QED
    BY <2>1, <2>2
<1>3. CASE IsRepeat(p)
  <2>1. PICK q : Sent(q, frames) /\ Repeats(p, q)
    BY <1>3 DEF IsRepeat
  <2>2. PICK f, k : Place(frames, f, k) /\ q = PacketAt(frames, f, k)
    BY <2>1 DEF Sent
  <2>3. /\ q.ts = f /\ q.marker = (k = Len(CutOf(frames[f]))) /\ q.payload = CutOf(frames[f])[k]
        /\ q.seq \in Nat /\ Number(q.seq) = NumberAt(frames, f, k) /\ IsQueue(q.payload)
    BY <1>1, <2>2, PacketAtFacts
  <2>4. Unwrapped(p) = [n |-> NumberAt(frames, f, k), payload |-> CutOf(frames[f])[k]]
    BY <2>1, <2>3, RepeatsFacts
  <2>5. p.ts = f /\ p.marker = (k = Len(CutOf(frames[f])))
    BY <2>1, <2>3 DEF Repeats
  <2> QED
    BY <2>2, <2>4, <2>5
<1> QED
  BY <1>2, <1>3 DEF IndInv, WireInv, IsAudio

\* The receiver puts the packet where it belongs.
LEMMA ReceiveKeeps ==
  ASSUME IndInv, NEW packet \in wire, Receive(packet)
  PROVE  IndInv'
<1>1. UNCHANGED <<frames, created, pacer, cache, added, announced, wire, requested, asked, rtcp,
                  connected, desc, answer, transports>>
  BY DEF Receive, session, link, sender
<1>2. PICK f, k : /\ Place(frames, f, k) /\ packet.ts = f /\ packet.marker = (k = Len(CutOf(frames[f])))
                  /\ Unwrapped(packet) = [n |-> NumberAt(frames, f, k), payload |-> CutOf(frames[f])[k]]
  BY WireSays DEF Receive
<1>3. PICK n, x : n = NumberAt(frames, f, k) /\ x = CutOf(frames[f])[k]
  OBVIOUS
<1>4. Unwrapped(packet).n = n /\ Unwrapped(packet).payload = x
  BY <1>2, <1>3
<1>5. received' = [m \in DOMAIN received \cup {n} |->
                     IF m # n THEN received[m]
                     ELSE [ts |-> packet.ts, marker |-> packet.marker, payload |-> x]]
  BY <1>4 DEF Receive
<1>6. ReceiverInv'
  <2> SUFFICES ASSUME NEW m \in DOMAIN received' PROVE Arrived(m)'
    BY DEF ReceiverInv
  <2>1. CASE m = n
    <3>1. received'[m] = [ts |-> packet.ts, marker |-> packet.marker, payload |-> x]
      BY <1>5, <2>1
    <3>2. received'[m] = [ts |-> f, marker |-> (k = Len(CutOf(frames[f]))), payload |-> CutOf(frames[f])[k]]
      BY <1>2, <1>3, <3>1, Zenon
    <3> QED
      BY <1>1, <1>2, <1>3, <2>1, <3>2 DEF Arrived
  <2>2. CASE m # n
    <3>1. m \in DOMAIN received /\ received'[m] = received[m]
      BY <1>5, <2>2
    <3> QED
      BY <1>1, <3>1 DEF IndInv, ReceiverInv, Arrived
  <2> QED
    BY <2>1, <2>2
<1> QED
  BY <1>1, <1>6, FramesKept, SendingKept, WireKept, NackKept, SessionKept DEF IndInv

\* The receiver knows numbers of packets that were made, and misses earlier ones.
LEMMA MissingFacts ==
  ASSUME IndInv
  PROVE  /\ DOMAIN received \subseteq 0..(created - 1) /\ created \in Nat
         /\ Missing \subseteq Nat
         /\ Missing # {} => Min(Missing) \in Missing
<1>1. PICK c \in Nat : c = created /\ c = CountOf(frames)
  BY NumberFacts DEF IndInv, FramesInv
<1>2. DOMAIN received \subseteq 0..(c - 1)
  <2>1. ASSUME NEW n \in DOMAIN received PROVE n \in 0..(c - 1)
    <3>1. PICK f, k : Place(frames, f, k) /\ n = NumberAt(frames, f, k)
      BY DEF IndInv, ReceiverInv, Arrived
    <3> QED
      BY <1>1, <3>1, NumberFacts DEF IndInv, FramesInv
  <2> QED
    BY <2>1
<1>3. PICK x : x = DOMAIN received \cup {0}
  OBVIOUS
<1>4. x \in SUBSET (0..c) /\ x # {}
  BY <1>2, <1>3
<1>5. PICK m \in 0..c : m = Max(x)
  <2>1. 0 \in Int /\ c \in Int
    OBVIOUS
  <2>2. Max(x) \in x
    BY <1>4, <2>1, Extremes, Zenon
  <2> QED
    BY <1>4, <2>2
<1>6. Missing = {n \in 0..m : n \notin DOMAIN received}
  BY <1>3, <1>5 DEF Missing
<1>7. Missing \in SUBSET (0..m)
  BY <1>6
<1>8. Missing # {} => Min(Missing) \in Missing
  <2>1. 0 \in Int /\ m \in Int
    OBVIOUS
  <2> QED
    BY <1>7, <2>1, Extremes, Zenon
<1> QED
  BY <1>1, <1>2, <1>7, <1>8

\* A NACK asks for numbers that are missing.
LEMMA SendNackKeeps ==
  ASSUME IndInv, NEW shape \in {"alone", "compound", "cut"}, SendNack(shape)
  PROVE  IndInv'
<1>1. UNCHANGED <<frames, created, pacer, cache, added, announced, wire, received, requested,
                  connected, desc, answer, transports>>
  BY DEF SendNack, session, link, sender
<1> DEFINE after == {n \in Missing : n - Min(Missing) \in 1..MaskBits}
           item == [pid |-> Wire(Min(Missing)), mask |-> {n - Min(Missing) - 1 : n \in after}]
<1>2. PICK first \in Nat : first = Min(Missing)
  BY MissingFacts DEF SendNack
<1>3. \E message : IsNack(message, item) /\ rtcp' = rtcp \cup {message}
  <2>1. rtcp' = rtcp \cup {CASE shape = "alone" -> <<NackBlock(item)>>
                     [] shape = "compound" -> <<ReportBlock, NackBlock(item)>>
                     [] shape = "cut" -> <<NackBlock(item), [ReportBlock EXCEPT !.whole = FALSE]>>}
    BY Zenon DEF SendNack, NackBlock, ReportBlock, ReportWord
  <2>2. "alone" # "compound" /\ "alone" # "cut" /\ "compound" # "cut"
    OBVIOUS
  <2> HIDE DEF item
  <2>3. CASE shape = "alone"
    <3>1. rtcp' = rtcp \cup {<<NackBlock(item)>>}
      BY <2>1, <2>2, <2>3, Zenon
    <3> QED
      BY <3>1, Zenon DEF IsNack
  <2>4. CASE shape = "compound"
    <3>1. rtcp' = rtcp \cup {<<ReportBlock, NackBlock(item)>>}
      BY <2>1, <2>2, <2>4, Zenon
    <3> QED
      BY <3>1, Zenon DEF IsNack
  <2>5. CASE shape = "cut"
    <3>1. rtcp' = rtcp \cup {<<NackBlock(item), [ReportBlock EXCEPT !.whole = FALSE]>>}
      BY <2>1, <2>2, <2>5, Zenon
    <3> QED
      BY <3>1, Zenon DEF IsNack
  <2> QED
    BY <2>3, <2>4, <2>5
<1>4. asked' = asked \cup {Wire(n) : n \in after \cup {first}}
  BY <1>2 DEF SendNack
<1>5. PICK b \in Nat : b = MaskBits
  BY DEF MaskBits
<1>6. after \subseteq Nat /\ \A n \in after : n - first \in 1..b
  BY <1>2, <1>5, MissingFacts
<1>7. PICK w \in Nat : w = Wire(first)
  <2>1. Wire(first) \in 0..(SeqSpace - 1)
    BY WireFacts
  <2> QED
    BY <2>1, SpaceFacts
<1>8. item.pid = w /\ item.mask = {n - first - 1 : n \in after}
  BY <1>2, <1>7
<1>9. item \in Items
  <2>1. {n - first - 1 : n \in after} \subseteq Nat
    <3>1. ASSUME NEW n \in after PROVE n - first - 1 \in Nat
      <4>1. n \in Nat /\ n - first \in 1..b
        BY <1>6
      <4> HIDE DEF after
      <4> QED
        BY <4>1
    <3> HIDE DEF after
    <3> QED
      BY <3>1
  <2>2. item = [pid |-> w, mask |-> {n - first - 1 : n \in after}]
    BY <1>2, <1>7
  <2> HIDE DEF item, after
  <2> QED
    BY <2>1, <2>2 DEF Items
<1> HIDE DEF item
<1>10. NumbersOf(item) \subseteq asked'
  <2>1. Wire(first) \in asked'
    BY <1>4
  <2>2. ASSUME NEW i \in 1..b, i - 1 \in item.mask PROVE (w + i) % SeqSpace \in asked'
    <3> HIDE DEF after
    <3>1. PICK n \in after : i - 1 = n - first - 1
      BY <1>8, <2>2
    <3>2. n \in Nat /\ n = first + i /\ i \in Nat
      BY <1>6, <3>1
    <3>3. (w + i) % SeqSpace = Wire(n)
      BY <1>7, <3>2, WireStep
    <3> QED
      BY <1>4, <3>3
  <2>3. NumbersOf(item) = {w} \cup {(w + i) % SeqSpace : i \in {c \in 1..b : c - 1 \in item.mask}}
    BY <1>5, <1>8 DEF NumbersOf
  <2> QED
    BY <1>7, <2>1, <2>2, <2>3
<1>11. asked \subseteq asked'
  BY <1>4
<1>12. NackInv'
  <2>1. PICK message : IsNack(message, item) /\ rtcp' = rtcp \cup {message}
    BY <1>3
  <2>2. ASSUME NEW m \in rtcp' PROVE \E i \in Items : IsNack(m, i) /\ NumbersOf(i) \subseteq asked'
    <3>1. CASE m = message
      BY <1>9, <1>10, <2>1, <3>1
    <3>2. CASE m \in rtcp
      BY <1>11, <3>2 DEF IndInv, NackInv
    <3> QED
      BY <2>1, <3>1, <3>2
  <2> QED
    BY <1>1, <1>11, <2>2 DEF IndInv, NackInv
<1> QED
  BY <1>1, <1>12, FramesKept, SendingKept, WireKept, ReceiverKept, SessionKept DEF IndInv

-----------------------------------------------------------------------------
(* A frame that is sent keeps it.                                          *)

\* The packets of a frame that is sent are those of one frame more.
Batch(q, fr, frame, gr) ==
  /\ IsQueue(q) /\ Len(q) = Len(CutOf(frame)) /\ DOMAIN q = 1..Len(CutOf(frame))
  /\ \A k \in 1..Len(q) : /\ Place(gr, Len(fr) + 1, k) /\ q[k] = PacketAt(gr, Len(fr) + 1, k)
                          /\ q[k].seq = Wire(CountOf(fr) + k - 1)

\* SendEncodedImage makes such a batch.
LEMMA BatchFacts ==
  ASSUME NEW fr \in Seq(Frames), NEW frame \in Frames, NEW gr, OneMore(fr, frame, gr), NEW q,
         q = [k \in DOMAIN CutOf(frame) |->
                VideoPacket(Len(fr) + 1, Wire(CountOf(fr) + k - 1), CutOf(frame)[k], k = Len(CutOf(frame)))]
  PROVE  Batch(q, fr, frame, gr)
<1>1. PICK x : x = CutOf(frame)
  OBVIOUS
<1>2. PICK l \in Nat : l = Len(x) /\ DOMAIN x = 1..l
  <2>1. IsQueue(x)
    BY <1>1, CutFacts
  <2> QED
    BY <2>1, QueueBasics
<1> DEFINE packet(k) == VideoPacket(Len(fr) + 1, Wire(CountOf(fr) + k - 1), x[k], k = l)
<1>3. q = [k \in 1..l |-> packet(k)]
  BY <1>1, <1>2
<1>4. \A k \in 1..l : packet(k).seq = Wire(CountOf(fr) + k - 1)
  BY VideoPacketFacts
<1>5. \A k \in 1..l : Place(gr, Len(fr) + 1, k) /\ packet(k) = PacketAt(gr, Len(fr) + 1, k)
  BY <1>1, <1>2, SentNew, SMTT(60)
<1> HIDE DEF packet
<1>6. q = [k \in 1..l |-> q[k]] /\ \A k \in 1..l : q[k] = packet(k)
  BY <1>3
<1>7. IsQueue(q) /\ Len(q) = l
  BY <1>6, FunctionQueue
<1>8. DOMAIN q = 1..l
  BY <1>3
<1> QED
  BY <1>1, <1>2, <1>4, <1>5, <1>6, <1>7, <1>8 DEF Batch

\* A cache of packets of the frames fr.
CacheOf(c, fr) ==
  /\ DOMAIN c = 0..(CacheSize - 1)
  /\ \A i \in DOMAIN c : c[i] = NoPacket \/ (Sent(c[i], fr) /\ c[i].seq % CacheSize = i)

\* One packet more in the cache, in its slot.
LEMMA CacheAdds ==
  ASSUME NEW fr, NEW c, CacheOf(c, fr), NEW p, Sent(p, fr), p.seq \in Nat
  PROVE  CacheOf(AddVideoCache(c, p), fr)
<1>1. PICK i : i = p.seq % CacheSize
  OBVIOUS
<1>2. i \in DOMAIN c
  <2>1. PICK n \in Nat, z \in Nat \ {0} : n = p.seq /\ z = CacheSize
    BY SpaceFacts
  <2>2. i = n % z /\ n \in Int
    BY <1>1, <2>1
  <2>3. n % z \in 0..(z - 1)
    BY <2>1, <2>2, ModFacts
  <2>4. DOMAIN c = 0..(CacheSize - 1)
    BY DEF CacheOf
  <2> QED
    BY <2>1, <2>2, <2>3, <2>4
<1>3. AddVideoCache(c, p) = IF c[i].seq = p.seq THEN c ELSE [c EXCEPT ![i] = p]
  BY <1>1, Zenon DEF AddVideoCache
<1>4. CASE c[i].seq = p.seq
  BY <1>3, <1>4
<1>5. CASE c[i].seq # p.seq
  <2>1. PICK d : d = [c EXCEPT ![i] = p]
    OBVIOUS
  <2>2. DOMAIN d = DOMAIN c /\ \A j \in DOMAIN c : d[j] = IF j = i THEN p ELSE c[j]
    BY <2>1
  <2>3. CacheOf(d, fr)
    BY <1>1, <2>2 DEF CacheOf
  <2> QED
    BY <1>3, <1>5, <2>1, <2>3
<1> QED
  BY <1>4, <1>5

\* A whole batch.
LEMMA CacheAddsAll ==
  ASSUME NEW fr, NEW c, CacheOf(c, fr), NEW q, IsQueue(q),
         \A k \in 1..Len(q) : Sent(q[k], fr) /\ q[k].seq \in Nat
  PROVE  CacheOf(FoldLeft(AddVideoCache, c, q), fr)
<1>1. PICK g : g[0] = c /\ CacheRuns(g, q) /\ FoldLeft(AddVideoCache, c, q) = g[Len(q)]
  BY CacheFold, Zenon
<1>2. PICK l \in Nat : l = Len(q)
  BY QueueBasics
<1> DEFINE G == {m \in Nat : m <= l => CacheOf(g[m], fr)}
<1>3. 0 \in G
  BY <1>1
<1>4. ASSUME NEW m \in G PROVE m + 1 \in G
  <2>1. m \in Nat /\ m + 1 \in Nat
    OBVIOUS
  <2> SUFFICES ASSUME m + 1 <= l PROVE CacheOf(g[m + 1], fr)
    BY <2>1
  <2>2. CacheOf(g[m], fr)
    BY <2>1
  <2> HIDE DEF G
  <2>3. m + 1 \in 1..l /\ (m + 1) - 1 = m
    BY <2>1
  <2>4. g[m + 1] = AddVideoCache(g[m], q[m + 1])
    BY <1>1, <1>2, <2>3 DEF CacheRuns
  <2> QED
    BY <1>2, <2>2, <2>3, <2>4, CacheAdds
<1>5. l \in G
  <2> HIDE DEF G
  <2> QED
    BY <1>3, <1>4, SetInduction
<1> QED
  BY <1>1, <1>2, <1>5

\* A frame is sent: its packets are the next ones, known to the feedback
\* adapter, in the cache and in the pacer.
LEMMA SendEncodedImageKeeps ==
  ASSUME IndInv, NEW frame \in Frames, SendEncodedImage(frame)
  PROVE  IndInv'
<1>1. UNCHANGED <<announced, wire, requested, received, asked, rtcp,
                  connected, desc, answer, transports>>
  BY DEF SendEncodedImage, session, link, receiver
<1>2. /\ connected /\ frames \in Seq(Frames) /\ created = CountOf(frames) /\ CountOf(frames) \in Nat
      /\ CountOf(frames) < SeqSpace
  BY NumberFacts DEF IndInv, FramesInv, SendEncodedImage
<1>3. PICK gr : gr = Append(frames, frame)
  OBVIOUS
<1>4. OneMore(frames, frame, gr)
  BY <1>2, <1>3, FrameAdded
<1>5. PICK q : q = [k \in DOMAIN CutOf(frame) |->
                     VideoPacket(Len(frames) + 1, Wire(created + k - 1), CutOf(frame)[k],
                                 k = Len(CutOf(frame)))]
  OBVIOUS
<1>6. /\ created + Len(CutOf(frame)) < SeqSpace
      /\ frames' = gr
      /\ created' = created + Len(q)
      /\ added' = added \cup {SendInfo(q[k], Wire(created + k - 1)) : k \in DOMAIN q}
      /\ cache' = FoldLeft(AddVideoCache, cache, q)
      /\ pacer' = pacer \o q
  BY <1>3, <1>5, ZenonT(60) DEF SendEncodedImage, CutOf
<1>7. Batch(q, frames, frame, gr)
  BY <1>2, <1>4, <1>5, BatchFacts
<1>8. gr \in Seq(Frames) /\ CountOf(gr) = created + Len(q) /\ CountOf(gr) < SeqSpace
  BY <1>2, <1>4, <1>6, <1>7 DEF OneMore, Batch
<1>9. \A f, k : Place(frames, f, k) =>
              Place(gr, f, k) /\ NumberAt(gr, f, k) = NumberAt(frames, f, k) /\ gr[f] = frames[f]
              /\ PacketAt(gr, f, k) = PacketAt(frames, f, k)
  BY <1>2, <1>4, SentGrows
<1>10. \A p : Sent(p, frames) => Sent(p, gr)
  BY <1>2, <1>4, SentGrows
<1>11. /\ IsQueue(q) /\ DOMAIN q = 1..Len(q)
       /\ \A k \in 1..Len(q) : Sent(q[k], gr) /\ q[k].seq \in Nat
  <2>1. ASSUME NEW k \in 1..Len(q) PROVE Sent(q[k], gr) /\ q[k].seq \in Nat
    <3>1. Place(gr, Len(frames) + 1, k) /\ q[k] = PacketAt(gr, Len(frames) + 1, k)
      BY <1>7 DEF Batch
    <3> QED
      BY <1>8, <3>1, PacketAtFacts DEF Sent
  <2> QED
    BY <1>7, <2>1 DEF Batch
<1>12. FramesInv'
  BY <1>6, <1>8 DEF FramesInv
<1>13. SessionInv'
  BY <1>1, <1>2, ConnectedAnswered, SessionSends DEF IndInv
<1>14. PacerInv'
  <2>1. IsQueue(pacer) /\ \A p \in Tasks(pacer) : Sent(p, frames)
    BY DEF IndInv, PacerInv
  <2>2. IsQueue(pacer \o q) /\ Tasks(pacer \o q) = Tasks(pacer) \cup Tasks(q)
    BY <1>11, <2>1, ConcatFacts, TasksAfter
  <2>3. \A p \in Tasks(q) : Sent(p, gr)
    BY <1>11 DEF Tasks
  <2> QED
    BY <1>6, <1>10, <2>1, <2>2, <2>3 DEF PacerInv
<1>15. CacheInv'
  <2>1. CacheOf(cache, gr)
    BY <1>10 DEF IndInv, CacheInv, CacheOf
  <2>2. CacheOf(FoldLeft(AddVideoCache, cache, q), gr)
    BY <1>11, <2>1, CacheAddsAll
  <2> QED
    BY <1>6, <2>2 DEF CacheOf, CacheInv
<1>16. AddedInv'
  <2>1. ASSUME NEW f, NEW k, Place(gr, f, k)
        PROVE  SendInfo(PacketAt(gr, f, k), PacketAt(gr, f, k).seq) \in added'
    <3>1. CASE Place(frames, f, k)
      <4>1. SendInfo(PacketAt(frames, f, k), PacketAt(frames, f, k).seq) \in added
        BY <3>1 DEF IndInv, AddedInv
      <4> QED
        BY <1>6, <1>9, <3>1, <4>1
    <3>2. CASE f = Len(frames) + 1 /\ k \in 1..Len(CutOf(frame))
      <4>1. k \in DOMAIN q /\ q[k] = PacketAt(gr, f, k) /\ q[k].seq = Wire(created + k - 1)
        BY <1>2, <1>7, <3>2 DEF Batch
      <4>2. SendInfo(q[k], Wire(created + k - 1)) \in added'
        BY <1>6, <4>1
      <4> QED
        BY <4>1, <4>2
    <3> QED
      BY <1>2, <1>4, <2>1, <3>1, <3>2, SentSplit
  <2>2. announced' \subseteq {info.id : info \in added'}
    BY <1>1, <1>6 DEF IndInv, AddedInv
  <2> QED
    BY <1>6, <2>1, <2>2 DEF AddedInv
<1>17. WireInv'
  <2>1. ASSUME NEW p \in wire PROVE IsAudio(p)' \/ IsVideo(p)' \/ IsRepeat(p)'
    <3>1. CASE IsAudio(p)
      BY <3>1 DEF IsAudio
    <3>2. CASE IsVideo(p)
      BY <1>1, <1>6, <1>10, <3>2 DEF IsVideo
    <3>3. CASE IsRepeat(p)
      BY <1>1, <1>6, <1>10, <3>3 DEF IsRepeat
    <3> QED
      BY <3>1, <3>2, <3>3 DEF IndInv, WireInv
  <2> QED
    BY <1>1, <2>1 DEF WireInv
<1>18. ReceiverInv'
  <2>1. ASSUME NEW n \in DOMAIN received PROVE Arrived(n)'
    <3>1. PICK f, k : /\ Place(frames, f, k) /\ n = NumberAt(frames, f, k)
                      /\ received[n] = [ts |-> f, marker |-> (k = Len(CutOf(frames[f]))),
                                        payload |-> CutOf(frames[f])[k]]
      BY DEF IndInv, ReceiverInv, Arrived
    <3>2. Place(gr, f, k) /\ n = NumberAt(gr, f, k) /\ gr[f] = frames[f]
      BY <1>9, <3>1
    <3> QED
      BY <1>1, <1>6, <3>1, <3>2 DEF Arrived
  <2> QED
    BY <1>1, <2>1 DEF ReceiverInv
<1> QED
  BY <1>1, <1>12, <1>13, <1>14, <1>15, <1>16, <1>17, <1>18, NackKept DEF IndInv

-----------------------------------------------------------------------------
\* The invariant is inductive, and holds in every reachable state.
LEMMA NextKeeps ==
  ASSUME IndInv, [Next]_vars
  PROVE  IndInv'
<1>1. CASE \E offer \in Offers : SetRemoteSDP(offer)
  BY <1>1, SetRemoteSDPKeeps
<1>2. CASE \E options \in Options : CreateAnswer(options)
  BY <1>2, CreateAnswerKeeps
<1>3. CASE \E up \in BOOLEAN : OnIceState(up)
  BY <1>3, OnIceStateKeeps
<1>4. CASE \E frame \in Frames : SendEncodedImage(frame)
  BY <1>4, SendEncodedImageKeeps
<1>5. CASE SendEncodedAudio(<<1>>)
  BY <1>5, SendEncodedAudioKeeps
<1>6. CASE SendPacket
  BY <1>6, SendPacketKeeps
<1>7. CASE \E message \in rtcp : OnRtcpPacketReceived(message)
  BY <1>7, OnRtcpPacketReceivedKeeps
<1>8. CASE \E packet \in wire : Receive(packet)
  BY <1>8, ReceiveKeeps
<1>9. CASE \E shape \in {"alone", "compound", "cut"} : SendNack(shape)
  BY <1>9, SendNackKeeps
<1>10. CASE UNCHANGED vars
  <2>1. UNCHANGED <<frames, created, pacer, cache, added, announced, wire, requested, received, asked,
                    rtcp, connected, desc, answer, transports>>
    BY <1>10 DEF vars, session, link, sender, receiver
  <2> QED
    BY <2>1, FramesKept, SendingKept, WireKept, ReceiverKept, NackKept, SessionKept DEF IndInv
<1> QED
  BY <1>1, <1>2, <1>3, <1>4, <1>5, <1>6, <1>7, <1>8, <1>9, <1>10 DEF Next

\* Every reachable state has the invariant: what is numbered, cached, paced,
\* on the wire, received and asked for all belongs to the frames that were sent.
THEOREM VideoPathInvariant ==
  Spec => []IndInv
<1>1. Init => IndInv
  BY InitInv
<1>2. IndInv /\ [Next]_vars => IndInv'
  BY NextKeeps
<1> QED
  BY <1>1, <1>2, PTL DEF Spec

-----------------------------------------------------------------------------
(* What the invariant says of the system.                                  *)

\* A packet of ssrc video is one of a frame, one of ssrc rtx repeats one.
LEMMA MediaSays ==
  ASSUME IndInv
  PROVE  /\ \A p \in Media(Ssrc.video) :
              p.seq \in announced /\ \E f, k : Place(frames, f, k) /\ p = PacketAt(frames, f, k)
         /\ \A p \in Media(Ssrc.rtx) :
              \E f, k : /\ Place(frames, f, k) /\ PacketAt(frames, f, k).seq \in requested
                        /\ Repeats(p, PacketAt(frames, f, k))
<1>1. frames \in Seq(Frames) /\ CountOf(frames) < SeqSpace
  BY DEF IndInv, FramesInv
<1>2. Ssrc.audio # Ssrc.video /\ Ssrc.audio # Ssrc.rtx /\ Ssrc.video # Ssrc.rtx
  BY SsrcAssumption DEF SsrcAssumption
<1>3. ASSUME NEW p \in Media(Ssrc.video)
      PROVE  p.seq \in announced /\ \E f, k : Place(frames, f, k) /\ p = PacketAt(frames, f, k)
  <2>1. p \in wire /\ p.ssrc = Ssrc.video
    BY DEF Media
  <2>2. IsVideo(p)
    BY <1>2, <2>1 DEF IndInv, WireInv, IsAudio, IsRepeat, Repeats
  <2> QED
    BY <2>2 DEF IsVideo, Sent
<1>4. ASSUME NEW p \in Media(Ssrc.rtx)
      PROVE  \E f, k : /\ Place(frames, f, k) /\ PacketAt(frames, f, k).seq \in requested
                       /\ Repeats(p, PacketAt(frames, f, k))
  <2>1. p \in wire /\ p.ssrc = Ssrc.rtx
    BY DEF Media
  <2>2. ~IsVideo(p)
    <3> SUFFICES ASSUME IsVideo(p) PROVE FALSE
      OBVIOUS
    <3>1. PICK f, k : Place(frames, f, k) /\ p = PacketAt(frames, f, k)
      BY DEF IsVideo, Sent
    <3>2. p.ssrc = Ssrc.video
      BY <1>1, <3>1, PacketAtFacts
    <3> QED
      BY <1>2, <2>1, <3>2
  <2>3. IsRepeat(p)
    BY <1>2, <2>1, <2>2 DEF IndInv, WireInv, IsAudio
  <2> QED
    BY <2>3 DEF IsRepeat, Sent
<1> QED
  BY <1>3, <1>4

\* Whatever is made of a frame fits into the buffer of a packet, and the
\* receiver has no packet that was not made.
THEOREM VideoPathTyped ==
  Spec => []TypeOK
<1>1. ASSUME IndInv PROVE TypeOK
  <2>1. frames \in Seq(Frames) /\ CountOf(frames) < SeqSpace
    BY <1>1 DEF IndInv, FramesInv
  <2>2. connected \in BOOLEAN /\ created \in 0..SeqSpace
    <3>1. PICK c \in Nat, z \in Nat : c = created /\ z = SeqSpace /\ c < z
      BY <1>1, NumberFacts, SpaceFacts DEF IndInv, FramesInv
    <3> QED
      BY <1>1, <3>1 DEF IndInv, SessionInv
  <2>3. \A i \in DOMAIN cache : cache[i] = NoPacket \/ cache[i].seq % CacheSize = i
    BY <1>1 DEF IndInv, CacheInv
  <2>4. ASSUME NEW f, NEW k, Place(frames, f, k), NEW p, p = PacketAt(frames, f, k)
        PROVE  Len(p.payload) <= MaxPayloadLen /\ Size(p) <= Capacity
    BY <2>1, <2>4, PacketAtFacts
  <2>5. ASSUME NEW p \in ToSet(pacer) \cup Media(Ssrc.video)
        PROVE  Len(p.payload) <= MaxPayloadLen /\ Size(p) <= Capacity
    <3>1. ToSet(pacer) = Tasks(pacer)
      BY <1>1, ToSetIsTasks DEF IndInv, PacerInv
    <3>2. CASE p \in ToSet(pacer)
      <4>1. Sent(p, frames)
        BY <1>1, <3>1, <3>2 DEF IndInv, PacerInv
      <4> QED
        BY <2>4, <4>1 DEF Sent
    <3>3. CASE p \in Media(Ssrc.video)
      BY <1>1, <2>4, <3>3, MediaSays
    <3> QED
      BY <3>2, <3>3
  <2>6. ASSUME NEW p \in Media(Ssrc.rtx) PROVE Size(p) <= Capacity
    <3>1. PICK f, k : Place(frames, f, k) /\ Repeats(p, PacketAt(frames, f, k))
      BY <1>1, MediaSays
    <3>2. PICK q : q = PacketAt(frames, f, k)
      OBVIOUS
    <3>3. q.seq \in Nat /\ IsQueue(q.payload) /\ Len(q.payload) <= MaxPayloadLen
      BY <2>1, <3>1, <3>2, PacketAtFacts
    <3>4. Size(p) = 14 + Len(q.payload) /\ Len(q.payload) \in Nat
      BY <3>1, <3>2, <3>3, RepeatsFacts
    <3>5. PICK l \in Nat, m \in Nat, c \in Nat : l = Len(q.payload) /\ m = MaxPayloadLen /\ c = Capacity
      BY <3>4, CapacityHolds, PayloadBound
    <3>6. l <= m /\ 20 + m <= c
      BY <3>3, <3>5, CapacityHolds
    <3>7. 14 + l <= c
      BY <3>6
    <3> QED
      BY <3>4, <3>5, <3>7
  <2>7. DOMAIN received \subseteq 0..(created - 1)
    BY <1>1, MissingFacts
  <2> QED
    BY <2>2, <2>3, <2>5, <2>6, <2>7 DEF TypeOK
<1> QED
  BY <1>1, VideoPathInvariant, PTL

\* A receiver that adds no padding to what it asks for gets what it asked for:
\* each retransmission is one of a number in a NACK, and the same packet.
THEOREM VideoPathRetransmits ==
  ASSUME Padding = <<>>
  PROVE  Spec => []RetransmissionsTrue
<1>1. ASSUME IndInv PROVE RetransmissionsTrue
  <2>1. frames \in Seq(Frames) /\ CountOf(frames) < SeqSpace /\ requested \subseteq asked
    BY <1>1 DEF IndInv, FramesInv, NackInv
  <2> SUFFICES ASSUME NEW rtx \in Media(Ssrc.rtx)
               PROVE  /\ Wire(Unwrapped(rtx).n) \in asked
                      /\ \A packet \in Media(Ssrc.video) :
                            Unwrapped(packet).n = Unwrapped(rtx).n =>
                               /\ packet.payload = Unwrapped(rtx).payload
                               /\ packet.ts = rtx.ts /\ packet.marker = rtx.marker
    BY DEF RetransmissionsTrue
  <2>2. PICK f, k : /\ Place(frames, f, k) /\ PacketAt(frames, f, k).seq \in requested
                    /\ Repeats(rtx, PacketAt(frames, f, k))
    BY <1>1, MediaSays
  <2>3. PICK q : q = PacketAt(frames, f, k)
    OBVIOUS
  <2>4. /\ q.seq \in Nat /\ IsQueue(q.payload) /\ Number(q.seq) = NumberAt(frames, f, k)
        /\ q.seq = Wire(NumberAt(frames, f, k))
    BY <2>1, <2>2, <2>3, PacketAtFacts
  <2>5. Unwrapped(rtx) = [n |-> NumberAt(frames, f, k), payload |-> q.payload]
    BY <2>2, <2>3, <2>4, RepeatsFacts
  <2>6. Wire(Unwrapped(rtx).n) \in asked
    BY <2>1, <2>2, <2>3, <2>4, <2>5
  <2>7. ASSUME NEW packet \in Media(Ssrc.video), Unwrapped(packet).n = Unwrapped(rtx).n
        PROVE  /\ packet.payload = Unwrapped(rtx).payload
               /\ packet.ts = rtx.ts /\ packet.marker = rtx.marker
    <3>1. PICK g, j : Place(frames, g, j) /\ packet = PacketAt(frames, g, j)
      BY <1>1, MediaSays
    <3>2. Unwrapped(packet) = [n |-> NumberAt(frames, g, j), payload |-> packet.payload]
      BY <2>1, <3>1, PacketAtFacts
    <3>3. NumberAt(frames, g, j) = NumberAt(frames, f, k)
      BY <2>5, <2>7, <3>2
    <3>4. g = f /\ j = k
      BY <2>1, <2>2, <3>1, <3>3, NumberFacts
    <3>5. packet = q
      BY <2>3, <3>1, <3>4
    <3> QED
      BY <2>2, <2>3, <2>5, <3>5 DEF Repeats
  <2> QED
    BY <2>6, <2>7
<1> QED
  BY <1>1, VideoPathInvariant, PTL

\* The answer declares the payload type and the ssrc of everything that is sent.
THEOREM VideoPathDeclared ==
  Spec => []AnswerDeclaresPackets
<1>1. ASSUME IndInv PROVE AnswerDeclaresPackets
  <2> SUFFICES ASSUME NEW packet \in wire
               PROVE  \E section \in ToText(answer) : \E codec \in section.codecs :
                         /\ packet.ssrc \in section.ssrcs /\ packet.pt = codec.id
                         /\ packet.ssrc = Ssrc.rtx =>
                               codec.apt = PayloadTypes.video /\ <<Ssrc.video, packet.ssrc>> \in section.fids
    BY DEF AnswerDeclaresPackets
  <2>1. PICK options \in Options : answer = Answer(options, Ssrc)
    BY <1>1 DEF IndInv, SessionInv
  <2>2. Ssrc.audio # Ssrc.rtx /\ Ssrc.video # Ssrc.rtx
    BY SsrcAssumption DEF SsrcAssumption
  <2>3. CASE IsAudio(packet)
    BY <2>1, <2>2, <2>3, AnswerText DEF IsAudio
  <2>4. CASE IsVideo(packet)
    <3>1. PICK f, k : Place(frames, f, k) /\ packet = PacketAt(frames, f, k)
      BY <2>4 DEF IsVideo, Sent
    <3>2. packet.ssrc = Ssrc.video /\ packet.pt = PayloadTypes.video
      BY <1>1, <3>1, PacketAtFacts DEF IndInv, FramesInv
    <3> QED
      BY <2>1, <2>2, <3>2, AnswerText
  <2>5. CASE IsRepeat(packet)
    <3>1. packet.ssrc = Ssrc.rtx /\ packet.pt = PayloadTypes.rtx
      BY <2>5 DEF IsRepeat, Repeats
    <3> QED
      BY <2>1, <3>1, AnswerText
  <2> QED
    BY <1>1, <2>3, <2>4, <2>5 DEF IndInv, WireInv
<1> QED
  BY <1>1, VideoPathInvariant, PTL

\* The feedback adapter knows every packet of video that was sent, as it is,
\* under the number in its header.
THEOREM VideoPathKnown ==
  Spec => []FeedbackKnowsPackets
<1>1. ASSUME IndInv PROVE FeedbackKnowsPackets
  <2>1. announced \subseteq {info.id : info \in added}
    BY <1>1 DEF IndInv, AddedInv
  <2>2. ASSUME NEW packet \in Media(Ssrc.video)
        PROVE  /\ PacketIds(packet) # {}
               /\ \A id \in PacketIds(packet) : id \in announced /\ SendInfo(packet, id) \in added
    <3>1. PICK f, k : packet.seq \in announced /\ Place(frames, f, k) /\ packet = PacketAt(frames, f, k)
      BY <1>1, MediaSays
    <3>2. PacketIds(packet) = {packet.seq}
      BY <1>1, <3>1, PacketAtFacts DEF IndInv, FramesInv
    <3>3. SendInfo(packet, packet.seq) \in added
      BY <1>1, <3>1 DEF IndInv, AddedInv
    <3> QED
      BY <3>1, <3>2, <3>3
  <2> QED
    BY <2>1, <2>2 DEF FeedbackKnowsPackets
<1> QED
  BY <1>1, VideoPathInvariant, PTL

\* The transport all media is sent to exists and is complete on this side,
\* when the bundle of the offer starts with audio.
THEOREM VideoPathTransport ==
  Spec => []MediaTransportReady
<1>1. ASSUME IndInv PROVE MediaTransportReady
  <2> SUFFICES ASSUME answer # NoAnswer, BundledWithAudioFirst
               PROVE  "audio" \in DOMAIN transports /\ transports["audio"].local.ufrag # ""
    BY DEF MediaTransportReady
  <2>1. DOMAIN transports = WithTransport(desc)
    BY <1>1 DEF IndInv, SessionInv
  <2>2. "audio" \in WithTransport(desc)
    BY DEF BundledWithAudioFirst, WithTransport
  <2>3. transports["audio"].local.ufrag = "own"
    BY <1>1, <2>1, <2>2 DEF IndInv, SessionInv
  <2> QED
    BY <2>1, <2>2, <2>3
<1> QED
  BY <1>1, VideoPathInvariant, PTL

-----------------------------------------------------------------------------
(* What the receiver puts together was sent.                               *)

\* What the receiver has under the number of a place is what was sent there.
LEMMA ArrivedAt ==
  ASSUME IndInv, NEW f, NEW k, Place(frames, f, k), NEW n, n = NumberAt(frames, f, k),
         n \in DOMAIN received
  PROVE  /\ received[n].ts = f /\ received[n].marker = (k = Len(CutOf(frames[f])))
         /\ received[n].payload = CutOf(frames[f])[k]
<1>1. PICK g, j : /\ Place(frames, g, j) /\ n = NumberAt(frames, g, j)
                  /\ received[n] = [ts |-> g, marker |-> (j = Len(CutOf(frames[g]))),
                                    payload |-> CutOf(frames[g])[j]]
  BY DEF IndInv, ReceiverInv, Arrived
<1>2. g = f /\ j = k
  BY <1>1, NumberFacts DEF IndInv, FramesInv
<1>3. PICK last : last = (j = Len(CutOf(frames[g])))
  OBVIOUS
<1>4. received[n] = [ts |-> g, marker |-> last, payload |-> CutOf(frames[g])[j]]
  BY <1>1, <1>3
<1>5. received[n].ts = g /\ received[n].marker = last /\ received[n].payload = CutOf(frames[g])[j]
  BY <1>4
<1> QED
  BY <1>2, <1>3, <1>5

\* Where a frame starts, and where the next one does.
LEMMA FrameBounds ==
  ASSUME NEW fr \in Seq(Frames), NEW f \in 1..Len(fr)
  PROVE  /\ Starts(fr)[f] \in Nat /\ Len(CutOf(fr[f])) \in Nat \ {0}
         /\ Starts(fr)[f + 1] = Starts(fr)[f] + Len(CutOf(fr[f]))
         /\ f + 1 \in 1..Len(fr) \/ Starts(fr)[f + 1] = CountOf(fr)
<1>1. PICK n \in Nat : n = Len(fr) /\ f \in 1..n
  BY StartsFacts
<1>2. PICK s : s = Starts(fr) /\ Ends(s, Counts(fr), n)
  BY <1>1, StartsFacts
<1>3. Counts(fr)[f] = Len(CutOf(fr[f])) /\ Len(CutOf(fr[f])) \in Nat \ {0}
  BY StartsFacts, CutFacts DEF Counts
<1>4. s \in [1..(n + 1) -> Nat] /\ s[f + 1] = s[f] + Counts(fr)[f]
  BY <1>1, <1>2 DEF Ends
<1>5. f \in 1..(n + 1)
  BY <1>1
<1>6. s[f] \in Nat
  BY <1>4, <1>5
<1>7. f + 1 \in 1..n \/ f = n
  BY <1>1
<1> QED
  BY <1>1, <1>2, <1>3, <1>4, <1>6, <1>7 DEF CountOf

\* The receiver's range of a whole frame starts with the first packet of one.
LEMMA WholeStarts ==
  ASSUME IndInv, NEW range \in WholeFrames
  PROVE  \E f : Place(frames, f, 1) /\ range[1] = NumberAt(frames, f, 1)
<1>1. PICK a : a = range[1]
  OBVIOUS
<1>2. a \in DOMAIN received /\ (a = 0 \/ (a - 1 \in DOMAIN received /\ received[a - 1].marker))
  BY <1>1 DEF WholeFrames
<1>3. frames \in Seq(Frames)
  BY DEF IndInv, FramesInv
<1>4. PICK f, k : Place(frames, f, k) /\ a = NumberAt(frames, f, k)
  BY <1>2 DEF IndInv, ReceiverInv, Arrived
<1>5. PICK c \in Nat : c = CountOf(frames) /\ a \in 0..(c - 1)
  BY <1>3, <1>4, NumberFacts
<1>6. CASE a = 0
  <2>1. f \in 1..Len(frames) /\ k \in 1..Len(CutOf(frames[f]))
    BY <1>4 DEF Place
  <2>2. PICK s \in Nat, l \in Nat : s = Starts(frames)[f] /\ l = Len(CutOf(frames[f]))
    BY <1>3, <2>1, FrameBounds
  <2>3. a = s + k - 1 /\ k \in 1..l
    BY <1>4, <2>1, <2>2 DEF NumberAt
  <2>4. k = 1
    BY <1>6, <2>3
  <2> QED
    BY <1>1, <1>4, <2>4
<1>7. CASE a # 0 /\ a - 1 \in DOMAIN received /\ received[a - 1].marker
  <2>1. PICK b : b = a - 1 /\ b \in DOMAIN received /\ received[b].marker
    BY <1>7
  <2>2. PICK g, j : Place(frames, g, j) /\ b = NumberAt(frames, g, j)
    BY <2>1 DEF IndInv, ReceiverInv, Arrived
  <2>3. j = Len(CutOf(frames[g]))
    <3>1. b \in DOMAIN received
      BY <2>1
    <3>2. received[b].marker = (j = Len(CutOf(frames[g])))
      BY <2>2, <3>1, ArrivedAt, Zenon
    <3> QED
      BY <2>1, <3>2
  <2>4. g \in 1..Len(frames)
    BY <2>2 DEF Place
  <2>5. PICK s \in Nat, l \in Nat : s = Starts(frames)[g] /\ l = Len(CutOf(frames[g]))
    BY <1>3, <2>4, FrameBounds
  <2>6. b = s + l - 1
    BY <2>2, <2>3, <2>5 DEF NumberAt
  <2>7. a = s + l
    BY <1>5, <2>1, <2>5, <2>6
  <2>8. Starts(frames)[g + 1] = a
    BY <1>3, <2>4, <2>5, <2>7, FrameBounds
  <2>9. g + 1 \in 1..Len(frames)
    BY <1>3, <1>5, <2>4, <2>8, FrameBounds
  <2>10. Place(frames, g + 1, 1) /\ NumberAt(frames, g + 1, 1) = a
    <3>1. Len(CutOf(frames[g + 1])) \in Nat \ {0}
      BY <1>3, <2>9, FrameBounds
    <3>2. 1 \in 1..Len(CutOf(frames[g + 1]))
      BY <3>1
    <3>3. NumberAt(frames, g + 1, 1) = a + 1 - 1
      BY <2>8 DEF NumberAt
    <3>4. a + 1 - 1 = a
      BY <1>5
    <3> QED
      BY <2>9, <3>2, <3>3, <3>4 DEF Place
  <2> QED
    BY <1>1, <2>10
<1> QED
  BY <1>2, <1>6, <1>7

\* It has all the packets of that frame, and no others.
LEMMA WholeEnds ==
  ASSUME IndInv, NEW range \in WholeFrames, NEW f, Place(frames, f, 1),
         range[1] = NumberAt(frames, f, 1)
  PROVE  /\ range[1] \in Nat /\ range[2] \in Nat
         /\ range[2] - range[1] + 1 = Len(CutOf(frames[f]))
         /\ \A i \in 1..Len(CutOf(frames[f])) :
              range[1] + i - 1 = NumberAt(frames, f, i) /\ range[1] + i - 1 \in DOMAIN received
<1>1. PICK a, b : a = range[1] /\ b = range[2]
  OBVIOUS
<1>2. /\ a \in DOMAIN received /\ b \in DOMAIN received /\ a <= b /\ a..b \subseteq DOMAIN received
      /\ \A n \in a..b : received[n].marker <=> n = b
  BY <1>1 DEF WholeFrames
<1>3. DOMAIN received \subseteq Nat
  BY MissingFacts
<1>4. frames \in Seq(Frames) /\ f \in 1..Len(frames)
  BY DEF IndInv, FramesInv, Place
<1>5. PICK l \in Nat \ {0} : l = Len(CutOf(frames[f]))
  BY <1>4, FrameBounds
<1>6. PICK s \in Nat : s = Starts(frames)[f]
  BY <1>4, FrameBounds
<1>7. a = s /\ l \in Nat
  <2>1. NumberAt(frames, f, 1) = s + 1 - 1
    BY <1>6 DEF NumberAt
  <2>2. s + 1 - 1 = s
    BY <1>6
  <2> QED
    BY <1>1, <2>1, <2>2
<1>8. \A i \in 1..l : Place(frames, f, i) /\ NumberAt(frames, f, i) = a + i - 1
  BY <1>4, <1>5, <1>6, <1>7 DEF Place, NumberAt
<1>9. PICK e \in Nat : e = b
  BY <1>2, <1>3
<1>10. ~(e > s + l - 1)
  <2> SUFFICES ASSUME e > s + l - 1 PROVE FALSE
    OBVIOUS
  <2>1. PICK n \in Nat : n = s + l - 1
    BY <1>5, <1>6
  <2>2. n \in a..b /\ n # b
    BY <1>5, <1>7, <1>9, <2>1
  <2>3. l \in 1..l
    BY <1>7, <1>5
  <2>4. Place(frames, f, l) /\ NumberAt(frames, f, l) = n
    BY <1>7, <1>8, <2>1, <2>3
  <2>5. n \in DOMAIN received
    BY <1>2, <2>2
  <2>6. received[n].marker = (l = Len(CutOf(frames[f])))
    BY <2>4, <2>5, ArrivedAt
  <2> QED
    BY <1>2, <1>5, <2>2, <2>6
<1>11. ~(e < s + l - 1)
  <2> SUFFICES ASSUME e < s + l - 1 PROVE FALSE
    OBVIOUS
  <2>1. s <= e
    BY <1>2, <1>7, <1>9
  <2>2. PICK i \in 1..l : e = s + i - 1 /\ i # l
    <3>1. e - s + 1 \in 1..l /\ e = s + (e - s + 1) - 1 /\ e - s + 1 # l
      BY <1>5, <1>6, <1>9, <2>1, SMTT(60)
    <3> QED
      BY <3>1
  <2>3. Place(frames, f, i) /\ NumberAt(frames, f, i) = e
    BY <1>7, <1>8, <2>2
  <2>4. received[e].marker = (i = Len(CutOf(frames[f])))
    BY <1>2, <1>9, <2>3, ArrivedAt
  <2>5. e \in a..b
    BY <1>7, <1>9, <2>1
  <2> QED
    BY <1>2, <1>5, <1>9, <2>2, <2>4, <2>5
<1>12. e = s + l - 1
  BY <1>5, <1>6, <1>9, <1>10, <1>11
<1>13. e - s + 1 = l
  BY <1>5, <1>6, <1>9, <1>12
<1>14. \A i \in 1..l : a + i - 1 \in a..b
  BY <1>5, <1>7, <1>9, <1>12
<1> QED
  BY <1>1, <1>2, <1>5, <1>7, <1>8, <1>9, <1>13, <1>14

\* What the receiver puts together is a frame that was sent.
WholeSent ==
  \A range \in WholeFrames :
     /\ received[range[1]].ts \in DOMAIN frames
     /\ FrameOf(range) = <<received[range[1]].ts, frames[received[range[1]].ts]>>

\* In every state of the invariant, whole frames are frames that were sent.
LEMMA WholeFramesSent ==
  IndInv => WholeSent
<1> SUFFICES ASSUME IndInv, NEW range \in WholeFrames
             PROVE  /\ received[range[1]].ts \in DOMAIN frames
                    /\ FrameOf(range) = <<received[range[1]].ts, frames[received[range[1]].ts]>>
  BY DEF WholeSent
<1>1. PICK a, b : a = range[1] /\ b = range[2]
  OBVIOUS
<1>2. PICK f : Place(frames, f, 1) /\ a = NumberAt(frames, f, 1)
  BY <1>1, WholeStarts
<1>3. PICK x : x = CutOf(frames[f])
  OBVIOUS
<1>4. /\ a \in Nat /\ b \in Nat /\ b - a + 1 = Len(x)
      /\ \A i \in 1..Len(x) : a + i - 1 = NumberAt(frames, f, i) /\ a + i - 1 \in DOMAIN received
  BY <1>1, <1>2, <1>3, WholeEnds
<1>5. frames \in Seq(Frames) /\ f \in 1..Len(frames) /\ frames[f] \in Frames /\ f \in DOMAIN frames
  BY <1>2, LenProperties, ElementOfSeq DEF IndInv, FramesInv, Place
<1>6. IsQueue(x) /\ Len(x) \in Nat \ {0} /\ FoldLeft(Depacketize, <<>>, x) = frames[f]
  BY <1>3, <1>5, CutFacts
<1>7. \A i \in 1..Len(x) : received[a + i - 1].payload = x[i]
  <2> SUFFICES ASSUME NEW i \in 1..Len(x) PROVE received[a + i - 1].payload = x[i]
    OBVIOUS
  <2>1. Place(frames, f, i)
    BY <1>3, <1>5 DEF Place
  <2>2. PICK n : n = a + i - 1
    OBVIOUS
  <2>3. n = NumberAt(frames, f, i) /\ n \in DOMAIN received
    BY <1>4, <2>2
  <2> QED
    BY <1>3, <2>1, <2>2, <2>3, ArrivedAt
<1>8. received[a].ts = f
  <2>1. 1 \in 1..Len(x) /\ a + 1 - 1 = a
    BY <1>4, <1>6
  <2>2. a \in DOMAIN received
    BY <1>4, <2>1
  <2> QED
    BY <1>2, <2>2, ArrivedAt
<1> DEFINE h == [i \in 1..(b - a + 1) |-> received[a + i - 1].payload]
<1>9. h = [i \in 1..Len(x) |-> h[i]] /\ \A i \in 1..Len(x) : h[i] = received[a + i - 1].payload
  BY <1>4
<1>10. FrameOf(range) = <<received[a].ts, FoldLeft(Depacketize, <<>>, h)>>
  BY <1>1, Zenon DEF FrameOf, h
<1> HIDE DEF h
<1>11. IsQueue(h) /\ Len(h) = Len(x)
  BY <1>6, <1>9, FunctionQueue
<1>12. h = x
  BY <1>6, <1>7, <1>9, <1>11, QueueEqual
<1> QED
  BY <1>1, <1>5, <1>6, <1>8, <1>10, <1>12

\* What the receiver has put together.
Delivered == {FrameOf(range) : range \in WholeFrames}

\* A packet more leaves whole frames whole.
LEMMA ReceivedMore ==
  ASSUME UNCHANGED frames, NEW n, n \notin DOMAIN received, DOMAIN received' = DOMAIN received \cup {n},
         \A m \in DOMAIN received : received'[m] = received[m]
  PROVE  WholeFrames \subseteq WholeFrames'
<1> SUFFICES ASSUME NEW range \in WholeFrames PROVE range \in WholeFrames'
  OBVIOUS
<1>1. PICK a, b : a = range[1] /\ b = range[2]
  OBVIOUS
<1>2. /\ range \in (DOMAIN received) \X (DOMAIN received) /\ a <= b /\ a..b \subseteq DOMAIN received
      /\ a = 0 \/ (a - 1 \in DOMAIN received /\ received[a - 1].marker)
      /\ \A m \in a..b : received[m].marker <=> m = b
  BY <1>1 DEF WholeFrames
<1>3. range \in (DOMAIN received') \X (DOMAIN received') /\ a..b \subseteq DOMAIN received'
  BY <1>2
<1>4. a = 0 \/ (a - 1 \in DOMAIN received' /\ received'[a - 1].marker)
  BY <1>2
<1>5. \A m \in a..b : received'[m].marker <=> m = b
  BY <1>2
<1> QED
  BY <1>1, <1>2, <1>3, <1>4, <1>5 DEF WholeFrames

\* Every step is one of the promise, or none.
LEMMA NextDelivers ==
  ASSUME IndInv, IndInv', [Next]_vars
  PROVE  (\E frame \in Frames : frames' = Append(frames, frame) /\ UNCHANGED Delivered)
         \/ (\E places \in SUBSET DOMAIN frames :
                Delivered' = Delivered \cup {<<f, frames[f]>> : f \in places} /\ UNCHANGED frames)
         \/ UNCHANGED <<frames, Delivered>>
<1>1. ASSUME UNCHANGED received PROVE UNCHANGED Delivered
  BY <1>1 DEF Delivered, WholeFrames, FrameOf
<1>2. CASE \E frame \in Frames : SendEncodedImage(frame)
  <2>1. PICK frame \in Frames : SendEncodedImage(frame)
    BY <1>2
  <2>2. frames' = Append(frames, frame) /\ UNCHANGED received
    BY <2>1 DEF SendEncodedImage, receiver
  <2> QED
    BY <1>1, <2>2
<1>3. CASE \E packet \in wire : Receive(packet)
  <2>1. PICK packet \in wire : Receive(packet)
    BY <1>3
  <2>2. UNCHANGED frames
    BY <2>1 DEF Receive, sender
  <2>3. PICK n, x : /\ n \notin DOMAIN received
                    /\ received' = [m \in DOMAIN received \cup {n} |-> IF m # n THEN received[m] ELSE x]
    BY <2>1 DEF Receive
  <2>4. DOMAIN received' = DOMAIN received \cup {n} /\ \A m \in DOMAIN received : received'[m] = received[m]
    BY <2>3
  <2>5. WholeFrames \subseteq WholeFrames'
    BY <2>2, <2>3, <2>4, ReceivedMore
  <2>6. WholeSent /\ WholeSent'
    <3>1. IndInv => WholeSent
      BY WholeFramesSent
    <3>2. IndInv' => WholeSent'
      BY <3>1, WholeFramesSent, PTL
    <3> QED
      BY <3>1, <3>2
  <2>7. \A range \in WholeFrames : received'[range[1]] = received[range[1]]
    BY <2>4 DEF WholeFrames
  <2>8. \A range \in WholeFrames : FrameOf(range)' = FrameOf(range)
    BY <2>2, <2>5, <2>6, <2>7 DEF WholeSent
  <2> DEFINE places == {f \in DOMAIN frames : <<f, frames[f]>> \in Delivered'}
  <2>9. Delivered \subseteq Delivered'
    BY <2>5, <2>8 DEF Delivered
  <2>10. Delivered' \subseteq {<<f, frames[f]>> : f \in DOMAIN frames}
    BY <2>2, <2>6 DEF WholeSent, Delivered
  <2>11. Delivered' = Delivered \cup {<<f, frames[f]>> : f \in places}
    BY <2>9, <2>10
  <2> QED
    BY <2>2, <2>11
<1>4. CASE \/ \E offer \in Offers : SetRemoteSDP(offer)
           \/ \E options \in Options : CreateAnswer(options)
           \/ \E up \in BOOLEAN : OnIceState(up)
           \/ SendEncodedAudio(<<1>>)
           \/ SendPacket
           \/ \E message \in rtcp : OnRtcpPacketReceived(message)
           \/ \E shape \in {"alone", "compound", "cut"} : SendNack(shape)
           \/ UNCHANGED vars
  <2>1. UNCHANGED <<frames, received>>
    BY <1>4 DEF SetRemoteSDP, CreateAnswer, OnIceState, SendEncodedAudio, SendPacket,
                OnRtcpPacketReceived, SendNack, sender, receiver, vars
  <2> QED
    BY <1>1, <2>1
<1> QED
  BY <1>2, <1>3, <1>4 DEF Next

\* The sending and receiving of video is what FrameDelivery promises: the
\* receiver has frames that were sent, as they were sent, whatever is lost,
\* repeated, reordered or sent again.
THEOREM VideoPathDelivers ==
  Spec => DeliversFrames
<1>1. Init => Abstract!Init
  <2> SUFFICES ASSUME Init PROVE Abstract!Init
    OBVIOUS
  <2>1. DOMAIN received = {}
    BY DEF Init
  <2>2. {FrameOf(range) : range \in WholeFrames} = {}
    BY <2>1 DEF WholeFrames
  <2> QED
    BY <2>2 DEF Init, Abstract!Init
<1>2. IndInv /\ IndInv' /\ [Next]_vars => [Abstract!Next]_<<frames, {FrameOf(range) : range \in WholeFrames}>>
  BY NextDelivers DEF Delivered, Abstract!Next, Abstract!Send, Abstract!Deliver
<1> QED
  BY <1>1, <1>2, VideoPathInvariant, PTL DEF Spec, DeliversFrames, Abstract!Spec
=============================================================================
