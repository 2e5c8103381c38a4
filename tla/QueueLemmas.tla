---------------------------- MODULE QueueLemmas ----------------------------
(***************************************************************************)
(* What a task queue holds after a post and after its first task is taken, *)
(* whatever the tasks are: queues whose tasks have no common type.  And    *)
(* what the other proofs need of lists and numbers: an element taken out,  *)
(* the order and the number of tasks, induction over a set, remainders,    *)
(* the largest number of a set, sums over a finite set, and lists that are *)
(* put together of others.                                                 *)
(***************************************************************************)
EXTENDS Integers, SequencesExt, SequenceTheorems, FiniteSetTheorems,
        WellFoundedInduction, TLAPS

IsQueue(q) == \E S : q \in Seq(S)

Tasks(q) == {q[i] : i \in 1..Len(q)}

\* A queue of other elements is one with more to choose from.
LEMMA QueueBasics ==
  ASSUME NEW q, IsQueue(q)
  PROVE  /\ Len(q) \in Nat
         /\ DOMAIN q = 1..Len(q)
         /\ q = << >> <=> Len(q) = 0
         /\ q # << >> => Head(q) = q[1]
BY EmptySeq DEF IsQueue

\* PostTask: the task is the last one, and the others are where they were.
LEMMA AppendFacts ==
  ASSUME NEW q, NEW task, IsQueue(q)
  PROVE  /\ IsQueue(Append(q, task))
         /\ Len(Append(q, task)) = Len(q) + 1
         /\ Append(q, task)[Len(q) + 1] = task
         /\ \A i \in 1..Len(q) : Append(q, task)[i] = q[i]
<1>1. PICK S : q \in Seq(S)
  BY DEF IsQueue
<1> DEFINE T == S \cup {task}
<1>2. q \in Seq(T)
  BY <1>1, SeqMonotonic
<1>3. Append(q, task) \in Seq(T)
  BY <1>2
<1> QED
  BY <1>2, <1>3 DEF IsQueue

\* A thread takes its first task: the others move up by one.
LEMMA TailFacts ==
  ASSUME NEW q, IsQueue(q), q # << >>
  PROVE  /\ IsQueue(Tail(q))
         /\ Len(q) \in Nat \ {0}
         /\ Len(Tail(q)) = Len(q) - 1
         /\ Head(q) = q[1]
         /\ \A i \in 1..(Len(q) - 1) : Tail(q)[i] = q[i + 1]
<1>1. PICK S : q \in Seq(S)
  BY DEF IsQueue
<1> QED
  BY <1>1 DEF IsQueue

\* Several tasks are posted one after the other.
LEMMA ConcatFacts ==
  ASSUME NEW q, NEW r, IsQueue(q), IsQueue(r)
  PROVE  /\ IsQueue(q \o r)
         /\ Len(q \o r) = Len(q) + Len(r)
         /\ \A i \in 1..Len(q) : (q \o r)[i] = q[i]
         /\ \A i \in 1..Len(r) : (q \o r)[Len(q) + i] = r[i]
<1>1. PICK S : q \in Seq(S)
  BY DEF IsQueue
<1>2. PICK T : r \in Seq(T)
  BY DEF IsQueue
<1> DEFINE U == S \cup T
<1>3. q \in Seq(U) /\ r \in Seq(U)
  BY <1>1, <1>2, SeqMonotonic
<1>4. q \o r \in Seq(U)
  BY <1>3
<1> QED
  BY <1>3, <1>4 DEF IsQueue

\* One task for each element of a finite set: finitely many.
LEMMA ImageFinite ==
  ASSUME NEW S, NEW T, IsFiniteSet(S), NEW f \in [S -> T],
         \A t \in T : \E s \in S : f[s] = t
  PROVE  IsFiniteSet(T)
<1>1. f \in Surjection(S, T)
  BY DEF Surjection
<1> QED
  BY <1>1, FS_Surjection

\* The tasks for the elements of a finite set, in any order.
LEMMA SetToSeqFacts ==
  ASSUME NEW S, IsFiniteSet(S)
  PROVE  IsQueue(SetToSeq(S)) /\ Tasks(SetToSeq(S)) \subseteq S
<1> DEFINE n == Cardinality(S)
<1>1. n \in Nat /\ ExistsBijection(1..n, S)
  BY FS_CardinalityType
<1>2. \E f \in [1..n -> S] : IsInjective(f)
  BY <1>1 DEF ExistsBijection, Bijection, Injection
<1>3. SetToSeq(S) \in [1..n -> S]
  BY <1>2 DEF SetToSeq
<1>4. SetToSeq(S) \in Seq(S)
  BY <1>1, <1>3, SeqDef
<1> QED
  BY <1>4, ElementOfSeq DEF IsQueue, Tasks

\* What is in a queue, without its order.
LEMMA TasksAfter ==
  ASSUME NEW q, IsQueue(q)
  PROVE  /\ \A task : Tasks(Append(q, task)) = Tasks(q) \cup {task}
         /\ \A r : IsQueue(r) => Tasks(q \o r) = Tasks(q) \cup Tasks(r)
         /\ q # << >> => Tasks(q) = Tasks(Tail(q)) \cup {Head(q)}
<1>1. ASSUME NEW task PROVE Tasks(Append(q, task)) = Tasks(q) \cup {task}
  <2>1. Len(q) \in Nat
    BY QueueBasics
  <2>2. 1..(Len(q) + 1) = 1..Len(q) \cup {Len(q) + 1}
    BY <2>1
  <2> QED
    BY <2>1, <2>2, AppendFacts DEF Tasks
<1>2. ASSUME NEW r, IsQueue(r) PROVE Tasks(q \o r) = Tasks(q) \cup Tasks(r)
  <2>1. Len(q) \in Nat /\ Len(r) \in Nat
    BY <1>2, QueueBasics
  <2>2. ASSUME NEW i \in 1..(Len(q) + Len(r))
        PROVE  i \in 1..Len(q) \/ (i - Len(q) \in 1..Len(r) /\ i = Len(q) + (i - Len(q)))
    BY <2>1
  <2>3. \A i \in 1..Len(q) : i \in 1..(Len(q) + Len(r))
    BY <2>1
  <2>4. \A i \in 1..Len(r) : Len(q) + i \in 1..(Len(q) + Len(r))
    BY <2>1
  <2>5. /\ Len(q \o r) = Len(q) + Len(r)
        /\ \A i \in 1..Len(q) : (q \o r)[i] = q[i]
        /\ \A i \in 1..Len(r) : (q \o r)[Len(q) + i] = r[i]
    BY <1>2, ConcatFacts
  <2>6. Tasks(q \o r) \subseteq Tasks(q) \cup Tasks(r)
    <3> SUFFICES ASSUME NEW i \in 1..(Len(q) + Len(r))
                 PROVE  (q \o r)[i] \in Tasks(q) \cup Tasks(r)
      BY <2>5 DEF Tasks
    <3> QED
      BY <2>2, <2>5 DEF Tasks
  <2>7. Tasks(q) \cup Tasks(r) \subseteq Tasks(q \o r)
    BY <2>3, <2>4, <2>5, ZenonT(60) DEF Tasks
  <2> QED
    BY <2>6, <2>7
<1>3. ASSUME q # << >> PROVE Tasks(q) = Tasks(Tail(q)) \cup {Head(q)}
  <2>1. /\ Len(q) \in Nat \ {0} /\ Len(Tail(q)) = Len(q) - 1 /\ Head(q) = q[1]
        /\ \A i \in 1..(Len(q) - 1) : Tail(q)[i] = q[i + 1]
    BY <1>3, TailFacts
  <2>2. \A i \in 1..Len(q) : i = 1 \/ (i - 1 \in 1..(Len(q) - 1) /\ i = (i - 1) + 1)
    BY <2>1
  <2>3. \A i \in 1..(Len(q) - 1) : i + 1 \in 1..Len(q)
    BY <2>1
  <2>4. Tasks(q) \subseteq Tasks(Tail(q)) \cup {Head(q)}
    <3> SUFFICES ASSUME NEW i \in 1..Len(q) PROVE q[i] \in Tasks(Tail(q)) \cup {Head(q)}
      BY DEF Tasks
    <3> QED
      BY <2>1, <2>2 DEF Tasks
  <2>5. Tasks(Tail(q)) \cup {Head(q)} \subseteq Tasks(q)
    BY <2>1, <2>3 DEF Tasks
  <2> QED
    BY <2>4, <2>5
<1> QED
  BY <1>1, <1>2, <1>3

\* A post is the concatenation with one task.
LEMMA AppendIsPost ==
  ASSUME NEW q, NEW task, IsQueue(q)
  PROVE  Append(q, task) = q \o <<task>>
<1>1. PICK S : q \in Seq(S)
  BY DEF IsQueue
<1> DEFINE T == S \cup {task}
<1>2. q \in Seq(T) /\ task \in T
  BY <1>1, SeqMonotonic
<1> QED
  BY <1>2, AppendIsConcat

\* A few tasks written out.
LEMMA ListedTasks ==
  /\ IsQueue(<< >>) /\ Tasks(<< >>) = {}
  /\ \A a : IsQueue(<<a>>) /\ Tasks(<<a>>) = {a}
  /\ \A a, b : IsQueue(<<a, b>>) /\ Tasks(<<a, b>>) = {a, b}
  /\ \A a, b, c, d : IsQueue(<<a, b, c, d>>) /\ Tasks(<<a, b, c, d>>) = {a, b, c, d}
<1>1. IsQueue(<< >>) /\ Tasks(<< >>) = {}
  BY EmptySeq DEF IsQueue, Tasks
<1>2. ASSUME NEW a PROVE IsQueue(<<a>>) /\ Tasks(<<a>>) = {a}
  <2>1. <<a>> \in Seq({a}) /\ Len(<<a>>) = 1 /\ <<a>>[1] = a
    OBVIOUS
  <2>2. 1..1 = {1}
    OBVIOUS
  <2> QED
    BY <2>1, <2>2 DEF IsQueue, Tasks
<1>3. ASSUME NEW a, NEW b PROVE IsQueue(<<a, b>>) /\ Tasks(<<a, b>>) = {a, b}
  <2>1. <<a, b>> \in Seq({a, b}) /\ Len(<<a, b>>) = 2 /\ <<a, b>>[1] = a /\ <<a, b>>[2] = b
    OBVIOUS
  <2>2. 1..2 = {1, 2}
    OBVIOUS
  <2> QED
    BY <2>1, <2>2 DEF IsQueue, Tasks
<1>4. ASSUME NEW a, NEW b, NEW c, NEW d
      PROVE  IsQueue(<<a, b, c, d>>) /\ Tasks(<<a, b, c, d>>) = {a, b, c, d}
  <2>1. /\ <<a, b, c, d>> \in Seq({a, b, c, d}) /\ Len(<<a, b, c, d>>) = 4
        /\ <<a, b, c, d>>[1] = a /\ <<a, b, c, d>>[2] = b
        /\ <<a, b, c, d>>[3] = c /\ <<a, b, c, d>>[4] = d
    OBVIOUS
  <2>2. 1..4 = {1, 2, 3, 4}
    OBVIOUS
  <2> QED
    BY <2>1, <2>2 DEF IsQueue, Tasks
<1> QED
  BY <1>1, <1>2, <1>3, <1>4

-----------------------------------------------------------------------------
\* Induction: a set with 0 and the successors of its numbers has them all.
LEMMA SetInduction ==
  ASSUME NEW S, 0 \in S, \A n \in S : n + 1 \in S
  PROVE  Nat \subseteq S
<1> SUFFICES ASSUME NEW bad \in Nat, bad \notin S PROVE FALSE
  OBVIOUS
<1> DEFINE T == Nat \ S
           R == {ss \in Nat \X Nat : ss[1] < ss[2]}
<1>1. IsWellFoundedOn(R, Nat)
  BY NatLessThanWellFounded DEF OpToRel
<1>2. T # {} /\ T \subseteq Nat
  OBVIOUS
<1> HIDE DEF T, R
<1>3. \E x \in T : \A y \in T : <<y, x>> \notin R
  BY <1>1, <1>2, WFMin
<1> USE DEF T
<1>4. PICK x \in T : \A y \in T : <<y, x>> \notin R
  BY <1>3
<1>5. x # 0 /\ x \in Nat /\ x - 1 \in Nat /\ x - 1 < x
  OBVIOUS
<1>6. <<x - 1, x>> \in R
  BY <1>5 DEF R
<1>7. x - 1 \in S
  BY <1>4, <1>5, <1>6
<1>8. (x - 1) + 1 \in S
  BY <1>7
<1> QED
  BY <1>5, <1>8

\* A remainder, by the number it is left by.
LEMMA ModUnique ==
  ASSUME NEW m \in Nat \ {0}, NEW q \in Int, NEW r \in 0..(m - 1)
  PROVE  (q * m + r) % m = r
OBVIOUS

LEMMA ModFacts ==
  ASSUME NEW m \in Nat \ {0}, NEW a \in Int
  PROVE  /\ a % m \in 0..(m - 1)
         /\ \E q \in Int : a = q * m + (a % m)
<1>1. a % m \in 0..(m - 1)
  OBVIOUS
<1>2. a \div m \in Int /\ a = (a \div m) * m + (a % m)
  OBVIOUS
<1> QED
  BY <1>1, <1>2

\* Adding a multiple changes no remainder.
LEMMA ModShift ==
  ASSUME NEW m \in Nat \ {0}, NEW a \in Int, NEW k \in Int
  PROVE  (a + k * m) % m = a % m
<1>1. PICK q \in Int : a = q * m + (a % m)
  BY ModFacts
<1>2. a % m \in 0..(m - 1)
  BY ModFacts
<1>3. a + k * m = (q + k) * m + (a % m) /\ q + k \in Int
  BY <1>1, <1>2
<1> QED
  BY <1>2, <1>3, ModUnique

\* The largest number of a set that holds its bound.
LEMMA MaxIs ==
  ASSUME NEW n \in Int, NEW s, n \in s, \A x \in s : x \in Int /\ x <= n
  PROVE  Max(s) = n
<1>2. \A x \in s : (\A y \in s : x >= y) => x = n
  OBVIOUS
<1>3. \E x \in s : \A y \in s : x >= y
  OBVIOUS
<1>4. /\ Max(s) \in s
      /\ \A y \in s : Max(s) >= y
  BY <1>3, Zenon DEF Max
<1> QED
  BY <1>2, <1>4

\* The smallest and the largest of finitely many numbers are among them.
LEMMA Extremes ==
  ASSUME NEW a \in Int, NEW b \in Int, NEW s \in SUBSET (a..b), s # {}
  PROVE  /\ Min(s) \in s /\ \A y \in s : Min(s) <= y
         /\ Max(s) \in s /\ \A y \in s : Max(s) >= y
<1> DEFINE HasBoth(r) == /\ \E x \in r : \A y \in r : x <= y
                         /\ \E x \in r : \A y \in r : x >= y
           S == {n \in Nat : \A r \in SUBSET (a..(a + n)) : r # {} => HasBoth(r)}
<1>1. 0 \in S
  <2>1. a..(a + 0) = {a}
    OBVIOUS
  <2>2. ASSUME NEW r \in SUBSET {a}, r # {} PROVE HasBoth(r)
    <3>1. r = {a}
      BY <2>2
    <3> QED
      BY <3>1
  <2> QED
    BY <2>1, <2>2
<1>2. ASSUME NEW n \in S PROVE n + 1 \in S
  <2>1. n \in Nat /\ n + 1 \in Nat /\ a + n \in Int
    OBVIOUS
  <2> SUFFICES ASSUME NEW r \in SUBSET (a..(a + (n + 1))), r # {} PROVE HasBoth(r)
    BY <2>1
  <2> DEFINE top == a + (n + 1)
             rest == r \ {top}
  <2>2. rest \in SUBSET (a..(a + n)) /\ top \in Int
    BY <2>1
  <2>3. CASE rest = {}
    <3>1. \A y \in r : y = top
      BY <2>3
    <3>2. PICK x \in r : TRUE
      OBVIOUS
    <3> QED
      BY <2>2, <3>1, <3>2
  <2>4. CASE rest # {} /\ top \notin r
    <3>1. rest = r
      BY <2>4
    <3>2. \A q \in SUBSET (a..(a + n)) : q # {} => HasBoth(q)
      OBVIOUS
    <3> HIDE DEF HasBoth, rest
    <3>3. HasBoth(rest)
      BY <2>2, <2>4, <3>2
    <3> QED
      BY <3>1, <3>3
  <2>5. CASE rest # {} /\ top \in r
    <3>1. \A q \in SUBSET (a..(a + n)) : q # {} => HasBoth(q)
      OBVIOUS
    <3>2. HasBoth(rest)
      <4> HIDE DEF HasBoth, rest
      <4> QED
        BY <2>2, <2>5, <3>1
    <3>3. PICK x \in rest : \A y \in rest : x <= y
      BY <3>2
    <3>4. \A y \in r : y = top \/ y \in rest
      OBVIOUS
    <3>5. x \in r /\ x \in a..(a + n)
      BY <2>2
    <3>6. \A y \in r : x <= y
      BY <2>1, <2>2, <3>3, <3>4, <3>5
    <3>7. \A y \in r : top >= y
      BY <2>1
    <3> QED
      BY <2>5, <3>5, <3>6, <3>7
  <2> QED
    BY <2>3, <2>4, <2>5
<1>3. Nat \subseteq S
  <2> HIDE DEF S
  <2> QED
    BY <1>1, <1>2, SetInduction
<1>4. HasBoth(s)
  <2>1. PICK z : z \in s
    OBVIOUS
  <2>2. b - a \in Nat /\ a + (b - a) = b
    BY <2>1
  <2>3. b - a \in S
    BY <1>3, <2>2
  <2>4. \A r \in SUBSET (a..(a + (b - a))) : r # {} => HasBoth(r)
    BY <2>3
  <2> QED
    BY <2>2, <2>4
<1>5. Min(s) \in s /\ \A y \in s : Min(s) <= y
  BY <1>4, Zenon DEF Min
<1>6. Max(s) \in s /\ \A y \in s : Max(s) >= y
  BY <1>4, Zenon DEF Max
<1> QED
  BY <1>5, <1>6

\* A set of naturals has a smallest one.
LEMMA LeastNatural ==
  ASSUME NEW s \in SUBSET Nat, s # {}
  PROVE  \E x \in s : \A y \in s : x <= y
<1> DEFINE R == {ss \in Nat \X Nat : ss[1] < ss[2]}
<1>1. IsWellFoundedOn(R, Nat)
  BY NatLessThanWellFounded DEF OpToRel
<1> HIDE DEF R
<1>2. PICK x \in s : \A y \in s : <<y, x>> \notin R
  BY <1>1, WFMin
<1>3. ASSUME NEW y \in s PROVE x <= y
  <2>1. x \in Nat /\ y \in Nat /\ <<y, x>> \notin R
    BY <1>2
  <2>2. ~(y < x)
    BY <2>1 DEF R
  <2> QED
    BY <2>1, <2>2
<1> QED
  BY <1>2, <1>3

\* One element less.
LEMMA OneLess ==
  ASSUME NEW S, IsFiniteSet(S)
  PROVE  \A s \in SUBSET S : \A x \in s :
            /\ s \ {x} \in SUBSET S /\ IsFiniteSet(s \ {x})
            /\ Cardinality(s) \in Nat /\ Cardinality(s \ {x}) = Cardinality(s) - 1
<1> SUFFICES ASSUME NEW s \in SUBSET S, NEW x \in s
             PROVE  /\ s \ {x} \in SUBSET S /\ IsFiniteSet(s \ {x})
                    /\ Cardinality(s) \in Nat /\ Cardinality(s \ {x}) = Cardinality(s) - 1
  OBVIOUS
<1>1. IsFiniteSet(s)
  BY FS_Subset
<1> QED
  BY <1>1, FS_RemoveElement, FS_CardinalityType

\* A finite set of numbers has a largest one, and Max finds it.
LEMMA FiniteMax ==
  ASSUME NEW s \in SUBSET Int, s # {}, IsFiniteSet(s)
  PROVE  Max(s) \in s /\ \A y \in s : Max(s) >= y
<1> DEFINE Bounded(t) == \E x \in t : \A y \in t : x >= y
           S == {n \in Nat : \A t \in SUBSET Int :
                   t # {} /\ IsFiniteSet(t) /\ Cardinality(t) = n => Bounded(t)}
<1>1. 0 \in S
  BY FS_EmptySet
<1>2. ASSUME NEW n \in S PROVE n + 1 \in S
  <2>1. n \in Nat /\ n + 1 \in Nat
    OBVIOUS
  <2>2. \A t \in SUBSET Int :
          t # {} /\ IsFiniteSet(t) /\ Cardinality(t) = n => Bounded(t)
    OBVIOUS
  <2> SUFFICES ASSUME NEW t \in SUBSET Int, t # {}, IsFiniteSet(t),
                      Cardinality(t) = n + 1
               PROVE  Bounded(t)
    BY <2>1
  <2>3. PICK z : z \in t
    OBVIOUS
  <2> DEFINE r == t \ {z}
  <2>4. r \in SUBSET Int /\ IsFiniteSet(r) /\ Cardinality(r) = n
    <3>1. IsFiniteSet(t \ {z}) /\ Cardinality(t \ {z}) = (n + 1) - 1
      BY <2>3, FS_RemoveElement, ZenonT(60)
    <3>2. (n + 1) - 1 = n
      BY <2>1
    <3>3. r \in SUBSET Int
      OBVIOUS
    <3> HIDE DEF S, Bounded
    <3> QED
      BY <3>1, <3>2, <3>3
  <2>5. CASE r = {}
    <3>1. \A y \in t : y = z /\ z \in Int
      BY <2>5
    <3> QED
      BY <2>3, <3>1
  <2>6. CASE r # {}
    <3>1. Bounded(r)
      <4> HIDE DEF Bounded, r
      <4> QED
        BY <2>2, <2>4, <2>6
    <3>2. PICK x \in r : \A y \in r : x >= y
      BY <3>1
    <3>3. x \in t /\ x \in Int /\ z \in Int /\ \A y \in t : y \in Int /\ (y = z \/ y \in r)
      BY <2>3
    <3>4. CASE x >= z
      BY <3>2, <3>3, <3>4
    <3>5. CASE ~(x >= z)
      <4>1. \A y \in t : z >= y
        BY <3>2, <3>3, <3>5
      <4> QED
        BY <2>3, <4>1
    <3> QED
      BY <3>4, <3>5
  <2> QED
    BY <2>5, <2>6
<1>3. Nat \subseteq S
  <2> HIDE DEF S
  <2> QED
    BY <1>1, <1>2, SetInduction
<1>4. Cardinality(s) \in S
  BY <1>3, FS_CardinalityType
<1>5. \E x \in s : \A y \in s : x >= y
  BY <1>4
<1> QED
  BY <1>5, Zenon DEF Max

-----------------------------------------------------------------------------
\* The sum of f over a finite set, by a function that unfolds on its subsets.
OneOf(s) == CHOOSE x \in s : TRUE
Sums(g, f, S) ==
  g = [s \in SUBSET S |-> IF s = {} THEN 0 ELSE f[OneOf(s)] + g[s \ {OneOf(s)}]]
Total(f, S) == (CHOOSE g : Sums(g, f, S))[S]

\* There is such a function: by induction on the size of the subsets.
LEMMA SumsExists ==
  ASSUME NEW f, NEW S, IsFiniteSet(S)
  PROVE  \E g : Sums(g, f, S)
<1> DEFINE Small(n) == {s \in SUBSET S : Cardinality(s) <= n}
           Partial(g, n) ==
             g = [s \in Small(n) |-> IF s = {} THEN 0 ELSE f[OneOf(s)] + g[s \ {OneOf(s)}]]
           N == {n \in Nat : \E g : Partial(g, n)}
<1>0. \A s \in SUBSET S : /\ IsFiniteSet(s) /\ Cardinality(s) \in Nat
                          /\ Cardinality(s) <= Cardinality(S)
                          /\ s # {} => /\ OneOf(s) \in s
                                       /\ Cardinality(s \ {OneOf(s)}) = Cardinality(s) - 1
  <2> SUFFICES ASSUME NEW s \in SUBSET S
               PROVE  /\ IsFiniteSet(s) /\ Cardinality(s) \in Nat
                      /\ Cardinality(s) <= Cardinality(S)
                      /\ s # {} => /\ OneOf(s) \in s
                                   /\ Cardinality(s \ {OneOf(s)}) = Cardinality(s) - 1
    OBVIOUS
  <2>1. IsFiniteSet(s) /\ Cardinality(s) <= Cardinality(S)
    BY FS_Subset
  <2>2. Cardinality(s) \in Nat
    BY <2>1, FS_CardinalityType
  <2>3. s # {} => OneOf(s) \in s
    BY DEF OneOf
  <2> QED
    BY <2>1, <2>2, <2>3, FS_RemoveElement
<1>1. 0 \in N
  <2> DEFINE g == [s \in Small(0) |-> 0]
  <2>1. \A s \in Small(0) : s = {}
    <3> SUFFICES ASSUME NEW s \in SUBSET S, Cardinality(s) <= 0 PROVE s = {}
      OBVIOUS
    <3>1. IsFiniteSet(s) /\ Cardinality(s) \in Nat
      BY <1>0
    <3>2. Cardinality(s) = 0
      BY <3>1
    <3> QED
      BY <3>1, <3>2, FS_EmptySet
  <2>2. Partial(g, 0)
    BY <2>1, Zenon
  <2> QED
    BY <2>2
<1>2. ASSUME NEW n \in N PROVE n + 1 \in N
  <2>1. n \in Nat /\ n + 1 \in Nat
    OBVIOUS
  <2>2. PICK g : Partial(g, n)
    OBVIOUS
  <2> DEFINE h == [s \in Small(n + 1) |->
                     IF s \in Small(n) THEN g[s]
                     ELSE f[OneOf(s)] + g[s \ {OneOf(s)}]]
  <2>3. \A s \in Small(n) : s \in Small(n + 1)
    <3> SUFFICES ASSUME NEW s \in SUBSET S, Cardinality(s) <= n
                 PROVE  Cardinality(s) <= n + 1
      OBVIOUS
    <3>1. Cardinality(s) \in Nat
      BY <1>0
    <3> QED
      BY <2>1, <3>1
  <2>4. \A s \in Small(n + 1) : s # {} => s \ {OneOf(s)} \in Small(n)
    BY <1>0, <2>1
  <2>5. {} \in Small(n)
    BY <2>1, FS_EmptySet
  <2>6. \A s \in Small(n) :
           g[s] = IF s = {} THEN 0 ELSE f[OneOf(s)] + g[s \ {OneOf(s)}]
    <3> HIDE DEF Small
    <3> QED
      BY <2>2, Zenon
  <2> HIDE DEF Small
  <2>7. ASSUME NEW s \in Small(n + 1)
        PROVE  h[s] = IF s = {} THEN 0 ELSE f[OneOf(s)] + h[s \ {OneOf(s)}]
    <3>1. CASE s = {}
      BY <2>5, <2>6, <3>1, Zenon
    <3>2. CASE s # {}
      <4>1. s \ {OneOf(s)} \in Small(n) /\ s \ {OneOf(s)} \in Small(n + 1)
        BY <2>3, <2>4, <3>2
      <4>2. h[s \ {OneOf(s)}] = g[s \ {OneOf(s)}]
        BY <4>1, Zenon
      <4>3. h[s] = f[OneOf(s)] + g[s \ {OneOf(s)}]
        <5>1. CASE s \in Small(n)
          BY <2>6, <3>2, <5>1, Zenon
        <5>2. CASE s \notin Small(n)
          BY <5>2, Zenon
        <5> QED
          BY <5>1, <5>2
      <4> QED
        BY <3>2, <4>2, <4>3, Zenon
    <3> QED
      BY <3>1, <3>2
  <2>8. h = [s \in Small(n + 1) |-> h[s]]
    BY Zenon
  <2> HIDE DEF h
  <2>9. Partial(h, n + 1)
    BY <2>7, <2>8, Zenon
  <2> QED
    BY <2>1, <2>9
<1>3. Nat \subseteq N
  <2> HIDE DEF N
  <2> QED
    BY <1>1, <1>2, SetInduction
<1>4. PICK g : Partial(g, Cardinality(S))
  <2>1. Cardinality(S) \in N
    BY <1>3, FS_CardinalityType
  <2> HIDE DEF Partial
  <2> QED
    BY <2>1
<1>5. Small(Cardinality(S)) = SUBSET S
  BY <1>0
<1> QED
  BY <1>4, <1>5, Zenon DEF Sums

\* What the function unfolds to.
SumStep(g, f, S) ==
  \A s \in SUBSET S : s # {} => OneOf(s) \in s /\ g[s] = f[OneOf(s)] + g[s \ {OneOf(s)}]

LEMMA SumsFacts ==
  ASSUME NEW f, NEW S, NEW g, Sums(g, f, S)
  PROVE  g[{}] = 0 /\ SumStep(g, f, S)
<1>1. \A s \in SUBSET S : g[s] = IF s = {} THEN 0 ELSE f[OneOf(s)] + g[s \ {OneOf(s)}]
  BY Zenon DEF Sums
<1>2. \A s : s # {} => OneOf(s) \in s
  BY Zenon DEF OneOf
<1>3. {} \in SUBSET S
  OBVIOUS
<1> QED
  BY <1>1, <1>2, <1>3, Zenon DEF SumStep

\* A sum of integers is one.
LEMMA SumsAreInt ==
  ASSUME NEW f, NEW S, IsFiniteSet(S), \A x \in S : f[x] \in Int, NEW g, Sums(g, f, S)
  PROVE  \A s \in SUBSET S : g[s] \in Int
<1>f. SumStep(g, f, S)
  BY SumsFacts, Zenon
<1>l. \A s \in SUBSET S : \A x \in s :
        /\ s \ {x} \in SUBSET S
        /\ Cardinality(s) \in Nat /\ Cardinality(s \ {x}) = Cardinality(s) - 1
  BY FS_Subset, OneLess
<1> DEFINE N == {n \in Nat : \A s \in SUBSET S : Cardinality(s) = n => g[s] \in Int}
<1>0. \A s \in SUBSET S : IsFiniteSet(s) /\ Cardinality(s) \in Nat
  BY FS_Subset, FS_CardinalityType
<1>1. 0 \in N
  <2>1. ASSUME NEW s \in SUBSET S, Cardinality(s) = 0 PROVE g[s] \in Int
    <3>1. s = {} /\ g[{}] = 0
      BY <1>0, <2>1, FS_EmptySet, SumsFacts
    <3> QED
      BY <3>1
  <2> QED
    BY <2>1
<1>2. ASSUME NEW n \in N PROVE n + 1 \in N
  <2>1. n \in Nat /\ n + 1 \in Nat /\ n + 1 # 0
    OBVIOUS
  <2> SUFFICES ASSUME NEW s \in SUBSET S, Cardinality(s) = n + 1 PROVE g[s] \in Int
    BY <2>1
  <2>3. s # {}
    BY <2>1, FS_EmptySet
  <2>a. \A t \in SUBSET S : Cardinality(t) = n => g[t] \in Int
    OBVIOUS
  <2> HIDE DEF N
  <2>4. OneOf(s) \in s /\ g[s] = f[OneOf(s)] + g[s \ {OneOf(s)}]
    BY <1>f, <2>3 DEF SumStep
  <2>5. s \ {OneOf(s)} \in SUBSET S /\ Cardinality(s \ {OneOf(s)}) = n
    BY <1>l, <2>1, <2>4
  <2>6. g[s \ {OneOf(s)}] \in Int
    BY <2>5, <2>a
  <2> QED
    BY <2>4, <2>6
<1>3. Nat \subseteq N
  <2> HIDE DEF N
  <2> QED
    BY <1>1, <1>2, SetInduction
<1> QED
  BY <1>0, <1>3

\* The element that is added last may be any one.
LEMMA SumsRemove ==
  ASSUME NEW f, NEW S, IsFiniteSet(S), \A x \in S : f[x] \in Int, NEW g, Sums(g, f, S)
  PROVE  \A s \in SUBSET S : \A x \in s : g[s] = f[x] + g[s \ {x}]
<1>f. SumStep(g, f, S)
  BY SumsFacts, Zenon
<1>l. \A s \in SUBSET S : \A x \in s :
        /\ s \ {x} \in SUBSET S
        /\ Cardinality(s) \in Nat /\ Cardinality(s \ {x}) = Cardinality(s) - 1
  BY FS_Subset, OneLess
<1> DEFINE Good(s) == \A x \in s : g[s] = f[x] + g[s \ {x}]
           N == {n \in Nat : \A s \in SUBSET S : Cardinality(s) = n => Good(s)}
<1>0. \A s \in SUBSET S : IsFiniteSet(s) /\ Cardinality(s) \in Nat
  BY FS_Subset, FS_CardinalityType
<1>1. 0 \in N
  <2>1. ASSUME NEW s \in SUBSET S, Cardinality(s) = 0 PROVE Good(s)
    <3>1. s = {}
      BY <1>0, <2>1, FS_EmptySet
    <3> QED
      BY <3>1
  <2> QED
    BY <2>1
<1>2. ASSUME NEW n \in N PROVE n + 1 \in N
  <2>1. n \in Nat /\ n + 1 \in Nat
    OBVIOUS
  <2>2. \A s \in SUBSET S : Cardinality(s) = n => Good(s)
    OBVIOUS
  <2> SUFFICES ASSUME NEW s \in SUBSET S, Cardinality(s) = n + 1,
                      NEW x \in s
               PROVE  g[s] = f[x] + g[s \ {x}]
    BY <2>1
  <2>3. s # {}
    OBVIOUS
  <2> HIDE DEF N
  <2>4. OneOf(s) \in s /\ g[s] = f[OneOf(s)] + g[s \ {OneOf(s)}]
    BY <1>f, <2>3 DEF SumStep
  <2>b. /\ s \ {x} \in SUBSET S /\ Cardinality(s \ {x}) = n
        /\ s \ {OneOf(s)} \in SUBSET S /\ Cardinality(s \ {OneOf(s)}) = n
    BY <1>l, <2>1, <2>4
  <2> DEFINE c == OneOf(s)
             rest == (s \ {c}) \ {x}
  <2>5. CASE x = c
    BY <2>4, <2>5
  <2>6. CASE x # c
    <3>1. x \in s \ {c} /\ c \in s \ {x} /\ (s \ {x}) \ {c} = rest
      BY <2>4, <2>6
    <3>2. /\ s \ {x} \in SUBSET S /\ Cardinality(s \ {x}) = n
          /\ s \ {c} \in SUBSET S /\ Cardinality(s \ {c}) = n
      BY <2>b
    <3>3. g[s \ {c}] = f[x] + g[rest]
      BY <2>2, <3>1, <3>2
    <3>4. g[s \ {x}] = f[c] + g[(s \ {x}) \ {c}]
      BY <2>2, <3>1, <3>2
    <3>5. g[rest] \in Int /\ f[x] \in Int /\ f[c] \in Int
      BY <2>4, SumsAreInt
    <3>6. g[s] = f[c] + g[s \ {c}]
      BY <2>4
    <3> HIDE DEF c, rest
    <3>7. g[s \ {x}] = f[c] + g[rest]
      BY <3>1, <3>4, Zenon
    <3>8. PICK v : v = g[rest]
      OBVIOUS
    <3>9. g[s \ {c}] = f[x] + v /\ g[s \ {x}] = f[c] + v /\ v \in Int
      BY <3>3, <3>5, <3>7, <3>8, Zenon
    <3> QED
      BY <3>5, <3>6, <3>9
  <2> QED
    BY <2>5, <2>6
<1>3. Nat \subseteq N
  <2> HIDE DEF N
  <2> QED
    BY <1>1, <1>2, SetInduction
<1> QED
  BY <1>0, <1>3

\* A product, one step further.
LEMMA DistributeOne ==
  ASSUME NEW d \in Int, NEW n \in Nat
  PROVE  d * (n + 1) = d * n + d /\ d * n \in Int
OBVIOUS

\* Two sums whose terms differ by d on a set differ by d for each element.
LEMMA SumsDiffer ==
  ASSUME NEW f, NEW S, NEW g, Sums(g, f, S), IsFiniteSet(S), \A x \in S : f[x] \in Int,
         NEW k, NEW T, NEW h, Sums(h, k, T), IsFiniteSet(T), \A x \in T : k[x] \in Int,
         NEW d \in Int, NEW U \in SUBSET S, U \subseteq T,
         \A x \in U : f[x] = k[x] + d
  PROVE  g[U] = h[U] + d * Cardinality(U)
<1>f. SumStep(g, f, S)
  BY SumsFacts, Zenon
<1>h. SumStep(h, k, T)
  BY SumsFacts, Zenon
<1>l. \A s \in SUBSET U : \A x \in s :
        /\ s \ {x} \in SUBSET U
        /\ Cardinality(s) \in Nat /\ Cardinality(s \ {x}) = Cardinality(s) - 1
  BY FS_Subset, OneLess
<1> DEFINE N == {n \in Nat : \A s \in SUBSET U : Cardinality(s) = n => g[s] = h[s] + d * n}
<1>0. \A s \in SUBSET U : /\ IsFiniteSet(s) /\ Cardinality(s) \in Nat
                          /\ s \in SUBSET S /\ s \in SUBSET T
  BY FS_Subset, FS_CardinalityType
<1>1. 0 \in N
  <2>1. ASSUME NEW s \in SUBSET U, Cardinality(s) = 0 PROVE g[s] = h[s] + d * 0
    <3>1. s = {}
      BY <1>0, <2>1, FS_EmptySet
    <3>2. g[{}] = 0 /\ h[{}] = 0
      BY SumsFacts, Zenon
    <3> QED
      BY <3>1, <3>2
  <2> QED
    BY <2>1
<1>2. ASSUME NEW n \in N PROVE n + 1 \in N
  <2>1. n \in Nat /\ n + 1 \in Nat /\ n + 1 # 0
    OBVIOUS
  <2> SUFFICES ASSUME NEW s \in SUBSET U, Cardinality(s) = n + 1
               PROVE  g[s] = h[s] + d * (n + 1)
    BY <2>1
  <2>2. s # {}
    BY <2>1, FS_EmptySet
  <2>a. \A t \in SUBSET U : Cardinality(t) = n => g[t] = h[t] + d * n
    OBVIOUS
  <2> HIDE DEF N
  <2>b. s \in SUBSET S /\ s \in SUBSET T /\ IsFiniteSet(U)
    BY <1>0, FS_Subset
  <2>c. OneOf(s) \in s /\ g[s] = f[OneOf(s)] + g[s \ {OneOf(s)}]
    BY <1>f, <2>2, <2>b DEF SumStep
  <2>d. h[s] = k[OneOf(s)] + h[s \ {OneOf(s)}]
    BY <1>h, <2>2, <2>b DEF SumStep
  <2>e. s \ {OneOf(s)} \in SUBSET U /\ Cardinality(s \ {OneOf(s)}) = n
    BY <1>l, <2>1, <2>c
  <2> DEFINE c == OneOf(s)
             rest == s \ {c}
  <2>3. c \in s /\ g[s] = f[c] + g[rest] /\ h[s] = k[c] + h[rest]
    BY <2>c, <2>d
  <2>4. rest \in SUBSET U /\ Cardinality(rest) = n
    BY <2>e
  <2>5. g[rest] = h[rest] + d * n
    BY <2>4, <2>a
  <2>6. h[rest] \in Int /\ k[c] \in Int /\ f[c] = k[c] + d
    BY <1>0, <2>3, <2>4, SumsAreInt
  <2> HIDE DEF c, rest
  <2>7. d * (n + 1) = d * n + d /\ d * n \in Int
    BY <2>1, DistributeOne
  <2> QED
    BY <2>3, <2>5, <2>6, <2>7
<1>3. Nat \subseteq N
  <2> HIDE DEF N
  <2> QED
    BY <1>1, <1>2, SetInduction
<1>4. Cardinality(U) \in N /\ U \in SUBSET U
  BY <1>0, <1>3
<1> QED
  BY <1>4

\* Adding an element adds its term.
LEMMA TotalAdd ==
  ASSUME NEW f, NEW S, IsFiniteSet(S), NEW x, x \notin S, \A y \in S \cup {x} : f[y] \in Int
  PROVE  /\ Total(f, S) \in Int
         /\ Total(f, S \cup {x}) = Total(f, S) + f[x]
<1> DEFINE T == S \cup {x}
<1>1. IsFiniteSet(T) /\ S \in SUBSET T /\ T \ {x} = S /\ S \in SUBSET S /\ T \in SUBSET T
  BY FS_AddElement
<1> DEFINE g == CHOOSE gg : Sums(gg, f, S)
           h == CHOOSE hh : Sums(hh, f, T)
<1>2. Sums(g, f, S)
  BY SumsExists, Zenon
<1>3. Sums(h, f, T)
  BY <1>1, SumsExists, Zenon
<1>4. Total(f, S) = g[S] /\ Total(f, T) = h[T]
  BY Zenon DEF Total
<1> HIDE DEF g, h
<1>5. g[S] \in Int
  BY <1>2, <1>1, SumsAreInt
<1>6. h[T] = f[x] + h[S]
  BY <1>1, <1>3, SumsRemove, SMTT(60)
<1>7. h[S] = g[S] + 0 * Cardinality(S)
  <2>1. \A y \in S : f[y] = f[y] + 0
    OBVIOUS
  <2> HIDE DEF T
  <2>2. \A y \in T : f[y] \in Int
    BY DEF T
  <2> QED
    BY <1>1, <1>2, <1>3, <2>1, <2>2, SumsDiffer
<1>8. Cardinality(S) \in Nat /\ f[x] \in Int
  BY FS_CardinalityType
<1> QED
  BY <1>4, <1>5, <1>6, <1>7, <1>8

\* Nothing adds up to nothing.
LEMMA TotalEmpty ==
  ASSUME NEW f PROVE Total(f, {}) = 0
<1>1. \E g : Sums(g, f, {})
  BY SumsExists, FS_EmptySet
<1>2. Sums(CHOOSE g : Sums(g, f, {}), f, {})
  BY <1>1, Zenon
<1> QED
  BY <1>2, SumsFacts DEF Total

\* A sum of integers is one.
LEMMA TotalInt ==
  ASSUME NEW f, NEW S, IsFiniteSet(S), \A x \in S : f[x] \in Int
  PROVE  Total(f, S) \in Int
<1> DEFINE g == CHOOSE gg : Sums(gg, f, S)
<1>1. Sums(g, f, S)
  BY SumsExists, Zenon
<1>2. Total(f, S) = g[S]
  BY Zenon DEF Total
<1> HIDE DEF g
<1>3. S \in SUBSET S
  OBVIOUS
<1> QED
  BY <1>1, <1>2, <1>3, SumsAreInt

\* A term that is larger by d for each element.
LEMMA TotalShift ==
  ASSUME NEW f, NEW k, NEW S, IsFiniteSet(S), NEW d \in Int,
         \A x \in S : k[x] \in Int /\ f[x] = k[x] + d
  PROVE  Total(f, S) = Total(k, S) + d * Cardinality(S)
<1> DEFINE g == CHOOSE gg : Sums(gg, f, S)
           h == CHOOSE hh : Sums(hh, k, S)
<1>1. Sums(g, f, S) /\ Sums(h, k, S)
  BY SumsExists, Zenon
<1>2. Total(f, S) = g[S] /\ Total(k, S) = h[S]
  BY Zenon DEF Total
<1> HIDE DEF g, h
<1>3. \A x \in S : f[x] \in Int
  OBVIOUS
<1> QED
  BY <1>1, <1>2, <1>3, SumsDiffer

-----------------------------------------------------------------------------
\* A queue of elements of S.
LEMMA QueueOf ==
  ASSUME NEW S, NEW q, IsQueue(q), Tasks(q) \subseteq S
  PROVE  q \in Seq(S)
<1>1. PICK T : q \in Seq(T)
  BY DEF IsQueue
<1>2. PICK n \in Nat : q \in [1..n -> T]
  BY <1>1, SeqDef
<1>3. Len(q) = n
  BY <1>1, <1>2, LenProperties
<1>4. \A i \in 1..n : q[i] \in S
  BY <1>3 DEF Tasks
<1>5. q \in [1..n -> S]
  BY <1>2, <1>4
<1> QED
  BY <1>2, <1>5, SeqDef

\* The elements of a list are the tasks of a queue.
LEMMA ToSetIsTasks ==
  ASSUME NEW q, IsQueue(q)
  PROVE  ToSet(q) = Tasks(q)
BY QueueBasics DEF ToSet, Tasks

LEMMA SubSeqFacts ==
  ASSUME NEW q, IsQueue(q), NEW m \in Nat \ {0}, NEW n \in Nat, m <= n + 1, n <= Len(q)
  PROVE  /\ IsQueue(SubSeq(q, m, n)) /\ Len(SubSeq(q, m, n)) = n - m + 1
         /\ \A j \in 1..(n - m + 1) : SubSeq(q, m, n)[j] = q[m + j - 1]
<1>1. PICK S : q \in Seq(S)
  BY DEF IsQueue
<1>2. Len(q) \in Nat /\ \A j \in m..n : j \in 1..Len(q)
  BY <1>1
<1>3. SubSeq(q, m, n) = [j \in 1..(n - m + 1) |-> q[m + j - 1]]
  OBVIOUS
<1>4. \A j \in 1..(n - m + 1) : m + j - 1 \in 1..Len(q)
  BY <1>2
<1>5. \A j \in 1..(n - m + 1) : q[m + j - 1] \in S
  BY <1>1, <1>4, ElementOfSeq
<1>6. n - m + 1 \in Nat
  OBVIOUS
<1>7. SubSeq(q, m, n) \in [1..(n - m + 1) -> S]
  BY <1>3, <1>5
<1>8. SubSeq(q, m, n) \in Seq(S)
  BY <1>6, <1>7, SeqDef
<1>9. Len(SubSeq(q, m, n)) = n - m + 1
  BY <1>6, <1>7, <1>8, LenProperties
<1> QED
  BY <1>3, <1>8, <1>9 DEF IsQueue

\* A list without its i-th element: the others move up.
LEMMA RemoveAtFacts ==
  ASSUME NEW q, IsQueue(q), NEW i \in 1..Len(q)
  PROVE  /\ IsQueue(RemoveAt(q, i)) /\ Len(RemoveAt(q, i)) = Len(q) - 1
         /\ \A j \in 1..(Len(q) - 1) : RemoveAt(q, i)[j] = IF j < i THEN q[j] ELSE q[j + 1]
<1> DEFINE n == Len(q)
           a == SubSeq(q, 1, i - 1)
           b == SubSeq(q, i + 1, n)
<1>2. n \in Nat /\ n = Len(q) /\ i \in 1..n /\ i \in Int
  BY QueueBasics
<1>3. IsQueue(a) /\ Len(a) = i - 1 /\ \A j \in 1..(i - 1) : a[j] = q[j]
  <2>1. /\ 1 \in Nat \ {0} /\ i - 1 \in Nat /\ 1 <= (i - 1) + 1 /\ i - 1 <= n
        /\ (i - 1) - 1 + 1 = i - 1 /\ \A j \in 1..(i - 1) : 1 + j - 1 = j
    BY <1>2
  <2> QED
    BY <2>1, SubSeqFacts
<1>4. IsQueue(b) /\ Len(b) = n - i /\ \A j \in 1..(n - i) : b[j] = q[i + j]
  <2>1. PICK k : k = i + 1
    OBVIOUS
  <2>2. k \in Nat \ {0} /\ n \in Nat /\ k <= n + 1 /\ n <= Len(q)
    BY <1>2, <2>1
  <2>3. /\ IsQueue(SubSeq(q, k, n)) /\ Len(SubSeq(q, k, n)) = n - k + 1
        /\ \A j \in 1..(n - k + 1) : SubSeq(q, k, n)[j] = q[k + j - 1]
    BY <2>2, SubSeqFacts
  <2>4. b = SubSeq(q, k, n)
    BY <2>1
  <2>5. n - k + 1 = n - i /\ \A j \in 1..(n - i) : k + j - 1 = i + j
    BY <1>2, <2>1
  <2> HIDE DEF a, b
  <2> QED
    BY <2>3, <2>4, <2>5
<1>5. RemoveAt(q, i) = a \o b
  BY DEF RemoveAt
<1> HIDE DEF n, a, b
<1>a. IsQueue(a) /\ IsQueue(b)
  BY <1>3, <1>4
<1>6. /\ IsQueue(a \o b) /\ Len(a \o b) = Len(a) + Len(b)
      /\ \A j \in 1..Len(a) : (a \o b)[j] = a[j]
      /\ \A j \in 1..Len(b) : (a \o b)[Len(a) + j] = b[j]
  BY <1>a, ConcatFacts
<1>7. Len(a \o b) = n - 1
  BY <1>2, <1>3, <1>4, <1>6
<1>8. ASSUME NEW j \in 1..(n - 1) PROVE (a \o b)[j] = IF j < i THEN q[j] ELSE q[j + 1]
  <2>1. CASE j < i
    <3>1. j \in 1..(i - 1)
      BY <1>2, <2>1
    <3> QED
      BY <1>3, <1>6, <2>1, <3>1
  <2>2. CASE ~(j < i)
    <3>1. j - (i - 1) \in 1..(n - i) /\ (i - 1) + (j - (i - 1)) = j /\ i + (j - (i - 1)) = j + 1
      BY <1>2, <2>2
    <3>2. (a \o b)[(i - 1) + (j - (i - 1))] = b[j - (i - 1)]
      BY <1>3, <1>4, <1>6, <3>1
    <3>3. b[j - (i - 1)] = q[i + (j - (i - 1))]
      BY <1>4, <3>1
    <3> QED
      BY <2>2, <3>1, <3>2, <3>3
  <2> QED
    BY <2>1, <2>2
<1> QED
  BY <1>5, <1>6, <1>7, <1>8 DEF n

-----------------------------------------------------------------------------
\* A list in which no two are equal.
NoTwins(s) == \A i, j \in 1..Len(s) : s[i] = s[j] => i = j

\* Without e, which is there once or not at all.
LEMMA RemoveFirstFacts ==
  ASSUME NEW s, IsQueue(s), NEW e, NoTwins(s)
  PROVE  /\ IsQueue(RemoveFirst(s, e))
         /\ NoTwins(RemoveFirst(s, e))
         /\ Tasks(RemoveFirst(s, e)) = Tasks(s) \ {e}
<1>1. CASE ~ \E i \in 1..Len(s) : s[i] = e
  <2>1. RemoveFirst(s, e) = s
    BY <1>1 DEF RemoveFirst
  <2>2. e \notin Tasks(s)
    BY <1>1 DEF Tasks
  <2> QED
    BY <2>1, <2>2
<1>2. ASSUME NEW k \in 1..Len(s), s[k] = e
      PROVE  /\ IsQueue(RemoveFirst(s, e))
             /\ NoTwins(RemoveFirst(s, e))
             /\ Tasks(RemoveFirst(s, e)) = Tasks(s) \ {e}
  <2> DEFINE n == Len(s)
             r == RemoveAt(s, k)
  <2>1. n \in Nat /\ k \in 1..n
    BY QueueBasics
  <2>2. {i \in 1..Len(s) : s[i] = e} = {k}
    BY <1>2 DEF NoTwins
  <2>3. Min({k}) = k
    <3>1. \A x \in {k} : \A y \in {k} : x <= y
      BY <2>1
    <3>2. Min({k}) \in {k}
      BY <3>1, Zenon DEF Min
    <3> QED
      BY <3>2
  <2>4. RemoveFirst(s, e) = r
    BY <1>2, <2>2, <2>3 DEF RemoveFirst, SelectInSeq
  <2>5. /\ IsQueue(r) /\ Len(r) = n - 1
        /\ \A j \in 1..(n - 1) : r[j] = IF j < k THEN s[j] ELSE s[j + 1]
    BY RemoveAtFacts
  <2> HIDE DEF r
  <2>6. ASSUME NEW i \in 1..(n - 1)
        PROVE  \E m \in 1..n : m # k /\ r[i] = s[m] /\ m = IF i < k THEN i ELSE i + 1
    BY <2>1, <2>5
  <2>7. NoTwins(r)
    <3> SUFFICES ASSUME NEW i \in 1..(n - 1), NEW j \in 1..(n - 1), r[i] = r[j] PROVE i = j
      BY <2>5 DEF NoTwins
    <3>1. PICK a \in 1..n : a # k /\ r[i] = s[a] /\ a = IF i < k THEN i ELSE i + 1
      BY <2>6
    <3>2. PICK b \in 1..n : b # k /\ r[j] = s[b] /\ b = IF j < k THEN j ELSE j + 1
      BY <2>6
    <3>3. a = b
      BY <3>1, <3>2 DEF NoTwins
    <3> QED
      BY <2>1, <3>1, <3>2, <3>3
  <2>8. Tasks(r) \subseteq Tasks(s) \ {e}
    <3> SUFFICES ASSUME NEW i \in 1..(n - 1) PROVE r[i] \in Tasks(s) \ {e}
      BY <2>5 DEF Tasks
    <3>1. PICK m \in 1..n : m # k /\ r[i] = s[m]
      BY <2>6
    <3>2. s[m] # e
      BY <1>2, <3>1 DEF NoTwins
    <3> QED
      BY <3>1, <3>2 DEF Tasks
  <2>9. Tasks(s) \ {e} \subseteq Tasks(r)
    <3> SUFFICES ASSUME NEW m \in 1..n, s[m] # e PROVE \E i \in 1..(n - 1) : r[i] = s[m]
      BY <2>5 DEF Tasks
    <3>1. CASE m < k
      BY <2>1, <2>5, <3>1
    <3>2. CASE m > k
      <4>1. m - 1 \in 1..(n - 1) /\ (m - 1) + 1 = m /\ ~(m - 1 < k)
        BY <2>1, <3>2
      <4> QED
        BY <2>5, <4>1
    <3>3. m # k
      BY <1>2
    <3> QED
      BY <2>1, <3>1, <3>2, <3>3
  <2> QED
    BY <2>4, <2>5, <2>7, <2>8, <2>9
<1> QED
  BY <1>1, <1>2

\* A list with one more, that was not there.
LEMMA AppendDistinct ==
  ASSUME NEW s, IsQueue(s), NEW e, NoTwins(s), e \notin Tasks(s)
  PROVE  NoTwins(Append(s, e))
<1> DEFINE n == Len(s)
           r == Append(s, e)
<1>1. n \in Nat /\ Len(r) = n + 1 /\ r[n + 1] = e
      /\ \A i \in 1..n : r[i] = s[i] /\ s[i] # e
  BY QueueBasics, AppendFacts DEF Tasks
<1> HIDE DEF r
<1>2. 1..(n + 1) = 1..n \cup {n + 1}
  BY <1>1
<1> QED
  BY <1>1, <1>2 DEF NoTwins, r

-----------------------------------------------------------------------------
\* A task that is posted once, and one that is posted before another.
Once(q, t) == \A i, j \in 1..Len(q) : q[i] = t /\ q[j] = t => i = j
Ahead(q, s, t) == \A i, j \in 1..Len(q) : q[i] = s /\ q[j] = t => i < j

\* The first task is taken.
LEMMA OrderTail ==
  ASSUME NEW q, IsQueue(q), q # << >>
  PROVE  /\ \A t : Once(q, t) => Once(Tail(q), t) /\ (Head(q) = t => t \notin Tasks(Tail(q)))
         /\ \A s, t : Ahead(q, s, t) =>
                Ahead(Tail(q), s, t) /\ (Head(q) = t => s \notin Tasks(q))
<1> DEFINE n == Len(q)
           r == Tail(q)
<1>1. /\ n \in Nat \ {0} /\ Len(r) = n - 1 /\ Head(q) = q[1]
      /\ \A i \in 1..(n - 1) : r[i] = q[i + 1]
  BY TailFacts
<1>2. 1 \in 1..n /\ \A i \in 1..(n - 1) : i + 1 \in 1..n /\ i + 1 # 1
  BY <1>1
<1> HIDE DEF n, r
<1>3. ASSUME NEW t, Once(q, t)
      PROVE  Once(r, t) /\ (Head(q) = t => t \notin Tasks(r))
  <2>1. ASSUME NEW i \in 1..(n - 1), NEW j \in 1..(n - 1), r[i] = t, r[j] = t PROVE i = j
    <3>1. i + 1 = j + 1
      BY <1>1, <1>2, <1>3, <2>1 DEF Once, n
    <3> QED
      BY <1>1, <3>1
  <2>2. ASSUME Head(q) = t, NEW i \in 1..(n - 1), r[i] = t PROVE FALSE
    BY <1>1, <1>2, <1>3, <2>2 DEF Once, n
  <2> QED
    BY <1>1, <2>1, <2>2 DEF Once, Tasks
<1>4. ASSUME NEW s, NEW t, Ahead(q, s, t)
      PROVE  Ahead(r, s, t) /\ (Head(q) = t => s \notin Tasks(q))
  <2>1. ASSUME NEW i \in 1..(n - 1), NEW j \in 1..(n - 1), r[i] = s, r[j] = t PROVE i < j
    <3>1. i + 1 < j + 1
      BY <1>1, <1>2, <1>4, <2>1 DEF Ahead, n
    <3> QED
      BY <1>1, <3>1
  <2>2. ASSUME Head(q) = t, NEW i \in 1..n, q[i] = s PROVE FALSE
    <3>1. i < 1
      BY <1>1, <1>2, <1>4, <2>2 DEF Ahead, n
    <3> QED
      BY <1>1, <3>1
  <2> QED
    BY <1>1, <2>1, <2>2 DEF Ahead, Tasks, n
<1> QED
  BY <1>3, <1>4 DEF r

\* Others are posted.
LEMMA OrderPost ==
  ASSUME NEW q, NEW r, IsQueue(q), IsQueue(r)
  PROVE  /\ \A t : Once(q, t) /\ Once(r, t) /\ (t \notin Tasks(q) \/ t \notin Tasks(r))
                      => Once(q \o r, t)
         /\ \A s, t : Ahead(q, s, t) /\ Ahead(r, s, t) /\ (t \notin Tasks(q) \/ s \notin Tasks(r))
                      => Ahead(q \o r, s, t)
<1> DEFINE m == Len(q)
           n == Len(r)
           c == q \o r
<1>1. /\ m \in Nat /\ n \in Nat /\ Len(c) = m + n
      /\ \A i \in 1..m : c[i] = q[i] /\ q[i] \in Tasks(q)
      /\ \A i \in 1..n : c[m + i] = r[i] /\ r[i] \in Tasks(r)
  BY QueueBasics, ConcatFacts DEF Tasks
<1>2. ASSUME NEW i \in 1..(m + n), i \notin 1..m
      PROVE  i - m \in 1..n /\ i = m + (i - m)
  BY <1>1, <1>2
<1> HIDE DEF m, n, c
<1>3. ASSUME NEW t, Once(q, t), Once(r, t), t \notin Tasks(q) \/ t \notin Tasks(r)
      PROVE  Once(c, t)
  <2> SUFFICES ASSUME NEW i \in 1..(m + n), NEW j \in 1..(m + n), c[i] = t, c[j] = t PROVE i = j
    BY <1>1 DEF Once
  <2>1. CASE i \in 1..m /\ j \in 1..m
    BY <1>1, <1>3, <2>1 DEF Once, m
  <2>2. CASE i \notin 1..m /\ j \notin 1..m
    <3>1. i - m \in 1..n /\ j - m \in 1..n /\ r[i - m] = t /\ r[j - m] = t
      BY <1>1, <1>2, <2>2
    <3>2. i - m = j - m
      BY <1>3, <3>1 DEF Once, n
    <3> QED
      BY <1>1, <1>2, <2>2, <3>2
  <2>3. CASE i \in 1..m /\ j \notin 1..m
    BY <1>1, <1>2, <1>3, <2>3
  <2>4. CASE i \notin 1..m /\ j \in 1..m
    BY <1>1, <1>2, <1>3, <2>4
  <2> QED
    BY <2>1, <2>2, <2>3, <2>4
<1>4. ASSUME NEW s, NEW t, Ahead(q, s, t), Ahead(r, s, t), t \notin Tasks(q) \/ s \notin Tasks(r)
      PROVE  Ahead(c, s, t)
  <2> SUFFICES ASSUME NEW i \in 1..(m + n), NEW j \in 1..(m + n), c[i] = s, c[j] = t PROVE i < j
    BY <1>1 DEF Ahead
  <2>1. CASE i \in 1..m /\ j \in 1..m
    BY <1>1, <1>4, <2>1 DEF Ahead, m
  <2>2. CASE i \notin 1..m /\ j \notin 1..m
    <3>1. i - m \in 1..n /\ j - m \in 1..n /\ r[i - m] = s /\ r[j - m] = t
      BY <1>1, <1>2, <2>2
    <3>2. i - m < j - m
      BY <1>4, <3>1 DEF Ahead, n
    <3> QED
      BY <1>1, <3>2
  <2>3. CASE i \in 1..m /\ j \notin 1..m
    BY <1>1, <2>3
  <2>4. CASE i \notin 1..m /\ j \in 1..m
    BY <1>1, <1>2, <1>4, <2>4
  <2> QED
    BY <2>1, <2>2, <2>3, <2>4
<1> QED
  BY <1>3, <1>4 DEF c

-----------------------------------------------------------------------------
\* How many tasks of a queue are in S.
PlacesOf(q, S) == {i \in 1..Len(q) : q[i] \in S}
HowMany(q, S) == Cardinality(PlacesOf(q, S))

\* Finitely many.
LEMMA HowManyType ==
  ASSUME NEW q, IsQueue(q), NEW S
  PROVE  HowMany(q, S) \in Nat /\ IsFiniteSet(PlacesOf(q, S))
<1>1. Len(q) \in Nat
  BY QueueBasics
<1>2. IsFiniteSet(1..Len(q))
  BY <1>1, FS_Interval
<1>3. IsFiniteSet(PlacesOf(q, S))
  BY <1>2, FS_Subset DEF PlacesOf
<1> QED
  BY <1>3, FS_CardinalityType DEF HowMany

\* One is posted, or some that are not in S.
LEMMA HowManyPost ==
  ASSUME NEW q, IsQueue(q), NEW S
  PROVE  /\ \A t : HowMany(Append(q, t), S) = HowMany(q, S) + (IF t \in S THEN 1 ELSE 0)
         /\ \A r : IsQueue(r) /\ Tasks(r) \cap S = {} => HowMany(q \o r, S) = HowMany(q, S)
<1> DEFINE n == Len(q)
<1>1. n \in Nat
  BY QueueBasics
<1>2. ASSUME NEW t PROVE HowMany(Append(q, t), S) = HowMany(q, S) + (IF t \in S THEN 1 ELSE 0)
  <2> DEFINE r == Append(q, t)
  <2>1. Len(r) = n + 1 /\ r[n + 1] = t /\ \A i \in 1..n : r[i] = q[i]
    BY AppendFacts
  <2> HIDE DEF r
  <2>2. 1..(n + 1) = 1..n \cup {n + 1} /\ n + 1 \notin 1..n
    BY <1>1
  <2>3. PlacesOf(r, S) = PlacesOf(q, S) \cup (IF t \in S THEN {n + 1} ELSE {})
    BY <2>1, <2>2 DEF PlacesOf
  <2>4. n + 1 \notin PlacesOf(q, S)
    BY <2>2 DEF PlacesOf
  <2>5. CASE t \in S
    <3>1. PlacesOf(r, S) = PlacesOf(q, S) \cup {n + 1}
      BY <2>3, <2>5
    <3>2. Cardinality(PlacesOf(q, S) \cup {n + 1}) = Cardinality(PlacesOf(q, S)) + 1
      BY <2>4, HowManyType, FS_AddElement
    <3> QED
      BY <2>5, <3>1, <3>2 DEF HowMany, r
  <2>6. CASE t \notin S
    <3>1. PlacesOf(r, S) = PlacesOf(q, S)
      BY <2>3, <2>6
    <3> QED
      BY <2>6, <3>1, HowManyType DEF HowMany, r
  <2> QED
    BY <2>5, <2>6
<1>3. ASSUME NEW r, IsQueue(r), Tasks(r) \cap S = {} PROVE HowMany(q \o r, S) = HowMany(q, S)
  <2> DEFINE m == Len(r)
             c == q \o r
  <2>1. /\ m \in Nat /\ Len(c) = n + m
        /\ \A i \in 1..n : c[i] = q[i]
        /\ \A i \in 1..m : c[n + i] = r[i] /\ r[i] \in Tasks(r)
    BY <1>3, QueueBasics, ConcatFacts DEF Tasks
  <2> HIDE DEF c, m
  <2>2. ASSUME NEW i \in 1..(n + m), i \notin 1..n PROVE i - n \in 1..m /\ i = n + (i - n)
    BY <1>1, <2>1, <2>2
  <2>3. \A i \in 1..(n + m) : c[i] \in S => i \in 1..n
    BY <1>3, <2>1, <2>2, SMTT(60)
  <2>4. 1..n \subseteq 1..(n + m)
    BY <1>1, <2>1
  <2>5. PlacesOf(c, S) = PlacesOf(q, S)
    BY <2>1, <2>3, <2>4 DEF PlacesOf
  <2> QED
    BY <2>5 DEF HowMany, c
<1> QED
  BY <1>2, <1>3

\* The first task is taken: what is left is one less when it was in S.
LEMMA HowManyTail ==
  ASSUME NEW q, IsQueue(q), q # << >>, NEW S
  PROVE  HowMany(q, S) = HowMany(Tail(q), S) + (IF Head(q) \in S THEN 1 ELSE 0)
<1> DEFINE n == Len(q)
           r == Tail(q)
           later == {i \in 2..n : q[i] \in S}
<1>1. /\ n \in Nat \ {0} /\ Len(r) = n - 1 /\ Head(q) = q[1] /\ IsQueue(r)
      /\ \A i \in 1..(n - 1) : r[i] = q[i + 1]
  BY TailFacts
<1>2. 1..n = {1} \cup 2..n /\ 1 \notin 2..n
  BY <1>1
<1>3. PlacesOf(q, S) = later \cup (IF Head(q) \in S THEN {1} ELSE {})
  BY <1>1, <1>2 DEF PlacesOf
<1>4. IsFiniteSet(later) /\ 1 \notin later
  <2>1. IsFiniteSet(2..n)
    BY <1>1, FS_Interval
  <2>2. later \subseteq 2..n
    OBVIOUS
  <2> QED
    BY <1>2, <2>1, <2>2, FS_Subset
<1> HIDE DEF r
<1>5. Cardinality(later) = HowMany(r, S)
  <2> DEFINE f == [i \in PlacesOf(r, S) |-> i + 1]
  <2>1. f \in [PlacesOf(r, S) -> later]
    <3>1. \A i \in 1..(n - 1) : i + 1 \in 2..n
      BY <1>1
    <3> QED
      BY <1>1, <3>1 DEF PlacesOf
  <2>2. \A i, j \in PlacesOf(r, S) : f[i] = f[j] => i = j
    BY <1>1 DEF PlacesOf
  <2>3. ASSUME NEW j \in later PROVE \E i \in PlacesOf(r, S) : f[i] = j
    <3>1. j - 1 \in 1..(n - 1) /\ (j - 1) + 1 = j
      BY <1>1
    <3>2. j - 1 \in PlacesOf(r, S)
      BY <1>1, <3>1 DEF PlacesOf
    <3> QED
      BY <3>1, <3>2
  <2>4. IsFiniteSet(PlacesOf(r, S))
    BY <1>1, HowManyType
  <2> HIDE DEF f, later
  <2>5. f \in Bijection(PlacesOf(r, S), later)
    BY <2>1, <2>2, <2>3 DEF Bijection, Injection, Surjection, IsInjective
  <2>6. ExistsBijection(PlacesOf(r, S), later)
    BY <2>5 DEF ExistsBijection
  <2> QED
    BY <2>4, <2>6, FS_Bijection DEF HowMany
<1>6. CASE Head(q) \in S
  <2>1. PlacesOf(q, S) = later \cup {1}
    BY <1>3, <1>6
  <2>2. Cardinality(later \cup {1}) = Cardinality(later) + 1
    BY <1>4, FS_AddElement
  <2> QED
    BY <1>5, <1>6, <2>1, <2>2 DEF HowMany, r
<1>7. CASE Head(q) \notin S
  <2>1. PlacesOf(q, S) = later
    BY <1>3, <1>7
  <2>2. HowMany(r, S) \in Nat
    BY <1>1, HowManyType
  <2> QED
    BY <1>5, <1>7, <2>1, <2>2 DEF HowMany, r
<1> QED
  BY <1>6, <1>7

\* A queue made of a finite set has each of its tasks once.
LEMMA SetToSeqOnce ==
  ASSUME NEW S, IsFiniteSet(S)
  PROVE  \A t : Once(SetToSeq(S), t)
<1> DEFINE n == Cardinality(S)
<1>1. n \in Nat /\ ExistsBijection(1..n, S)
  BY FS_CardinalityType
<1>2. \E f \in [1..n -> S] : IsInjective(f)
  BY <1>1 DEF ExistsBijection, Bijection, Injection
<1>3. SetToSeq(S) \in [1..n -> S] /\ IsInjective(SetToSeq(S))
  BY <1>2 DEF SetToSeq
<1>4. SetToSeq(S) \in Seq(S)
  BY <1>1, <1>3, SeqDef
<1>5. Len(SetToSeq(S)) = n
  BY <1>1, <1>3, <1>4, LenProperties
<1> QED
  BY <1>3, <1>5 DEF Once, IsInjective

-----------------------------------------------------------------------------
(* Lists one after the other.                                              *)

\* Where parts of the lengths l[1], ..., l[n] lie when they follow each other:
\* part k after the first off[k].
Ends(off, l, n) ==
  /\ off \in [1..(n + 1) -> Nat] /\ off[1] = 0
  /\ \A k \in 1..n : off[k + 1] = off[k] + l[k]

\* Parts of any lengths lie somewhere.
LEMMA EndsExist ==
  ASSUME NEW n \in Nat, NEW l \in [1..n -> Nat]
  PROVE  \E off : Ends(off, l, n)
<1> DEFINE S == {m \in Nat : m <= n => \E off : Ends(off, l, m)}
<1>1. 0 \in S
  <2>1. Ends([k \in 1..1 |-> 0], l, 0)
    BY DEF Ends
  <2> QED
    BY <2>1
<1>2. ASSUME NEW m \in S PROVE m + 1 \in S
  <2> SUFFICES ASSUME m + 1 <= n PROVE \E off : Ends(off, l, m + 1)
    OBVIOUS
  <2>1. PICK off : Ends(off, l, m)
    OBVIOUS
  <2> DEFINE new == [k \in 1..((m + 1) + 1) |-> IF k = m + 2 THEN off[m + 1] + l[m + 1] ELSE off[k]]
  <2>2. m \in Nat /\ l[m + 1] \in Nat /\ off[m + 1] \in Nat
    BY <2>1 DEF Ends
  <2>3. new \in [1..((m + 1) + 1) -> Nat] /\ new[1] = 0
    BY <2>1, <2>2 DEF Ends
  <2>4. ASSUME NEW k \in 1..(m + 1) PROVE new[k + 1] = new[k] + l[k]
    <3>1. CASE k = m + 1
      BY <2>2, <3>1
    <3>2. CASE k # m + 1
      <4>1. k \in 1..m /\ k + 1 # m + 2 /\ k # m + 2
        BY <2>2, <3>2
      <4>2. off[k + 1] = off[k] + l[k]
        BY <2>1, <4>1 DEF Ends
      <4> QED
        BY <2>2, <4>1, <4>2
    <3> QED
      BY <3>1, <3>2
  <2>5. Ends(new, l, m + 1)
    <3> HIDE DEF new
    <3> QED
      BY <2>3, <2>4 DEF Ends
  <2> QED
    BY <2>5
<1>3. Nat \subseteq S
  <2> HIDE DEF S
  <2> QED
    BY <1>1, <1>2, SetInduction
<1> QED
  BY <1>3

\* The parts follow each other.
LEMMA EndsGrow ==
  ASSUME NEW n \in Nat, NEW l \in [1..n -> Nat], NEW off, Ends(off, l, n)
  PROVE  \A i, j \in 1..(n + 1) : i <= j => off[i] <= off[j]
<1> SUFFICES ASSUME NEW i \in 1..(n + 1)
             PROVE  \A j \in 1..(n + 1) : i <= j => off[i] <= off[j]
  OBVIOUS
<1> DEFINE S == {m \in Nat : i + m <= n + 1 => off[i] <= off[i + m]}
<1>0. off \in [1..(n + 1) -> Nat] /\ \A k \in 1..n : off[k + 1] = off[k] + l[k]
  BY DEF Ends
<1>1. 0 \in S
  BY <1>0
<1>2. ASSUME NEW m \in S PROVE m + 1 \in S
  <2> SUFFICES ASSUME i + (m + 1) <= n + 1 PROVE off[i] <= off[i + (m + 1)]
    OBVIOUS
  <2>1. i + m \in 1..n /\ i + (m + 1) = (i + m) + 1
    OBVIOUS
  <2>2. off[i] \in Nat /\ off[i + m] \in Nat /\ l[i + m] \in Nat
    BY <1>0, <2>1
  <2>3. off[(i + m) + 1] = off[i + m] + l[i + m]
    BY <1>0, <2>1
  <2>4. off[i] <= off[i + m]
    BY <2>1
  <2> QED
    BY <2>1, <2>2, <2>3, <2>4
<1>3. Nat \subseteq S
  <2> HIDE DEF S
  <2> QED
    BY <1>1, <1>2, SetInduction
<1>4. ASSUME NEW j \in 1..(n + 1), i <= j PROVE off[i] <= off[j]
  <2>1. j - i \in Nat /\ i + (j - i) = j
    BY <1>4
  <2>2. j - i \in S
    BY <1>3, <2>1
  <2> QED
    BY <2>1, <2>2
<1> QED
  BY <1>4

\* Every place is in one part.
LEMMA EndsPlace ==
  ASSUME NEW n \in Nat, NEW l \in [1..n -> Nat], NEW off, Ends(off, l, n)
  PROVE  /\ \A p \in 1..off[n + 1] : \E k \in 1..n : p - off[k] \in 1..l[k]
         /\ \A i, j \in 1..n : \A p \in Int :
               p - off[i] \in 1..l[i] /\ p - off[j] \in 1..l[j] => i = j
<1>0. /\ off \in [1..(n + 1) -> Nat] /\ off[1] = 0
      /\ \A k \in 1..n : off[k + 1] = off[k] + l[k]
  BY DEF Ends
<1>1. ASSUME NEW p \in 1..off[n + 1] PROVE \E k \in 1..n : p - off[k] \in 1..l[k]
  <2> DEFINE s == {k \in 1..(n + 1) : off[k] < p}
  <2>1. 1 \in s /\ off[n + 1] \in Nat
    BY <1>0
  <2>2. s \in SUBSET (1..(n + 1)) /\ s # {} /\ 1 \in Int /\ n + 1 \in Int
    BY <2>1
  <2> DEFINE k == Max(s)
  <2>3. k \in s /\ \A y \in s : k >= y
    <3> HIDE DEF s
    <3> QED
      BY <2>2, Extremes
  <2> HIDE DEF k
  <2>4. k \in 1..n
    BY <2>1, <2>3
  <2>5. k + 1 \notin s
    BY <2>3, <2>4
  <2>6. off[k] < p /\ ~(off[k + 1] < p) /\ off[k] \in Nat /\ off[k + 1] \in Nat /\ l[k] \in Nat
    BY <1>0, <2>3, <2>4, <2>5
  <2>7. off[k + 1] = off[k] + l[k]
    BY <1>0, <2>4
  <2>8. p - off[k] \in 1..l[k]
    BY <2>6, <2>7, SMTT(60)
  <2> QED
    BY <2>4, <2>8
<1>2. ASSUME NEW i \in 1..n, NEW j \in 1..n, NEW p \in Int, i < j,
             p - off[i] \in 1..l[i], p - off[j] \in 1..l[j]
      PROVE  FALSE
  <2>1. off[i + 1] <= off[j]
    <3>1. i + 1 \in 1..(n + 1) /\ j \in 1..(n + 1) /\ i + 1 <= j
      BY <1>2
    <3> QED
      BY <3>1, EndsGrow
  <2>2. off[i + 1] = off[i] + l[i] /\ off[i] \in Nat /\ off[j] \in Nat /\ l[i] \in Nat /\ l[j] \in Nat
    BY <1>0, SMTT(60)
  <2> QED
    BY <1>2, <2>1, <2>2, SMTT(60)
<1>3. ASSUME NEW i \in 1..n, NEW j \in 1..n, NEW p \in Int,
             p - off[i] \in 1..l[i], p - off[j] \in 1..l[j]
      PROVE  i = j
  <2>1. i < j \/ j < i \/ i = j
    OBVIOUS
  <2> QED
    BY <1>2, <1>3, <2>1
<1> QED
  BY <1>1, <1>3

-----------------------------------------------------------------------------
\* Lists one after the other: part k of the list is list k.
Lengths(s) == [k \in 1..Len(s) |-> Len(s[k])]

\* What a flattened list has: the elements of part k after those before it.
LEMMA FlattenFacts ==
  ASSUME NEW s, IsQueue(s), \A k \in 1..Len(s) : IsQueue(s[k]),
         NEW off, Ends(off, Lengths(s), Len(s))
  PROVE  /\ IsQueue(FlattenSeq(s)) /\ Len(FlattenSeq(s)) = off[Len(s) + 1]
         /\ \A k \in 1..Len(s) : \A j \in 1..Len(s[k]) : FlattenSeq(s)[off[k] + j] = s[k][j]
<1> DEFINE n == Len(s)
           Step(g, i) == IF i = 1 THEN s[i] ELSE g[i - 1] \o s[i]
           Flat(g, m) == g = [i \in 1..m |-> Step(g, i)]
<1>1. n \in Nat /\ \A k \in 1..n : Len(s[k]) \in Nat
  BY QueueBasics
<1>2. /\ off \in [1..(n + 1) -> Nat] /\ off[1] = 0
      /\ \A k \in 1..n : off[k + 1] = off[k] + Len(s[k])
  BY DEF Ends, Lengths
<1>3. CASE n = 0
  <2>1. FlattenSeq(s) = s
    BY <1>3 DEF FlattenSeq
  <2> QED
    BY <1>2, <1>3, <2>1
<1>4. CASE n # 0
  <2> DEFINE E == {m \in Nat : \E g : Flat(g, m)}
  <2>1. 0 \in E
    <3>1. 1..0 = {}
      OBVIOUS
    <3>2. \A g : [i \in 1..0 |-> Step(g, i)] = [i \in 1..0 |-> 0]
      BY <3>1, Zenon
    <3>3. Flat([i \in 1..0 |-> 0], 0)
      BY <3>2, Zenon
    <3> HIDE DEF Flat
    <3> QED
      BY <3>3
  <2>2. ASSUME NEW m \in E PROVE m + 1 \in E
    <3>1. m \in Nat
      OBVIOUS
    <3>2. PICK g : Flat(g, m)
      OBVIOUS
    <3> DEFINE new == [i \in 1..(m + 1) |-> Step(g, i)]
    <3>3. ASSUME NEW i \in 1..(m + 1) PROVE Step(new, i) = Step(g, i)
      <4>1. CASE i = 1
        BY <4>1
      <4>2. CASE i # 1
        <5>1. i - 1 \in 1..m /\ i - 1 \in 1..(m + 1)
          BY <3>1, <4>2
        <5>2. new[i - 1] = Step(g, i - 1)
          BY <5>1
        <5>3. g[i - 1] = Step(g, i - 1)
          <6> HIDE DEF Step
          <6> QED
            BY <3>2, <5>1
        <5>4. new[i - 1] = g[i - 1]
          BY <5>2, <5>3
        <5> HIDE DEF new
        <5> QED
          BY <4>2, <5>4
      <4> QED
        BY <4>1, <4>2
    <3>4. Flat(new, m + 1)
      <4>1. [i \in 1..(m + 1) |-> Step(new, i)] = [i \in 1..(m + 1) |-> Step(g, i)]
        <5> HIDE DEF new, Step
        <5> QED
          BY <3>3
      <4> HIDE DEF Step
      <4> QED
        BY <4>1
    <3> HIDE DEF new, Flat
    <3> QED
      BY <3>1, <3>4
  <2>3. Nat \subseteq E
    <3> HIDE DEF E
    <3> QED
      BY <2>1, <2>2, SetInduction
  <2>4. \E g : Flat(g, n)
    BY <1>1, <2>3
  <2>5. FlattenSeq(s) = (CHOOSE g : Flat(g, n))[n]
    BY <1>4 DEF FlattenSeq
  <2> HIDE DEF Flat
  <2>6. PICK g : g = CHOOSE h : Flat(h, n)
    OBVIOUS
  <2>7. Flat(g, n)
    BY <2>4, <2>6
  <2>8. FlattenSeq(s) = g[n]
    BY <2>5, <2>6
  <2> USE DEF Flat
  <2>9. \A i \in 1..n : g[i] = Step(g, i)
    <3> HIDE DEF Step
    <3> QED
      BY <2>7
  <2> HIDE DEF Flat
  <2> DEFINE Good(i) == /\ IsQueue(g[i]) /\ Len(g[i]) = off[i + 1]
                        /\ \A k \in 1..i : \A j \in 1..Len(s[k]) : g[i][off[k] + j] = s[k][j]
             G == {m \in Nat : m + 1 <= n => Good(m + 1)}
  <2>10. 0 \in G
    <3>1. 1 \in 1..n /\ g[1] = s[1]
      BY <1>1, <1>4, <2>9
    <3>2. IsQueue(s[1]) /\ Len(s[1]) \in Nat /\ Len(s[1]) = off[1 + 1]
      BY <1>1, <1>2, <3>1
    <3>3. \A k \in 1..1 : k = 1
      OBVIOUS
    <3>4. \A j \in 1..Len(s[1]) : g[1][off[1] + j] = s[1][j]
      BY <1>2, <3>1, <3>2
    <3>5. Good(1)
      BY <3>1, <3>2, <3>3, <3>4
    <3>6. 0 + 1 = 1
      OBVIOUS
    <3> HIDE DEF Good
    <3> QED
      BY <3>5, <3>6
  <2>11. ASSUME NEW m \in G PROVE m + 1 \in G
    <3>1. m \in Nat /\ m + 1 \in Nat
      OBVIOUS
    <3> SUFFICES ASSUME (m + 1) + 1 <= n PROVE Good((m + 1) + 1)
      BY <3>1
    <3>2. Good(m + 1)
      BY <1>1, <3>1
    <3> DEFINE i == m + 1
               a == g[i]
               b == s[i + 1]
    <3>3. i \in 1..n /\ i + 1 \in 1..n /\ i \in Nat /\ (i + 1) - 1 = i /\ i + 1 # 1
      BY <1>1, <3>1
    <3>4. g[i + 1] = a \o b
      <4>1. g[i + 1] = Step(g, i + 1)
        BY <2>9, <3>3
      <4> QED
        BY <3>3, <4>1
    <3>5. /\ IsQueue(a) /\ Len(a) = off[i + 1] /\ IsQueue(b) /\ Len(b) \in Nat
          /\ \A k \in 1..i : \A j \in 1..Len(s[k]) : a[off[k] + j] = s[k][j]
      BY <1>1, <3>2, <3>3
    <3>6. off[(i + 1) + 1] = off[i + 1] + Len(b) /\ off[i + 1] \in Nat
      BY <1>2, <3>3
    <3> HIDE DEF a, b, i, Good
    <3>7. /\ IsQueue(a \o b) /\ Len(a \o b) = Len(a) + Len(b)
          /\ \A j \in 1..Len(a) : (a \o b)[j] = a[j]
          /\ \A j \in 1..Len(b) : (a \o b)[Len(a) + j] = b[j]
      BY <3>5, ConcatFacts, SMTT(60)
    <3>8. ASSUME NEW k \in 1..i, NEW j \in 1..Len(s[k]) PROVE (a \o b)[off[k] + j] = s[k][j]
      <4>1. k \in 1..n /\ k + 1 \in 1..(n + 1) /\ i + 1 \in 1..(n + 1) /\ k + 1 <= i + 1
        BY <1>1, <3>3
      <4>2. Lengths(s) \in [1..n -> Nat]
        BY <1>1 DEF Lengths
      <4>3. off[k + 1] <= off[i + 1]
        BY <1>1, <4>1, <4>2, EndsGrow
      <4>4. off[k + 1] = off[k] + Len(s[k]) /\ Len(s[k]) \in Nat
        BY <1>1, <1>2, <4>1
      <4>6. off[k] \in Nat /\ off[i + 1] \in Nat
        <5>1. k \in 1..(n + 1)
          BY <1>1, <4>1
        <5> QED
          BY <1>2, <4>1, <5>1
      <4>5. off[k] + j \in 1..Len(a)
        <5>1. PICK o \in Nat, l \in Nat, e \in Nat : o = off[k] /\ l = Len(s[k]) /\ e = off[i + 1]
          BY <4>4, <4>6, Zenon
        <5>2. j \in 1..l /\ o + l <= e
          BY <4>3, <4>4, <5>1
        <5>3. o + j \in 1..e
          BY <5>2
        <5> QED
          BY <3>5, <5>1, <5>3
      <4> QED
        BY <3>5, <3>7, <4>5
    <3>9. \A j \in 1..Len(s[i + 1]) : (a \o b)[off[i + 1] + j] = s[i + 1][j]
      BY <3>5, <3>7 DEF b
    <3>10. \A k \in 1..(i + 1) : k \in 1..i \/ k = i + 1
      BY <3>3
    <3>11. \A k \in 1..(i + 1) : \A j \in 1..Len(s[k]) : (a \o b)[off[k] + j] = s[k][j]
      BY <3>8, <3>9, <3>10
    <3>12. Len(a \o b) = off[(i + 1) + 1]
      BY <3>5, <3>6, <3>7
    <3>13. Good(i + 1)
      <4>1. IsQueue(g[i + 1]) /\ Len(g[i + 1]) = off[(i + 1) + 1]
        BY <3>4, <3>7, <3>12
      <4>2. \A k \in 1..(i + 1) : \A j \in 1..Len(s[k]) : g[i + 1][off[k] + j] = s[k][j]
        BY <3>4, <3>11, Zenon
      <4> QED
        BY <4>1, <4>2, Zenon DEF Good
    <3> QED
      BY <3>13 DEF i
  <2>12. Nat \subseteq G
    <3> HIDE DEF G
    <3> QED
      BY <2>10, <2>11, SetInduction
  <2>13. n - 1 \in Nat /\ (n - 1) + 1 = n
    BY <1>1, <1>4
  <2>14. Good(n)
    <3>1. n - 1 \in G
      BY <2>12, <2>13
    <3> HIDE DEF Good
    <3> QED
      BY <2>13, <3>1
  <2> QED
    BY <2>8, <2>14
<1> QED
  BY <1>3, <1>4

\* What is in them.
LEMMA FlattenTasks ==
  ASSUME NEW s, IsQueue(s), \A k \in 1..Len(s) : IsQueue(s[k])
  PROVE  /\ IsQueue(FlattenSeq(s))
         /\ Tasks(FlattenSeq(s)) = UNION {Tasks(s[k]) : k \in 1..Len(s)}
<1> DEFINE n == Len(s)
           l == Lengths(s)
           f == FlattenSeq(s)
<1>1. n \in Nat /\ l \in [1..n -> Nat] /\ \A k \in 1..n : l[k] = Len(s[k]) /\ l[k] \in Nat
  BY QueueBasics DEF Lengths
<1>2. PICK off : Ends(off, l, n)
  <2> HIDE DEF l, n
  <2> QED
    BY <1>1, EndsExist
<1>3. /\ IsQueue(f) /\ Len(f) = off[n + 1]
      /\ \A k \in 1..n : \A j \in 1..Len(s[k]) : f[off[k] + j] = s[k][j]
  BY <1>2, FlattenFacts
<1>4. /\ off \in [1..(n + 1) -> Nat]
      /\ \A k \in 1..n : off[k + 1] = off[k] + l[k]
  BY <1>2 DEF Ends
<1> HIDE DEF f, n, l
<1>5. \A p \in 1..off[n + 1] : \E k \in 1..n : p - off[k] \in 1..l[k]
  BY <1>1, <1>2, EndsPlace
<1>6. ASSUME NEW p \in 1..Len(f) PROVE \E k \in 1..n : f[p] \in Tasks(s[k])
  <2>1. PICK k \in 1..n : p - off[k] \in 1..l[k]
    BY <1>3, <1>5
  <2>2. off[k] \in Nat /\ p \in Int /\ off[k] + (p - off[k]) = p
    BY <1>1, <1>3, <1>4, <2>1
  <2>3. f[off[k] + (p - off[k])] = s[k][p - off[k]]
    BY <1>1, <1>3, <2>1
  <2> QED
    BY <1>1, <2>1, <2>2, <2>3 DEF Tasks
<1>7. ASSUME NEW k \in 1..n, NEW j \in 1..Len(s[k]) PROVE s[k][j] \in Tasks(f)
  <2>1. off[k + 1] <= off[n + 1]
    <3>1. k + 1 \in 1..(n + 1) /\ n + 1 \in 1..(n + 1) /\ k + 1 <= n + 1
      BY <1>1
    <3> QED
      BY <1>1, <1>2, <3>1, EndsGrow
  <2>2. /\ off[k + 1] = off[k] + Len(s[k]) /\ off[k] \in Nat /\ Len(s[k]) \in Nat
        /\ off[n + 1] \in Nat
    BY <1>1, <1>4, SMTT(60)
  <2>3. off[k] + j \in 1..Len(f)
    BY <1>3, <2>1, <2>2
  <2>4. f[off[k] + j] = s[k][j]
    BY <1>3
  <2> QED
    BY <2>3, <2>4 DEF Tasks
<1>8. Tasks(f) \subseteq UNION {Tasks(s[k]) : k \in 1..n}
  <2>1. ASSUME NEW x \in Tasks(f) PROVE \E k \in 1..n : x \in Tasks(s[k])
    <3>1. PICK p \in 1..Len(f) : x = f[p]
      BY Zenon DEF Tasks
    <3> QED
      BY <1>6, <3>1, Zenon
  <2> QED
    BY <2>1, Zenon
<1>9. UNION {Tasks(s[k]) : k \in 1..n} \subseteq Tasks(f)
  <2> SUFFICES ASSUME NEW k \in 1..n, NEW x \in Tasks(s[k]) PROVE x \in Tasks(f)
    OBVIOUS
  <2> QED
    BY <1>7 DEF Tasks
<1> QED
  BY <1>3, <1>8, <1>9 DEF f, n

\* Lists of a kind.
LEMMA FlattenType ==
  ASSUME NEW S, NEW s, IsQueue(s), \A k \in 1..Len(s) : s[k] \in Seq(S)
  PROVE  FlattenSeq(s) \in Seq(S)
<1>1. \A k \in 1..Len(s) : IsQueue(s[k])
  BY DEF IsQueue
<1>2. \A k \in 1..Len(s) : Tasks(s[k]) \subseteq S
  BY ElementOfSeq DEF Tasks
<1> QED
  BY <1>1, <1>2, FlattenTasks, QueueOf

\* Lists of the same length and elements are the same.
LEMMA QueueEqual ==
  ASSUME NEW q, NEW r, IsQueue(q), IsQueue(r), Len(q) = Len(r),
         \A i \in 1..Len(q) : q[i] = r[i]
  PROVE  q = r
<1>1. PICK S : q \in Seq(S)
  BY DEF IsQueue
<1>2. PICK T : r \in Seq(T)
  BY DEF IsQueue
<1>3. q \in Seq(S \cup T) /\ r \in Seq(S \cup T)
  BY <1>1, <1>2, SeqMonotonic
<1> QED
  BY <1>3, SeqEqual

\* A function on 1..n is a list.
LEMMA FunctionQueue ==
  ASSUME NEW n \in Nat, NEW f, f = [i \in 1..n |-> f[i]]
  PROVE  IsQueue(f) /\ Len(f) = n
<1> DEFINE S == {f[i] : i \in 1..n}
<1>1. f \in [1..n -> S]
  OBVIOUS
<1>2. f \in Seq(S)
  BY <1>1, SeqDef
<1>3. Len(f) \in Nat /\ DOMAIN f = 1..Len(f)
  BY <1>2
<1>4. DOMAIN f = 1..n
  BY <1>1
<1>5. Len(f) = n
  <2>1. \A x \in Int : x \in 1..n <=> x \in 1..Len(f)
    BY <1>3, <1>4
  <2>2. Len(f) \in 1..n \/ Len(f) = 0
    BY <1>3, <2>1
  <2>3. n \in 1..Len(f) \/ n = 0
    BY <2>1
  <2> QED
    BY <1>3, <2>2, <2>3
<1> QED
  BY <1>2, <1>5 DEF IsQueue

\* A list in increasing order is known by its elements.
Increasing(q) == /\ IsQueue(q) /\ \A i \in 1..Len(q) : q[i] \in Int
                 /\ \A i, j \in 1..Len(q) : i < j => q[i] < q[j]

\* Of two increasing lists of the same elements, each place of one is a place
\* of the other.
LEMMA IncreasingWithin ==
  ASSUME NEW q, NEW r, Increasing(q), Increasing(r), Tasks(q) = Tasks(r)
  PROVE  \A k \in 1..Len(q) : k \in 1..Len(r) /\ q[k] = r[k]
<1> DEFINE bad == {k \in 1..Len(q) : ~(k \in 1..Len(r) /\ q[k] = r[k])}
<1>1. Len(q) \in Nat /\ Len(r) \in Nat
  BY QueueBasics DEF Increasing
<1> SUFFICES ASSUME bad # {} PROVE FALSE
  OBVIOUS
<1>2. bad \in SUBSET Nat
  BY <1>1
<1>3. PICK k \in bad : \A j \in bad : k <= j
  <2> HIDE DEF bad
  <2> QED
    BY <1>2, LeastNatural
<1>4. k \in 1..Len(q) /\ \A j \in 1..Len(q) : j < k => j \in 1..Len(r) /\ q[j] = r[j]
  BY <1>1, <1>3
<1>5. PICK m \in 1..Len(r) : q[k] = r[m]
  BY <1>4 DEF Tasks
<1>6. k <= m
  <2> SUFFICES ASSUME m < k PROVE FALSE
    BY <1>1, <1>4
  <2>1. m \in 1..Len(q) /\ q[m] = r[m] /\ q[m] < q[k]
    BY <1>1, <1>4 DEF Increasing
  <2> QED
    BY <1>4, <1>5, <2>1 DEF Increasing
<1>7. k \in 1..Len(r)
  BY <1>1, <1>4, <1>6
<1>8. PICK p \in 1..Len(q) : r[k] = q[p]
  BY <1>7 DEF Tasks
<1>9. k <= p
  <2> SUFFICES ASSUME p < k PROVE FALSE
    BY <1>1, <1>4
  <2>1. p \in 1..Len(r) /\ q[p] = r[p] /\ r[p] < r[k]
    BY <1>4, <1>7 DEF Increasing
  <2> QED
    BY <1>7, <1>8, <2>1 DEF Increasing
<1>10. r[k] <= r[m] /\ q[k] <= q[p]
  <2>1. k = m \/ k < m
    BY <1>1, <1>4, <1>6
  <2>2. k = p \/ k < p
    BY <1>1, <1>4, <1>9
  <2> QED
    BY <1>4, <1>7, <2>1, <2>2, SMTT(60) DEF Increasing
<1>11. q[k] = r[k]
  BY <1>4, <1>5, <1>7, <1>8, <1>10 DEF Increasing
<1> QED
  BY <1>3, <1>7, <1>11

\* Increasing lists of the same elements are the same.
LEMMA IncreasingEqual ==
  ASSUME NEW q, NEW r, Increasing(q), Increasing(r), Tasks(q) = Tasks(r)
  PROVE  q = r
<1>1. \A k \in 1..Len(q) : k \in 1..Len(r) /\ q[k] = r[k]
  BY IncreasingWithin
<1>2. \A k \in 1..Len(r) : k \in 1..Len(q) /\ q[k] = r[k]
  BY IncreasingWithin
<1>3. Len(q) \in Nat /\ Len(r) \in Nat
  BY QueueBasics DEF Increasing
<1>4. Len(q) = Len(r)
  <2>1. Len(q) = 0 \/ Len(q) \in 1..Len(q)
    BY <1>3
  <2>2. Len(r) = 0 \/ Len(r) \in 1..Len(r)
    BY <1>3
  <2>3. Len(q) <= Len(r)
    BY <1>1, <1>3, <2>1
  <2>4. Len(r) <= Len(q)
    BY <1>2, <1>3, <2>2
  <2> QED
    BY <1>3, <2>3, <2>4
<1> QED
  BY <1>1, <1>4, QueueEqual DEF Increasing

-----------------------------------------------------------------------------

\* q is a and then b; a, then b, then c.
TwoParts(q, a, b) ==
  /\ IsQueue(q) /\ Len(q) = Len(a) + Len(b) /\ Len(a) \in Nat /\ Len(b) \in Nat
  /\ \A i \in 1..Len(a) : q[i] = a[i]
  /\ \A i \in 1..Len(b) : q[Len(a) + i] = b[i]

ThreeParts(q, a, b, c) ==
  /\ IsQueue(q) /\ Len(q) = Len(a) + Len(b) + Len(c)
  /\ Len(a) \in Nat /\ Len(b) \in Nat /\ Len(c) \in Nat
  /\ \A i \in 1..Len(a) : q[i] = a[i]
  /\ \A i \in 1..Len(b) : q[Len(a) + i] = b[i]
  /\ \A i \in 1..Len(c) : q[Len(a) + Len(b) + i] = c[i]

\* Two lists, one after the other.
LEMMA ConcatTwo ==
  ASSUME NEW a, NEW b, IsQueue(a), IsQueue(b)
  PROVE  TwoParts(a \o b, a, b)
BY ConcatFacts, QueueBasics DEF TwoParts

\* Three lists, one after the other.
LEMMA ConcatThree ==
  ASSUME NEW a, NEW b, NEW c, IsQueue(a), IsQueue(b), IsQueue(c)
  PROVE  ThreeParts(a \o b \o c, a, b, c)
<1>1. PICK h : h = a \o b
  OBVIOUS
<1>2. PICK q : q = h \o c
  OBVIOUS
<1>3. TwoParts(h, a, b)
  BY <1>1, ConcatTwo, Zenon
<1>4. TwoParts(q, h, c)
  <2>1. IsQueue(h)
    BY <1>3 DEF TwoParts
  <2> QED
    BY <1>2, <2>1, ConcatTwo, Zenon
<1>5. ASSUME NEW i \in 1..Len(a) PROVE q[i] = a[i]
  <2>1. i \in 1..Len(h)
    BY <1>3 DEF TwoParts
  <2> QED
    BY <1>3, <1>4, <2>1 DEF TwoParts
<1>6. ASSUME NEW i \in 1..Len(b) PROVE q[Len(a) + i] = b[i]
  <2>1. Len(a) + i \in 1..Len(h)
    BY <1>3 DEF TwoParts
  <2> QED
    BY <1>3, <1>4, <2>1 DEF TwoParts
<1>7. ThreeParts(q, a, b, c)
  BY <1>3, <1>4, <1>5, <1>6 DEF TwoParts, ThreeParts
<1> QED
  BY <1>1, <1>2, <1>7, Zenon
=============================================================================
