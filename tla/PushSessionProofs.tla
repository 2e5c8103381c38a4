------------------------- MODULE PushSessionProofs -------------------------
(***************************************************************************)
(* For any number of devices, previews, pushes, clicks and failures, all   *)
(* the safety properties of the module. The argument has five invariants:  *)
(* SessionInv follows a pusher from its Start over the sink it makes to    *)
(* the tasks of the worker and network threads; UserInv follows what the   *)
(* user does to devices, previews and pushes into the lists of consumers;  *)
(* OfferInv follows the offer of a push until its reply; EndInv follows    *)
(* the end of a push to the last task of the network thread; FrameInv      *)
(* counts the pictures.                                                    *)
(***************************************************************************)
EXTENDS PushSession, QueueLemmas

Gone(p) == life[p] \in {"dying", "dead"}

LifeOK == life \in [Objects -> {"none", "alive", "dying", "dead"}]

-----------------------------------------------------------------------------
(* The start of a push is the first task of the api thread, of a pusher    *)
(* that lives.                                                             *)

IsStart(task) == task[1] = "Start" /\ task[2] \in Pushers
NoStarts(q) == \A task \in Tasks(q) : ~IsStart(task)
StartsFirst(q) == \A i \in 1..Len(q) : IsStart(q[i]) => i = 1

StartInv ==
  /\ IsQueue(apiQueue)
  /\ StartsFirst(apiQueue)
  /\ \A task \in Tasks(apiQueue) : IsStart(task) => Alive(task[2])

\* Once the first task is taken no start is left.
LEMMA StartTaken ==
  ASSUME StartInv, apiQueue # << >>
  PROVE  IsQueue(Tail(apiQueue)) /\ NoStarts(Tail(apiQueue))
<1> DEFINE q == apiQueue
<1>1. /\ IsQueue(Tail(q)) /\ Len(q) \in Nat \ {0} /\ Len(Tail(q)) = Len(q) - 1
      /\ \A i \in 1..(Len(q) - 1) : Tail(q)[i] = q[i + 1]
  BY TailFacts DEF StartInv
<1>2. \A i \in 1..(Len(q) - 1) : i + 1 \in 1..Len(q) /\ i + 1 # 1
  BY <1>1
<1> QED
  BY <1>1, <1>2 DEF StartInv, StartsFirst, NoStarts, Tasks

\* Tasks that are no starts, behind those that are there.
LEMMA StartsKept ==
  ASSUME NEW q, NEW r, IsQueue(q), IsQueue(r), StartsFirst(q), NoStarts(r)
  PROVE  /\ IsQueue(q \o r) /\ StartsFirst(q \o r)
         /\ \A task \in Tasks(q \o r) : IsStart(task) => task \in Tasks(q)
<1>1. /\ Len(q) \in Nat /\ Len(r) \in Nat /\ Len(q \o r) = Len(q) + Len(r)
      /\ \A i \in 1..Len(q) : (q \o r)[i] = q[i]
      /\ \A i \in 1..Len(r) : (q \o r)[Len(q) + i] = r[i]
  BY QueueBasics, ConcatFacts
<1>2. ASSUME NEW i \in 1..(Len(q) + Len(r)), i \notin 1..Len(q)
      PROVE  i - Len(q) \in 1..Len(r) /\ i = Len(q) + (i - Len(q))
  BY <1>1, <1>2
<1>3. ASSUME NEW i \in 1..(Len(q) + Len(r)), IsStart((q \o r)[i]) PROVE i \in 1..Len(q)
  BY <1>1, <1>2, <1>3 DEF NoStarts, Tasks
<1>4. StartsFirst(q \o r)
  BY <1>1, <1>3 DEF StartsFirst
<1>5. \A task \in Tasks(q \o r) : IsStart(task) => task \in Tasks(q)
  BY TasksAfter DEF NoStarts
<1> QED
  BY <1>4, <1>5, ConcatFacts

\* The api thread takes a task, which may post others.
LEMMA StartAfterTask ==
  ASSUME StartInv, apiQueue # << >>, NEW r, IsQueue(r), NoStarts(r),
         apiQueue' = Tail(apiQueue) \o r
  PROVE  StartInv'
<1>1. IsQueue(Tail(apiQueue)) /\ NoStarts(Tail(apiQueue))
  BY StartTaken
<1>2. StartsFirst(Tail(apiQueue))
  BY <1>1 DEF NoStarts, StartsFirst, Tasks
<1> QED
  BY <1>1, <1>2, StartsKept DEF StartInv, NoStarts

\* Somebody posts, and no pusher that lives is harmed.
LEMMA StartAfterPost ==
  ASSUME StartInv, NEW r, IsQueue(r), NoStarts(r), apiQueue' = apiQueue \o r,
         \A p \in Pushers : Alive(p) => Alive(p)'
  PROVE  StartInv'
<1>1. /\ IsQueue(apiQueue') /\ StartsFirst(apiQueue')
      /\ \A task \in Tasks(apiQueue') : IsStart(task) => task \in Tasks(apiQueue)
  BY StartsKept DEF StartInv
<1> QED
  BY <1>1 DEF StartInv, IsStart

\* Neither the queue nor a pusher changes.
LEMMA StartFrame ==
  ASSUME StartInv, UNCHANGED apiQueue, \A p \in Pushers : Alive(p) => Alive(p)'
  PROVE  StartInv'
BY DEF StartInv, IsStart

-----------------------------------------------------------------------------
(* The tasks of the worker thread: which sinks are in async_objs_.         *)

\* In front of every reply for p its announcement, unless that has run.
Found(q, known, p) ==
  \A i \in 1..Len(q) :
     q[i].op = "Reply" /\ q[i].obj = p =>
        p \in known \/ \E j \in 1..(i - 1) : q[j] = AddObjectTask(p)

\* Behind every announcement of p, run or not, its withdrawal.
Leaves(q, known, p) ==
  /\ p \in known => RemoveObjectTask(p) \in Tasks(q)
  /\ \A i \in 1..Len(q) :
        q[i] = AddObjectTask(p) => \E j \in (i + 1)..Len(q) : q[j] = RemoveObjectTask(p)

\* Each task is of a sink that is there.
OfSink(task) ==
  \/ \E p \in chained : task = AddObjectTask(p)
  \/ \E p \in chained : task = RemoveObjectTask(p) /\ Gone(p)
  \/ task.op = "Reply" /\ task.obj \in chained
  \/ task.op = "Render"

\* The two tasks of a sink say what they are and whose.
LEMMA TaskFacts ==
  \A p : /\ AddObjectTask(p).op = "AddObject" /\ AddObjectTask(p).obj = p
         /\ RemoveObjectTask(p).op = "RemoveObject" /\ RemoveObjectTask(p).obj = p
BY DEF AddObjectTask, RemoveObjectTask

ObjectInv ==
  /\ chained \subseteq Pushers
  /\ \A p \in chained : life[p] # "none"
  /\ IsQueue(workerQueue)
  /\ \A task \in Tasks(workerQueue) : OfSink(task)
  /\ async_objs \subseteq chained
  /\ \A p \in chained : Alive(p) =>
        p \in async_objs \/ AddObjectTask(p) \in Tasks(workerQueue)
  /\ \A p \in chained : Alive(p) => Found(workerQueue, async_objs, p)
  /\ \A p \in chained : Gone(p) => Leaves(workerQueue, async_objs, p)

\* Posting other tasks changes neither.
LEMMA FoundGrows ==
  ASSUME NEW q, NEW r, NEW known, NEW p, IsQueue(q), IsQueue(r),
         Found(q, known, p),
         (\E task \in Tasks(r) : task.op = "Reply" /\ task.obj = p) =>
            p \in known \/ AddObjectTask(p) \in Tasks(q)
  PROVE  Found(q \o r, known, p)
<1>1. /\ Len(q) \in Nat /\ Len(r) \in Nat /\ Len(q \o r) = Len(q) + Len(r)
      /\ \A i \in 1..Len(q) : (q \o r)[i] = q[i]
      /\ \A i \in 1..Len(r) : (q \o r)[Len(q) + i] = r[i]
  BY QueueBasics, ConcatFacts
<1> SUFFICES ASSUME NEW i \in 1..(Len(q) + Len(r)),
                    (q \o r)[i].op = "Reply", (q \o r)[i].obj = p, p \notin known
             PROVE  \E j \in 1..(i - 1) : (q \o r)[j] = AddObjectTask(p)
  BY <1>1 DEF Found
<1>2. CASE i \in 1..Len(q)
  <2>1. PICK j \in 1..(i - 1) : q[j] = AddObjectTask(p)
    BY <1>1, <1>2 DEF Found
  <2>2. (q \o r)[j] = q[j]
    BY <1>1, <1>2
  <2> QED
    BY <2>1, <2>2
<1>3. CASE i \notin 1..Len(q)
  <2>1. i - Len(q) \in 1..Len(r) /\ i = Len(q) + (i - Len(q))
    BY <1>1, <1>3
  <2>2. (q \o r)[i] \in Tasks(r)
    BY <1>1, <2>1 DEF Tasks
  <2>3. PICK j \in 1..Len(q) : q[j] = AddObjectTask(p)
    BY <2>2 DEF Tasks
  <2>4. j \in 1..(i - 1) /\ (q \o r)[j] = q[j]
    BY <1>1, <2>1
  <2> QED
    BY <2>3, <2>4
<1> QED
  BY <1>2, <1>3

\* The first task is taken: when it was the announcement, it has run.
LEMMA FoundMoves ==
  ASSUME NEW q, NEW known, NEW after, NEW p, IsQueue(q), q # << >>,
         Found(q, known, p), p \in known \/ Head(q) = AddObjectTask(p) => p \in after
  PROVE  Found(Tail(q), after, p)
<1>1. /\ Len(q) \in Nat \ {0} /\ Len(Tail(q)) = Len(q) - 1 /\ Head(q) = q[1]
      /\ \A i \in 1..(Len(q) - 1) : Tail(q)[i] = q[i + 1]
  BY TailFacts
<1> SUFFICES ASSUME NEW i \in 1..(Len(q) - 1), Tail(q)[i].op = "Reply",
                    Tail(q)[i].obj = p, p \notin after
             PROVE  \E j \in 1..(i - 1) : Tail(q)[j] = AddObjectTask(p)
  BY <1>1 DEF Found
<1>2. i + 1 \in 1..Len(q) /\ q[i + 1] = Tail(q)[i]
  BY <1>1
<1>3. PICK j \in 1..i : q[j] = AddObjectTask(p)
  <2>1. (i + 1) - 1 = i
    BY <1>1
  <2> QED
    BY <1>2, <2>1 DEF Found
<1>4. j # 1
  BY <1>1, <1>3
<1>5. j - 1 \in 1..(i - 1) /\ Tail(q)[j - 1] = q[j]
  BY <1>1, <1>4
<1> QED
  BY <1>3, <1>5

\* Tasks that announce nothing, or a withdrawal behind everything.
LEMMA LeavesGrows ==
  ASSUME NEW q, NEW r, NEW known, NEW p, IsQueue(q), IsQueue(r),
         AddObjectTask(p) \notin Tasks(r),
         Leaves(q, known, p) \/ RemoveObjectTask(p) \in Tasks(r)
  PROVE  Leaves(q \o r, known, p)
<1>1. /\ Len(q) \in Nat /\ Len(r) \in Nat /\ Len(q \o r) = Len(q) + Len(r)
      /\ \A i \in 1..Len(q) : (q \o r)[i] = q[i]
      /\ \A i \in 1..Len(r) : (q \o r)[Len(q) + i] = r[i]
  BY QueueBasics, ConcatFacts
<1>2. Tasks(q \o r) = Tasks(q) \cup Tasks(r)
  BY TasksAfter
<1>3. p \in known => RemoveObjectTask(p) \in Tasks(q \o r)
  BY <1>2 DEF Leaves
<1>4. ASSUME NEW i \in 1..(Len(q) + Len(r)), (q \o r)[i] = AddObjectTask(p)
      PROVE  \E j \in (i + 1)..(Len(q) + Len(r)) : (q \o r)[j] = RemoveObjectTask(p)
  <2>1. ASSUME i \notin 1..Len(q) PROVE FALSE
    <3>1. i - Len(q) \in 1..Len(r) /\ i = Len(q) + (i - Len(q))
      BY <1>1, <2>1
    <3> QED
      BY <1>1, <1>4, <3>1 DEF Tasks
  <2>2. CASE Leaves(q, known, p)
    <3>1. PICK j \in (i + 1)..Len(q) : q[j] = RemoveObjectTask(p)
      BY <1>1, <1>4, <2>1, <2>2 DEF Leaves
    <3>2. j \in (i + 1)..(Len(q) + Len(r)) /\ (q \o r)[j] = q[j]
      BY <1>1, <2>1
    <3> QED
      BY <3>1, <3>2
  <2>3. CASE RemoveObjectTask(p) \in Tasks(r)
    <3>1. PICK k \in 1..Len(r) : r[k] = RemoveObjectTask(p)
      BY <2>3 DEF Tasks
    <3>2. Len(q) + k \in (i + 1)..(Len(q) + Len(r)) /\ (q \o r)[Len(q) + k] = r[k]
      BY <1>1, <2>1
    <3> QED
      BY <3>1, <3>2
  <2> QED
    BY <2>2, <2>3
<1> QED
  BY <1>1, <1>3, <1>4 DEF Leaves

\* The first task is taken: when it announces p the withdrawal is behind it,
\* and when it withdraws p, p is not known any more.
LEMMA LeavesMoves ==
  ASSUME NEW q, NEW known, NEW after, NEW p, IsQueue(q), q # << >>,
         Leaves(q, known, p),
         p \in after => (p \in known /\ Head(q) # RemoveObjectTask(p))
                          \/ Head(q) = AddObjectTask(p)
  PROVE  Leaves(Tail(q), after, p)
<1>1. /\ Len(q) \in Nat \ {0} /\ Len(Tail(q)) = Len(q) - 1 /\ Head(q) = q[1]
      /\ \A i \in 1..(Len(q) - 1) : Tail(q)[i] = q[i + 1]
  BY TailFacts
<1>2. ASSUME NEW i \in 1..Len(q), q[i] = AddObjectTask(p)
      PROVE  \E j \in i..(Len(q) - 1) : Tail(q)[j] = RemoveObjectTask(p)
  <2>1. PICK j \in (i + 1)..Len(q) : q[j] = RemoveObjectTask(p)
    BY <1>2 DEF Leaves
  <2>2. j - 1 \in i..(Len(q) - 1) /\ Tail(q)[j - 1] = q[j]
    BY <1>1
  <2> QED
    BY <2>1, <2>2
<1>3. ASSUME p \in after PROVE RemoveObjectTask(p) \in Tasks(Tail(q))
  <2>1. CASE Head(q) = AddObjectTask(p)
    <3>1. 1 \in 1..Len(q) /\ q[1] = AddObjectTask(p)
      BY <1>1, <2>1
    <3> QED
      BY <1>1, <1>2, <3>1 DEF Tasks
  <2>2. CASE p \in known /\ Head(q) # RemoveObjectTask(p)
    BY <2>2, TasksAfter DEF Leaves
  <2> QED
    BY <1>3, <2>1, <2>2
<1>4. ASSUME NEW i \in 1..(Len(q) - 1), Tail(q)[i] = AddObjectTask(p)
      PROVE  \E j \in (i + 1)..(Len(q) - 1) : Tail(q)[j] = RemoveObjectTask(p)
  <2>1. i + 1 \in 1..Len(q) /\ q[i + 1] = AddObjectTask(p)
    BY <1>1, <1>4
  <2> QED
    BY <1>2, <2>1
<1> QED
  BY <1>1, <1>3, <1>4 DEF Leaves

\* The sinks and their tasks stay, and who is gone stays so.
LEMMA ObjectFrame ==
  ASSUME ObjectInv, UNCHANGED <<chained, async_objs, workerQueue>>,
         \A p \in chained : life'[p] = life[p] \/ (Gone(p) /\ Gone(p)')
  PROVE  ObjectInv'
<1>1. \A p \in chained : /\ Alive(p)' <=> Alive(p)
                         /\ Gone(p)' <=> Gone(p)
                         /\ life[p] # "none" => life'[p] # "none"
  BY DEF Alive, Gone
<1>2. \A task \in Tasks(workerQueue) : OfSink(task) => OfSink(task)'
  BY <1>1 DEF OfSink
<1> QED
  BY <1>1, <1>2 DEF ObjectInv, Found, Leaves, Tasks

\* Frames to draw and replies are posted.
LEMMA ObjectPost ==
  ASSUME ObjectInv, UNCHANGED <<life, chained, async_objs>>, NEW r, IsQueue(r),
         workerQueue' = workerQueue \o r,
         \A task \in Tasks(r) :
            task.op = "Render" \/ (task.op = "Reply" /\ task.obj \in chained)
  PROVE  ObjectInv'
<1>1. IsQueue(workerQueue') /\ Tasks(workerQueue') = Tasks(workerQueue) \cup Tasks(r)
  BY ConcatFacts, TasksAfter DEF ObjectInv
<1>2. \A task \in Tasks(workerQueue') : OfSink(task)'
  BY <1>1 DEF ObjectInv, OfSink, Gone
<1>3. ASSUME NEW p \in chained, Alive(p) PROVE Found(workerQueue', async_objs, p)
  BY <1>3, FoundGrows DEF ObjectInv
<1>4. ASSUME NEW p \in chained, Gone(p) PROVE Leaves(workerQueue', async_objs, p)
  <2>1. AddObjectTask(p) \notin Tasks(r)
    BY DEF AddObjectTask
  <2> QED
    BY <1>4, <2>1, LeavesGrows DEF ObjectInv
<1> QED
  BY <1>1, <1>2, <1>3, <1>4 DEF ObjectInv, Alive, Gone, Found, Leaves

\* The worker thread takes a task.
LEMMA ObjectTake ==
  ASSUME ObjectInv, UNCHANGED <<life, chained>>, workerQueue # << >>,
         workerQueue' = Tail(workerQueue),
         \/ /\ Head(workerQueue).op = "AddObject"
            /\ async_objs' = async_objs \cup {Head(workerQueue).obj}
         \/ /\ Head(workerQueue).op = "RemoveObject"
            /\ async_objs' = async_objs \ {Head(workerQueue).obj}
         \/ /\ Head(workerQueue).op \in {"Reply", "Render"}
            /\ UNCHANGED async_objs
  PROVE  ObjectInv'
<1> DEFINE q == workerQueue
<1>1. IsQueue(Tail(q)) /\ Tasks(q) = Tasks(Tail(q)) \cup {Head(q)}
  BY TailFacts, TasksAfter DEF ObjectInv
<1>2. OfSink(Head(q))
  BY <1>1 DEF ObjectInv
<1>3. \/ \E p \in chained : Head(q) = AddObjectTask(p) /\ async_objs' = async_objs \cup {p}
      \/ \E p \in chained : /\ Head(q) = RemoveObjectTask(p) /\ Gone(p)
                            /\ async_objs' = async_objs \ {p}
      \/ Head(q).op \in {"Reply", "Render"} /\ UNCHANGED async_objs
  BY <1>2 DEF OfSink, AddObjectTask, RemoveObjectTask
<1>6. ASSUME NEW p \in chained, Alive(p), p \in async_objs \/ Head(q) = AddObjectTask(p)
      PROVE  p \in async_objs'
  <2>1. ASSUME NEW s \in chained, Head(q) = AddObjectTask(s),
               async_objs' = async_objs \cup {s}
        PROVE  p \in async_objs'
    BY <1>6, <2>1, TaskFacts
  <2>2. ASSUME NEW s \in chained, Head(q) = RemoveObjectTask(s), Gone(s),
               async_objs' = async_objs \ {s}
        PROVE  p \in async_objs'
    <3>1. s # p
      BY <1>6, <2>2 DEF Alive, Gone
    <3> QED
      BY <1>6, <2>2, <3>1, TaskFacts
  <2>3. ASSUME Head(q).op \in {"Reply", "Render"}, UNCHANGED async_objs
        PROVE  p \in async_objs'
    BY <1>6, <2>3, TaskFacts
  <2> QED
    BY <1>3, <2>1, <2>2, <2>3
<1>7. ASSUME NEW p \in chained, p \in async_objs'
      PROVE  \/ p \in async_objs /\ Head(q) # RemoveObjectTask(p)
             \/ Head(q) = AddObjectTask(p)
  <2> DEFINE Goal == \/ p \in async_objs /\ Head(q) # RemoveObjectTask(p)
                     \/ Head(q) = AddObjectTask(p)
  <2>1. ASSUME NEW s \in chained, Head(q) = AddObjectTask(s),
               async_objs' = async_objs \cup {s}
        PROVE  Goal
    BY <1>7, <2>1, TaskFacts
  <2>2. ASSUME NEW s \in chained, Head(q) = RemoveObjectTask(s),
               async_objs' = async_objs \ {s}
        PROVE  Goal
    <3>1. p # s /\ p \in async_objs
      BY <1>7, <2>2
    <3>2. RemoveObjectTask(p) # RemoveObjectTask(s)
      BY <3>1, TaskFacts
    <3> QED
      BY <2>2, <3>1, <3>2
  <2>3. ASSUME Head(q).op \in {"Reply", "Render"}, UNCHANGED async_objs PROVE Goal
    BY <1>7, <2>3, TaskFacts
  <2> QED
    BY <1>3, <2>1, <2>2, <2>3
<1>8. async_objs' \subseteq chained
  BY <1>3 DEF ObjectInv
<1>9. \A task \in Tasks(workerQueue') : OfSink(task)'
  BY <1>1 DEF ObjectInv, OfSink, Gone
<1>10. ASSUME NEW p \in chained, Alive(p)
       PROVE  p \in async_objs' \/ AddObjectTask(p) \in Tasks(workerQueue')
  BY <1>1, <1>6, <1>10 DEF ObjectInv
<1>11. ASSUME NEW p \in chained, Alive(p) PROVE Found(workerQueue', async_objs', p)
  BY <1>6, <1>11, FoundMoves DEF ObjectInv
<1>12. ASSUME NEW p \in chained, Gone(p) PROVE Leaves(workerQueue', async_objs', p)
  BY <1>7, <1>12, LeavesMoves DEF ObjectInv
<1> QED
  BY <1>1, <1>8, <1>9, <1>10, <1>11, <1>12 DEF ObjectInv, Alive, Gone, Found, Leaves, Tasks

\* A sink is made and announces itself.
LEMMA ObjectMade ==
  ASSUME ObjectInv, UNCHANGED <<life, async_objs>>, NEW p \in Pushers, Alive(p),
         chained' = chained \cup {p},
         workerQueue' = workerQueue \o <<AddObjectTask(p)>>
  PROVE  ObjectInv'
<1> DEFINE q == workerQueue
           r == <<AddObjectTask(p)>>
<1>1. /\ IsQueue(r) /\ Tasks(r) = {AddObjectTask(p)}
      /\ IsQueue(q \o r) /\ Tasks(q \o r) = Tasks(q) \cup {AddObjectTask(p)}
  <2>1. IsQueue(r) /\ Tasks(r) = {AddObjectTask(p)}
    BY ListedTasks
  <2>2. IsQueue(q)
    BY DEF ObjectInv
  <2> HIDE DEF q, r
  <2>3. IsQueue(q \o r)
    BY <2>1, <2>2, ConcatFacts
  <2>4. Tasks(q \o r) = Tasks(q) \cup Tasks(r)
    BY <2>1, <2>2, TasksAfter
  <2> QED
    BY <2>1, <2>3, <2>4
<1>2. \A task \in Tasks(workerQueue') : OfSink(task)'
  BY <1>1 DEF ObjectInv, OfSink, Gone
<1>3. ASSUME NEW s \in Pushers, s # p PROVE AddObjectTask(s) # AddObjectTask(p)
  <2>1. AddObjectTask(s).obj = s /\ AddObjectTask(p).obj = p
    BY DEF AddObjectTask
  <2> QED
    BY <1>3, <2>1
<1>4. AddObjectTask(p).op # "Reply"
  BY DEF AddObjectTask
<1>5. p \notin chained => Found(q, async_objs, p)
  <2> SUFFICES ASSUME p \notin chained, NEW i \in 1..Len(q), q[i].op = "Reply", q[i].obj = p
               PROVE  FALSE
    BY DEF Found
  <2>1. OfSink(q[i])
    BY DEF ObjectInv, Tasks
  <2> QED
    BY <2>1, TaskFacts DEF OfSink
<1>6. ASSUME NEW s \in chained \cup {p}, Alive(s) PROVE Found(workerQueue', async_objs, s)
  <2>1. Found(q, async_objs, s)
    BY <1>5, <1>6 DEF ObjectInv
  <2> HIDE DEF q, r
  <2> QED
    BY <1>1, <1>4, <2>1, FoundGrows DEF ObjectInv, q, r
<1>7. ASSUME NEW s \in chained, Gone(s) PROVE Leaves(workerQueue', async_objs, s)
  <2>1. s # p /\ s \in Pushers
    BY <1>7 DEF Alive, Gone, ObjectInv
  <2>2. AddObjectTask(s) \notin Tasks(r)
    BY <1>1, <1>3, <2>1
  <2> QED
    BY <1>1, <1>7, <2>2, LeavesGrows DEF ObjectInv
<1>8. \A s \in chained' : s # p => s \in chained
  OBVIOUS
<1> QED
  BY <1>1, <1>2, <1>6, <1>7, <1>8 DEF ObjectInv, Alive, Gone, Found, Leaves, Tasks

\* A pusher with a sink goes, and its sink withdraws itself.
LEMMA ObjectWithdrawn ==
  ASSUME ObjectInv, UNCHANGED <<chained, async_objs>>, NEW p \in chained, Gone(p)',
         \A s \in chained : s # p => life'[s] = life[s],
         workerQueue' = workerQueue \o <<RemoveObjectTask(p)>>
  PROVE  ObjectInv'
<1> DEFINE q == workerQueue
           r == <<RemoveObjectTask(p)>>
<1>1. /\ IsQueue(r) /\ Tasks(r) = {RemoveObjectTask(p)}
      /\ IsQueue(q \o r) /\ Tasks(q \o r) = Tasks(q) \cup {RemoveObjectTask(p)}
  <2>1. IsQueue(r) /\ Tasks(r) = {RemoveObjectTask(p)}
    BY ListedTasks
  <2>2. IsQueue(q)
    BY DEF ObjectInv
  <2> HIDE DEF q, r
  <2>3. IsQueue(q \o r)
    BY <2>1, <2>2, ConcatFacts
  <2>4. Tasks(q \o r) = Tasks(q) \cup Tasks(r)
    BY <2>1, <2>2, TasksAfter
  <2> QED
    BY <2>1, <2>3, <2>4
<1>2. \A s \in chained : Gone(s) => Gone(s)'
  BY DEF Gone
<1>3. \A task \in Tasks(workerQueue') : OfSink(task)'
  BY <1>1, <1>2 DEF ObjectInv, OfSink
<1>4. \A s : AddObjectTask(s) # RemoveObjectTask(p)
  BY DEF AddObjectTask, RemoveObjectTask
<1>5. RemoveObjectTask(p).op # "Reply"
  BY DEF RemoveObjectTask
<1>6. ASSUME NEW s \in chained, Alive(s)' PROVE s # p /\ Alive(s)
  BY <1>6 DEF Alive, Gone
<1>7. ASSUME NEW s \in chained, Alive(s)
      PROVE Found(workerQueue', async_objs, s)
  BY <1>1, <1>5, <1>7, FoundGrows DEF ObjectInv
<1>8. ASSUME NEW s \in chained, Gone(s)' PROVE Leaves(workerQueue', async_objs, s)
  <2>1. s = p \/ Gone(s)
    BY <1>8 DEF Gone
  <2> QED
    BY <1>1, <1>4, <2>1, LeavesGrows DEF ObjectInv
<1>9. \A s \in chained : life'[s] # "none"
  BY DEF ObjectInv, Gone
<1>10. ASSUME NEW s \in chained, Alive(s)'
       PROVE  s \in async_objs \/ AddObjectTask(s) \in Tasks(workerQueue')
  BY <1>1, <1>6, <1>10 DEF ObjectInv
<1>11. ASSUME NEW s \in chained, Alive(s)' PROVE Found(workerQueue, async_objs, s)'
  <2>1. Found(workerQueue', async_objs, s)
    BY <1>6, <1>7, <1>11
  <2> QED
    BY <2>1 DEF Found, AddObjectTask
<1>12. ASSUME NEW s \in chained, Gone(s)' PROVE Leaves(workerQueue, async_objs, s)'
  <2>1. Leaves(workerQueue', async_objs, s)
    BY <1>8, <1>12
  <2> QED
    BY <2>1 DEF Leaves, Tasks, AddObjectTask, RemoveObjectTask
<1>13. \A task \in Tasks(workerQueue)' : OfSink(task)'
  BY <1>3 DEF Tasks
<1>14. \A s \in chained : s \in async_objs \/ AddObjectTask(s) \in Tasks(workerQueue)'
                          \/ ~Alive(s)'
  BY <1>10 DEF Tasks
<1> QED
  BY <1>1, <1>9, <1>11, <1>12, <1>13, <1>14 DEF ObjectInv

-----------------------------------------------------------------------------
(* The calls that wait on the api and worker threads, the tasks of the     *)
(* network thread and the requests are of sinks that are there.            *)

NetworkOK ==
  /\ IsQueue(networkQueue)
  /\ \A task \in Tasks(networkQueue) :
        /\ task[1] \in {"frame", "create", "delete"}
        /\ task[1] # "frame" => task[2] \in chained
        /\ task[1] = "delete" => Gone(task[2])

ApiOK ==
  \A p : /\ apiAt \in {<<"post", p>>, <<"posted", p>>} => p \in chained
         /\ apiAt \in {<<"destroy", p>>, <<"destroyed", p>>} => p \in chained /\ Gone(p)

WorkerOK == \A p : workerAt \in {<<"create", p>>, <<"created", p>>, <<"posted", p>>}
                      => p \in chained

RequestsOK == \A r \in request_list : Owner(r) \in chained

Connections == [Pushers -> [state : IceStates \cup {"new"}, streams : BOOLEAN,
                            gathering : BOOLEAN]]

\* ICE gathers, and is more than new, only for a connection with its streams.
StreamInv ==
  /\ pc \in Connections
  /\ \A p \in Pushers : /\ pc[p].gathering => p \in chained
                        /\ pc[p].state # "new" => pc[p].gathering
  /\ \A p \in chained :
        Alive(p) /\ (pc[p].gathering \/ workerAt = <<"created", p>>) => pc[p].streams

\* Everything but the tasks of the api thread.
SinkInv ==
  /\ LifeOK
  /\ ObjectInv
  /\ NetworkOK
  /\ ApiOK
  /\ WorkerOK
  /\ RequestsOK
  /\ StreamInv

\* The invariant.
SessionInv == StartInv /\ SinkInv

\* No sink is touched: steps of devices, previews and of other pushers.
LEMMA SinkFrame ==
  ASSUME SinkInv, LifeOK',
         UNCHANGED <<chained, async_objs, workerQueue, networkQueue, apiAt, workerAt,
                     request_list, pc>>,
         \A p \in chained : life'[p] = life[p] \/ (Gone(p) /\ Gone(p)')
  PROVE  SinkInv'
<1>1. ObjectInv'
  BY ObjectFrame DEF SinkInv
<1>2. \A p \in chained : (Gone(p)' <=> Gone(p)) /\ (Alive(p)' <=> Alive(p))
  BY DEF Gone, Alive
<1>3. NetworkOK'
  BY <1>2 DEF SinkInv, NetworkOK, Tasks
<1>4. ApiOK'
  BY <1>2 DEF SinkInv, ApiOK
<1>5. WorkerOK' /\ RequestsOK'
  BY DEF SinkInv, WorkerOK, RequestsOK
<1>6. StreamInv'
  BY <1>2 DEF SinkInv, StreamInv
<1> QED
  BY <1>1, <1>3, <1>4, <1>5, <1>6 DEF SinkInv

\* A queue with nothing more posted.
LEMMA NothingPosted ==
  ASSUME NEW q, IsQueue(q)
  PROVE  q \o << >> = q
BY ConcatEmptySeq DEF IsQueue

\* The api thread takes a task, which posts at most one other.
LEMMA StartTask ==
  ASSUME StartInv, apiQueue # << >>,
         \/ apiQueue' = Tail(apiQueue)
         \/ \E task : ~IsStart(task) /\ apiQueue' = Append(Tail(apiQueue), task)
  PROVE  StartInv'
<1>1. IsQueue(Tail(apiQueue))
  BY StartTaken
<1>2. CASE apiQueue' = Tail(apiQueue)
  <2>1. apiQueue' = Tail(apiQueue) \o << >>
    BY <1>1, <1>2, NothingPosted
  <2>2. IsQueue(<< >>) /\ NoStarts(<< >>)
    BY ListedTasks DEF NoStarts
  <2> QED
    BY <2>1, <2>2, StartAfterTask
<1>3. ASSUME NEW task, ~IsStart(task), apiQueue' = Append(Tail(apiQueue), task)
      PROVE  StartInv'
  <2>1. apiQueue' = Tail(apiQueue) \o <<task>>
    BY <1>1, <1>3, AppendIsPost
  <2>2. IsQueue(<<task>>) /\ NoStarts(<<task>>)
    BY <1>3, ListedTasks DEF NoStarts
  <2> QED
    BY <2>1, <2>2, StartAfterTask
<1> QED
  BY <1>2, <1>3

\* The tasks that change the list of a camera start nothing.
LEMMA ConsumerTasks ==
  \A d, c : ~IsStart(AddConsumerTask(d, c)) /\ ~IsStart(RemoveConsumerTask(d, c))
BY DEF AddConsumerTask, RemoveConsumerTask, IsStart

-----------------------------------------------------------------------------
(* The steps of the user.                                                  *)

\* Objects are there before any of their steps.
LEMMA InitInv == Init => SessionInv
<1> SUFFICES ASSUME Init PROVE SessionInv
  OBVIOUS
<1>1. StartInv
  BY ListedTasks, EmptySeq DEF Init, StartInv, StartsFirst
<1>2. LifeOK
  BY DEF Init, LifeOK, Objects
<1>3. ObjectInv
  BY ListedTasks DEF Init, HttpInit, ObjectInv
<1>4. NetworkOK /\ ApiOK /\ WorkerOK /\ RequestsOK
  BY ListedTasks DEF Init, HttpInit, NetworkOK, ApiOK, WorkerOK, RequestsOK
<1>5. StreamInv
  BY DEF Init, StreamInv, Connections, IceStates
<1> QED
  BY <1>1, <1>2, <1>3, <1>4, <1>5 DEF SessionInv, SinkInv

\* Devices are created and started, none of them a pusher.
LEMMA ClickStartDevicesStep ==
  ASSUME SessionInv, ClickStartDevices
  PROVE  SessionInv'
<1>1. PICK devices : /\ devices \subseteq Cameras \cup Mics
                     /\ IsFiniteSet(devices)
                     /\ CreateDevices(devices)
  <2>1. PICK cam \in Cameras \cup {form.cam}, mic \in Mics \cup {form.mic} :
          CreateDevices({cam, mic} \ {form.cam, form.mic})
    BY DEF ClickStartDevices
  <2>2. IsFiniteSet({cam, mic})
    <3>1. IsFiniteSet({cam}) /\ {cam, mic} = {cam} \cup {mic}
      BY FS_Singleton
    <3> QED
      BY <3>1, FS_AddElement
  <2>3. IsFiniteSet({cam, mic} \ {form.cam, form.mic})
    BY <2>2, FS_Subset
  <2> QED
    BY <2>1, <2>3
<1>2. \A o \in Objects : life'[o] = IF o \in devices THEN "alive" ELSE life[o]
  BY <1>1 DEF CreateDevices, SessionInv, SinkInv, LifeOK
<1>3. LifeOK'
  BY <1>1, <1>2 DEF CreateDevices, SessionInv, SinkInv, LifeOK
<1>4. \A p \in Pushers : life'[p] = life[p]
  BY <1>1, <1>2, SessionAssumption DEF Objects
<1> DEFINE starts == {<<"Start", d>> : d \in devices}
<1>5. IsQueue(SetToSeq(starts)) /\ NoStarts(SetToSeq(starts))
  <2>1. IsFiniteSet(starts)
    <3> DEFINE start == [d \in devices |-> <<"Start", d>>]
    <3>1. start \in [devices -> starts] /\ \A t \in starts : \E d \in devices : start[d] = t
      OBVIOUS
    <3> HIDE DEF start, starts
    <3> QED
      BY <1>1, <3>1, ImageFinite
  <2>2. \A task \in starts : ~IsStart(task)
    BY <1>1, SessionAssumption DEF IsStart
  <2> HIDE DEF starts
  <2> QED
    BY <2>1, <2>2, SetToSeqFacts DEF NoStarts
<1>6. StartInv'
  <2>1. apiQueue' = apiQueue \o SetToSeq(starts)
    BY <1>1 DEF CreateDevices
  <2> HIDE DEF starts
  <2> QED
    BY <1>4, <1>5, <2>1, StartAfterPost DEF SessionInv, Alive
<1>7. SinkInv'
  <2>1. \A p \in chained : life'[p] = life[p]
    BY <1>4 DEF SessionInv, SinkInv, ObjectInv
  <2>2. UNCHANGED <<chained, async_objs, workerQueue, networkQueue, apiAt, workerAt,
                    request_list, pc>>
    BY DEF ClickStartDevices, httpVars
  <2> QED
    BY <1>3, <2>1, <2>2, SinkFrame DEF SessionInv
<1> QED
  BY <1>6, <1>7 DEF SessionInv

\* Devices, a pusher or a preview are stopped and destroyed by tasks.
LEMMA ClickReleaseStep ==
  ASSUME SessionInv, ClickStopDevices \/ \E handle \in {"pusher", "preview"} : ClickRelease(handle)
  PROVE  SessionInv'
<1>1. PICK r : IsQueue(r) /\ NoStarts(r) /\ apiQueue' = apiQueue \o r
  <2>1. CASE ClickStopDevices
    <3> DEFINE r == << <<"Stop", form.cam>>, <<"Destroy", form.cam>>,
                       <<"Stop", form.mic>>, <<"Destroy", form.mic>> >>
    <3>1. IsQueue(r) /\ NoStarts(r)
      BY ListedTasks DEF NoStarts, IsStart
    <3> QED
      BY <2>1, <3>1 DEF ClickStopDevices
  <2>2. ASSUME NEW handle \in {"pusher", "preview"}, ClickRelease(handle)
        PROVE  \E r : IsQueue(r) /\ NoStarts(r) /\ apiQueue' = apiQueue \o r
    <3> DEFINE r == << <<"Stop", form[handle]>>, <<"Destroy", form[handle]>> >>
    <3>1. IsQueue(r) /\ NoStarts(r)
      BY ListedTasks DEF NoStarts, IsStart
    <3> QED
      BY <2>2, <3>1 DEF ClickRelease
  <2> QED
    BY <2>1, <2>2
<1>2. UNCHANGED <<life, chained, async_objs, workerQueue, networkQueue, apiAt,
                  workerAt, request_list, pc>>
  BY DEF ClickStopDevices, ClickRelease, httpVars
<1>3. StartInv'
  BY <1>1, <1>2, StartAfterPost DEF SessionInv, Alive
<1>4. SinkInv'
  BY <1>2, SinkFrame DEF SessionInv, SinkInv, LifeOK
<1> QED
  BY <1>3, <1>4 DEF SessionInv

\* A pusher or a preview is created while the api thread has nothing to do.
LEMMA CreateStep ==
  ASSUME SessionInv, NEW o \in Pushers \cup Previews, NEW handle, Create(o, handle)
  PROVE  SessionInv'
<1>1. /\ life[o] = "none" /\ life' = [life EXCEPT ![o] = "alive"]
      /\ apiQueue' = <<<<"Start", o>>>>
      /\ UNCHANGED <<chained, async_objs, workerQueue, networkQueue, apiAt, workerAt,
                     request_list, pc>>
  BY DEF Create, httpVars
<1>2. LifeOK' /\ life'[o] = "alive"
  BY <1>1 DEF SessionInv, SinkInv, LifeOK, Objects
<1>3. o \notin chained
  BY <1>1 DEF SessionInv, SinkInv, ObjectInv
<1>4. SinkInv'
  BY <1>1, <1>2, <1>3, SinkFrame DEF SessionInv
<1>5. StartInv'
  <2>1. IsQueue(apiQueue') /\ Tasks(apiQueue)' = {<<"Start", o>>} /\ Len(apiQueue') = 1
    BY <1>1, ListedTasks DEF Tasks
  <2> QED
    BY <1>2, <2>1 DEF StartInv, StartsFirst, Alive
<1> QED
  BY <1>4, <1>5 DEF SessionInv

-----------------------------------------------------------------------------
(* The steps of the api thread.                                            *)

\* Nothing changes but what the crash is.
LEMMA CrashStep ==
  ASSUME SessionInv, NEW what, Crash(what)
  PROVE  SessionInv'
<1>1. UNCHANGED <<life, apiQueue, chained, async_objs, workerQueue, networkQueue, apiAt,
                  workerAt, request_list, pc>>
  BY DEF Crash, httpVars, sessionVars
<1>2. StartInv'
  BY <1>1, StartFrame DEF SessionInv, Alive
<1>3. SinkInv'
  BY <1>1, SinkFrame DEF SessionInv, SinkInv, LifeOK
<1> QED
  BY <1>2, <1>3 DEF SessionInv

\* A task that touches no sink: only who is alive among devices and previews,
\* and pushers without a sink, may change.
LEMMA TaskStep ==
  ASSUME SessionInv, apiQueue # << >>,
         \/ apiQueue' = Tail(apiQueue)
         \/ \E task : ~IsStart(task) /\ apiQueue' = Append(Tail(apiQueue), task),
         UNCHANGED <<chained, async_objs, workerQueue, networkQueue, apiAt, workerAt,
                     request_list, pc>>,
         \/ UNCHANGED life
         \/ \E o \in Objects \ chained : life' = [life EXCEPT ![o] = "dead"]
  PROVE  SessionInv'
<1>1. StartInv'
  BY StartTask DEF SessionInv
<1>2. LifeOK' /\ \A p \in chained : life'[p] = life[p]
  BY DEF SessionInv, SinkInv, LifeOK, ObjectInv, Objects
<1> QED
  BY <1>1, <1>2, SinkFrame DEF SessionInv

\* StartPush: of the three outcomes only the last makes a sink, of a pusher
\* that lives and has none.
LEMMA StartPushStep ==
  ASSUME SessionInv, NEW p \in Pushers, StartPush(p)
  PROVE  SessionInv'
<1>1. apiQueue # << >> /\ UNCHANGED <<life, async_objs, networkQueue, workerAt,
                                      request_list, pc>>
  BY DEF StartPush, ApiTask
<1>2. CASE UNCHANGED <<workerQueue, chained, apiAt>> /\ apiQueue' = Tail(apiQueue)
  BY <1>1, <1>2, TaskStep
<1>3. CASE CreateChain(p) /\ StartStream(p)
  <2>1. Alive(p)
    <3>1. Head(apiQueue) \in Tasks(apiQueue)
      BY <1>1, TasksAfter DEF SessionInv, StartInv
    <3> QED
      BY <3>1 DEF StartPush, ApiTask, Subject, SessionInv, StartInv, IsStart
  <2>2. chained' = chained \cup {p} /\ apiAt' \in {apiAt, <<"post", p>>}
    BY <1>3 DEF CreateChain, StartStream, StartSink
  <2>3. StartInv'
    <3>1. \/ apiQueue' = Tail(apiQueue)
          \/ apiQueue' = Append(Tail(apiQueue), AddConsumerTask(source[p].cam, p))
      BY <1>3 DEF StartStream
    <3> QED
      BY <1>1, <3>1, ConsumerTasks, StartTask DEF SessionInv
  <2>4. ObjectInv'
    <3>1. workerQueue' = workerQueue \o <<AddObjectTask(p)>>
      BY <1>3, AppendIsPost DEF CreateChain, SessionInv, SinkInv, ObjectInv
    <3> QED
      BY <1>1, <2>1, <2>2, <3>1, ObjectMade DEF SessionInv, SinkInv
  <2>5. LifeOK' /\ NetworkOK' /\ RequestsOK'
    BY <1>1, <2>2 DEF SessionInv, SinkInv, LifeOK, NetworkOK, RequestsOK, Gone, Tasks
  <2>6. ApiOK' /\ WorkerOK'
    BY <1>1, <2>2 DEF SessionInv, SinkInv, ApiOK, WorkerOK, Gone
  <2>7. StreamInv'
    BY <1>1, <2>2 DEF SessionInv, SinkInv, StreamInv, WorkerOK, Alive
  <2> QED
    BY <2>3, <2>4, <2>5, <2>6, <2>7 DEF SessionInv, SinkInv
<1> QED
  BY <1>2, <1>3 DEF StartPush

\* HttpManager::Post for the offer.
LEMMA PostOfferStep ==
  ASSUME SessionInv, NEW p \in Pushers, PostOffer(p)
  PROVE  SessionInv'
<1>1. /\ UNCHANGED <<life, apiQueue, chained, async_objs, workerQueue, networkQueue,
                     workerAt, pc>>
      /\ \/ apiAt' = <<"posted", p>> /\ UNCHANGED request_list
         \/ apiAt' = << >> /\ request_list' = request_list \cup {<<p, "offer">>}
      /\ apiAt \in {<<"post", p>>, <<"posted", p>>}
  BY DEF PostOffer, AddHandle, Remember, deviceVars
<1>2. p \in chained
  BY <1>1 DEF SessionInv, SinkInv, ApiOK
<1>3. StartInv'
  BY <1>1, StartFrame DEF SessionInv, Alive
<1>4. ObjectInv'
  BY <1>1, ObjectFrame DEF SessionInv, SinkInv
<1>5. ApiOK'
  BY <1>1, <1>2 DEF ApiOK
<1>6. RequestsOK'
  BY <1>1, <1>2 DEF SessionInv, SinkInv, RequestsOK, Owner
<1>7. LifeOK' /\ NetworkOK' /\ WorkerOK' /\ StreamInv'
  BY <1>1 DEF SessionInv, SinkInv, LifeOK, NetworkOK, WorkerOK, StreamInv, Gone, Alive, Tasks
<1> QED
  BY <1>3, <1>4, <1>5, <1>6, <1>7 DEF SessionInv, SinkInv

\* Stop of a push, which may meet a device that is gone.
LEMMA StopPushStep ==
  ASSUME SessionInv, NEW p \in Pushers, StopPush(p)
  PROVE  SessionInv'
<1>1. CASE Crash("device")
  BY <1>1, CrashStep
<1>2. CASE ~Crash("device")
  <2>1. /\ apiQueue # << >>
        /\ UNCHANGED <<life, chained, async_objs, workerQueue, networkQueue, apiAt,
                       workerAt, request_list, pc>>
        /\ \/ apiQueue' = Tail(apiQueue)
           \/ apiQueue' = Append(Tail(apiQueue), RemoveConsumerTask(source[p].cam, p))
    BY <1>2 DEF StopPush, ApiTask, httpVars, sessionVars
  <2> QED
    BY <2>1, ConsumerTasks, TaskStep
<1> QED
  BY <1>1, <1>2

\* The tasks of a preview.
LEMMA PreviewStep ==
  ASSUME SessionInv, NEW v \in Previews,
         StartPreview(v) \/ StopPreview(v) \/ DestroyPreview(v)
  PROVE  SessionInv'
<1>1. ASSUME StartPreview(v) PROVE SessionInv'
  <2>1. /\ apiQueue # << >>
        /\ UNCHANGED <<life, chained, async_objs, workerQueue, networkQueue, apiAt,
                       workerAt, request_list, pc>>
        /\ \/ apiQueue' = Tail(apiQueue)
           \/ apiQueue' = Append(Tail(apiQueue), AddConsumerTask(source[v].cam, v))
    BY <1>1 DEF StartPreview, ApiTask, httpVars, sessionVars
  <2> QED
    BY <2>1, ConsumerTasks, TaskStep
<1>2. ASSUME StopPreview(v), ~Crash("device") PROVE SessionInv'
  <2>1. /\ apiQueue # << >>
        /\ UNCHANGED <<life, chained, async_objs, workerQueue, networkQueue, apiAt,
                       workerAt, request_list, pc>>
        /\ \/ apiQueue' = Tail(apiQueue)
           \/ apiQueue' = Append(Tail(apiQueue), RemoveConsumerTask(source[v].cam, v))
    BY <1>2 DEF StopPreview, ApiTask, httpVars
  <2> QED
    BY <2>1, ConsumerTasks, TaskStep
<1>3. ASSUME DestroyPreview(v) PROVE SessionInv'
  <2>1. /\ apiQueue # << >> /\ apiQueue' = Tail(apiQueue)
        /\ UNCHANGED <<chained, async_objs, workerQueue, networkQueue, apiAt,
                       workerAt, request_list, pc>>
        /\ life' = [life EXCEPT ![v] = "dead"]
    BY <1>3 DEF DestroyPreview, ApiTask, httpVars, sessionVars
  <2>2. v \in Objects \ chained
    BY SessionAssumption DEF SessionInv, SinkInv, ObjectInv, Objects
  <2> QED
    BY <2>1, <2>2, TaskStep
<1> QED
  BY <1>1, <1>2, <1>3, CrashStep

\* Destroy of a push: with a sink, it withdraws itself and the api thread
\* waits for the streams to be deleted.
LEMMA DestroyPusherStep ==
  ASSUME SessionInv, NEW p \in Pushers, DestroyPusher(p)
  PROVE  SessionInv'
<1>1. /\ apiQueue # << >> /\ apiQueue' = Tail(apiQueue) /\ apiAt = << >>
      /\ UNCHANGED <<chained, async_objs, request_list, workerAt, pc>>
  BY DEF DestroyPusher, ApiTask
<1>2. CASE p \notin chained
  <2>1. /\ life' = [life EXCEPT ![p] = "dead"]
        /\ UNCHANGED <<workerQueue, networkQueue, apiAt>>
    BY <1>2 DEF DestroyPusher
  <2> QED
    BY <1>1, <1>2, <2>1, TaskStep DEF Objects
<1>3. CASE p \in chained
  <2>1. /\ life' = [life EXCEPT ![p] = "dying"]
        /\ workerQueue' = Append(workerQueue, RemoveObjectTask(p))
        /\ networkQueue' = Append(networkQueue, <<"delete", p>>)
        /\ apiAt' = <<"destroy", p>>
    BY <1>3 DEF DestroyPusher, WithdrawSink, DeleteStreams
  <2>2. LifeOK' /\ Gone(p)' /\ \A s \in chained : s # p => life'[s] = life[s]
    BY <2>1 DEF SessionInv, SinkInv, LifeOK, Gone, Objects, ObjectInv
  <2>3. \A s \in chained : (Gone(s) => Gone(s)') /\ (Alive(s)' => Alive(s))
    BY <2>2 DEF Gone, Alive
  <2>4. StartInv'
    BY <1>1, StartTask DEF SessionInv
  <2>5. ObjectInv'
    <3>1. workerQueue' = workerQueue \o <<RemoveObjectTask(p)>>
      BY <2>1, AppendIsPost DEF SessionInv, SinkInv, ObjectInv
    <3> QED
      BY <1>1, <1>3, <2>2, <3>1, ObjectWithdrawn DEF SessionInv, SinkInv
  <2>6. NetworkOK'
    <3>1. /\ IsQueue(networkQueue')
          /\ Tasks(networkQueue') = Tasks(networkQueue) \cup {<<"delete", p>>}
      BY <2>1, AppendFacts, TasksAfter DEF SessionInv, SinkInv, NetworkOK
    <3>2. \A task \in Tasks(networkQueue') :
            /\ task[1] \in {"frame", "create", "delete"}
            /\ task[1] # "frame" => task[2] \in chained
            /\ task[1] = "delete" => Gone(task[2])'
      BY <1>3, <2>2, <2>3, <3>1 DEF SessionInv, SinkInv, NetworkOK
    <3> QED
      BY <1>1, <3>1, <3>2 DEF NetworkOK, Tasks
  <2>7. ApiOK'
    BY <1>1, <1>3, <2>1, <2>2 DEF ApiOK
  <2>8. WorkerOK' /\ RequestsOK' /\ StreamInv'
    BY <1>1, <2>3 DEF SessionInv, SinkInv, WorkerOK, RequestsOK, StreamInv
  <2> QED
    BY <2>2, <2>4, <2>5, <2>6, <2>7, <2>8 DEF SessionInv, SinkInv
<1> QED
  BY <1>2, <1>3

\* The streams are deleted, and the pusher ends.
LEMMA FinishDestroyStep ==
  ASSUME SessionInv, NEW p \in Pushers, FinishDestroy(p)
  PROVE  SessionInv'
<1>1. /\ UNCHANGED <<apiQueue, chained, async_objs, workerQueue, networkQueue,
                     workerAt, request_list, pc>>
      /\ apiAt = <<"destroyed", p>> /\ apiAt' = << >>
      /\ life' = [life EXCEPT ![p] = "dead"]
  BY DEF FinishDestroy, httpVars
<1>2. p \in chained /\ Gone(p)
  BY <1>1 DEF SessionInv, SinkInv, ApiOK
<1>3. LifeOK' /\ Gone(p)' /\ \A o \in Objects : o # p => life'[o] = life[o]
  BY <1>1 DEF SessionInv, SinkInv, LifeOK, Objects, Gone
<1>4. \A s \in Pushers : (Gone(s) <=> Gone(s)') /\ (Alive(s) <=> Alive(s)')
  BY <1>2, <1>3 DEF Gone, Alive, Objects
<1>5. chained \subseteq Pushers
  BY DEF SessionInv, SinkInv, ObjectInv
<1>6. StartInv'
  BY <1>1, <1>4, StartFrame DEF SessionInv
<1>7. ObjectInv'
  <2>1. \A s \in chained : life'[s] = life[s] \/ (Gone(s) /\ Gone(s)')
    BY <1>2, <1>3, <1>5 DEF Objects
  <2> QED
    BY <1>1, <2>1, ObjectFrame DEF SessionInv, SinkInv
<1>8. NetworkOK'
  BY <1>1, <1>4, <1>5 DEF SessionInv, SinkInv, NetworkOK, Tasks
<1>9. ApiOK'
  BY <1>1 DEF ApiOK
<1>10. WorkerOK' /\ RequestsOK' /\ StreamInv'
  BY <1>1, <1>4, <1>5 DEF SessionInv, SinkInv, WorkerOK, RequestsOK, StreamInv
<1> QED
  BY <1>3, <1>6, <1>7, <1>8, <1>9, <1>10 DEF SessionInv, SinkInv

\* The tasks of the devices.
LEMMA DeviceTaskStep ==
  ASSUME SessionInv, DeviceTask
  PROVE  SessionInv'
<1>1. CASE Crash("device")
  BY <1>1, CrashStep
<1>2. CASE ~Crash("device")
  <2>1. /\ apiQueue # << >> /\ apiQueue' = Tail(apiQueue)
        /\ UNCHANGED <<chained, async_objs, workerQueue, networkQueue, apiAt,
                       workerAt, request_list, pc>>
        /\ Subject \in Cameras \cup Mics
    BY <1>2 DEF DeviceTask, httpVars, sessionVars
  <2>2. UNCHANGED life \/ life' = [life EXCEPT ![Subject] = "dead"]
    BY <1>2 DEF DeviceTask, StartCamera, StartMic, StopCamera, StopMic, DestroyDevice,
                ChangeConsumers
  <2>3. Subject \in Objects \ chained
    BY <2>1, SessionAssumption DEF SessionInv, SinkInv, ObjectInv, Objects
  <2> QED
    BY <2>1, <2>2, <2>3, TaskStep
<1> QED
  BY <1>1, <1>2

-----------------------------------------------------------------------------
(* The steps of the capture, encoder, network, worker and http threads.    *)

\* Frames to draw are posted, whoever delivers a frame.
LEMMA DeliverStep ==
  ASSUME SessionInv, NEW d, Deliver(d), StartInv'
  PROVE  SessionInv'
<1> DEFINE drawn == {[op |-> "Render", obj |-> v] : v \in Listeners(d) \cap Previews}
<1>1. UNCHANGED <<life, chained, async_objs, networkQueue, apiAt, workerAt, request_list,
                  pc>>
  BY DEF Deliver
<1>2. IsQueue(SetToSeq(drawn)) /\ \A task \in Tasks(SetToSeq(drawn)) : task.op = "Render"
  <2> DEFINE seen == Listeners(d) \cap Previews
             draw == [v \in seen |-> [op |-> "Render", obj |-> v]]
  <2>1. IsFiniteSet(seen)
    BY SessionAssumption, FS_Subset
  <2>2. draw \in [seen -> drawn] /\ \A t \in drawn : \E v \in seen : draw[v] = t
    OBVIOUS
  <2>3. IsFiniteSet(drawn)
    <3> HIDE DEF draw, seen, drawn
    <3> QED
      BY <2>1, <2>2, ImageFinite
  <2>4. \A task \in drawn : task.op = "Render"
    OBVIOUS
  <2> HIDE DEF drawn
  <2> QED
    BY <2>3, <2>4, SetToSeqFacts
<1>3. ObjectInv'
  <2>1. workerQueue' = workerQueue \o SetToSeq(drawn)
    BY DEF Deliver
  <2> HIDE DEF drawn
  <2> QED
    BY <1>1, <1>2, <2>1, ObjectPost DEF SessionInv, SinkInv
<1>4. LifeOK' /\ NetworkOK' /\ ApiOK' /\ WorkerOK' /\ RequestsOK' /\ StreamInv'
  BY <1>1 DEF SessionInv, SinkInv, LifeOK, NetworkOK, ApiOK, WorkerOK, RequestsOK,
              StreamInv, Gone, Alive, Tasks
<1> QED
  BY <1>3, <1>4 DEF SessionInv, SinkInv

\* The frames of a camera, on the api thread.
LEMMA DeliverVideoStep ==
  ASSUME SessionInv, DeliverVideo
  PROVE  SessionInv'
<1>1. ASSUME Deliver(Subject), apiQueue' = Tail(apiQueue) PROVE SessionInv'
  <2>1. apiQueue # << >>
    BY DEF DeliverVideo, ApiTask
  <2>2. StartInv'
    BY <1>1, <2>1, StartTask DEF SessionInv
  <2> QED
    BY <1>1, <2>2, DeliverStep
<1> QED
  BY <1>1, CrashStep DEF DeliverVideo

\* Those of a microphone, on the capture thread.
LEMMA CaptureAudioStep ==
  ASSUME SessionInv, NEW mic \in Mics, CaptureAudio(mic)
  PROVE  SessionInv'
<1>1. ASSUME Deliver(mic), UNCHANGED apiQueue PROVE SessionInv'
  <2>1. UNCHANGED life
    BY <1>1 DEF Deliver
  <2>2. StartInv'
    BY <1>1, <2>1, StartFrame DEF SessionInv, Alive
  <2> QED
    BY <1>1, <2>2, DeliverStep
<1> QED
  BY <1>1, CrashStep DEF CaptureAudio

\* A captured picture is posted to the api thread.
LEMMA CaptureCameraStep ==
  ASSUME SessionInv, NEW cam \in Cameras, CaptureCamera(cam)
  PROVE  SessionInv'
<1>1. UNCHANGED <<life, chained, async_objs, workerQueue, networkQueue, apiAt, workerAt,
                  request_list, pc>>
  BY DEF CaptureCamera, CaptureVideo, httpVars, sessionVars
<1>2. StartInv'
  <2>1. apiQueue' = apiQueue \o <<<<"Frame", cam>>>>
    BY AppendIsPost DEF CaptureCamera, CaptureVideo, SessionInv, StartInv
  <2>2. IsQueue(<<<<"Frame", cam>>>>) /\ NoStarts(<<<<"Frame", cam>>>>)
    BY ListedTasks DEF NoStarts, IsStart
  <2> QED
    BY <1>1, <2>1, <2>2, StartAfterPost DEF SessionInv, Alive
<1>3. SinkInv'
  BY <1>1, SinkFrame DEF SessionInv, SinkInv, LifeOK
<1> QED
  BY <1>2, <1>3 DEF SessionInv

\* Neither the api thread's tasks nor a sink is touched, only its connection.
LEMMA ConnectionStep ==
  ASSUME SessionInv,
         UNCHANGED <<life, apiQueue, chained, async_objs, workerQueue>>,
         NetworkOK', ApiOK', WorkerOK', RequestsOK', StreamInv'
  PROVE  SessionInv'
<1>1. StartInv'
  BY StartFrame DEF SessionInv, Alive
<1>2. ObjectInv'
  BY ObjectFrame DEF SessionInv, SinkInv
<1> QED
  BY <1>1, <1>2 DEF SessionInv, SinkInv, LifeOK

\* An encoder thread hands a frame to the network thread.
LEMMA EncodeStep ==
  ASSUME SessionInv, NEW p \in Pushers, Encode(p)
  PROVE  SessionInv'
<1>1. ASSUME ~Crash("encoder") PROVE SessionInv'
  <2>1. /\ UNCHANGED <<life, apiQueue, chained, async_objs, workerQueue, apiAt, workerAt,
                       request_list, pc>>
        /\ networkQueue' = Append(networkQueue, <<"frame", p>>)
    BY <1>1 DEF Encode, deviceVars, httpVars
  <2>2. /\ IsQueue(networkQueue')
        /\ Tasks(networkQueue') = Tasks(networkQueue) \cup {<<"frame", p>>}
    BY <2>1, AppendFacts, TasksAfter DEF SessionInv, SinkInv, NetworkOK
  <2>3. \A task \in Tasks(networkQueue') :
          /\ task[1] \in {"frame", "create", "delete"}
          /\ task[1] # "frame" => task[2] \in chained
          /\ task[1] = "delete" => Gone(task[2])
    BY <2>2 DEF SessionInv, SinkInv, NetworkOK
  <2>4. NetworkOK'
    BY <2>1, <2>2, <2>3 DEF NetworkOK, Tasks, Gone
  <2>5. ApiOK' /\ WorkerOK' /\ RequestsOK' /\ StreamInv'
    BY <2>1 DEF SessionInv, SinkInv, ApiOK, WorkerOK, RequestsOK, StreamInv, Gone, Alive
  <2> QED
    BY <2>1, <2>4, <2>5, ConnectionStep
<1> QED
  BY <1>1, CrashStep

\* The network thread makes or deletes the streams of a connection.
LEMMA NetworkTaskStep ==
  ASSUME SessionInv, NetworkTask
  PROVE  SessionInv'
<1> DEFINE op == Head(networkQueue)[1]
           p == Head(networkQueue)[2]
<1>1. ASSUME ~Crash("frame") PROVE SessionInv'
  <2>1. /\ UNCHANGED <<life, apiQueue, chained, async_objs, workerQueue, request_list>>
        /\ networkQueue # << >> /\ networkQueue' = Tail(networkQueue)
        /\ pc' = IF op = "frame" THEN pc ELSE [pc EXCEPT ![p].streams = (op = "create")]
        /\ workerAt' = IF op = "create" THEN <<"created", p>> ELSE workerAt
        /\ apiAt' = IF op = "delete" THEN <<"destroyed", p>> ELSE apiAt
    BY <1>1 DEF NetworkTask, deviceVars, httpVars
  <2>2. /\ IsQueue(networkQueue')
        /\ Tasks(networkQueue) = Tasks(networkQueue') \cup {Head(networkQueue)}
    BY <2>1, TailFacts, TasksAfter DEF SessionInv, SinkInv, NetworkOK
  <2>3. /\ op \in {"frame", "create", "delete"}
        /\ op # "frame" => p \in chained
        /\ op = "delete" => Gone(p)
    BY <2>2 DEF SessionInv, SinkInv, NetworkOK
  <2>4. NetworkOK'
    BY <2>1, <2>2 DEF SessionInv, SinkInv, NetworkOK, Tasks, Gone
  <2> HIDE DEF op, p
  <2>5. ApiOK'
    BY <2>1, <2>3 DEF SessionInv, SinkInv, ApiOK, Gone
  <2>6. WorkerOK' /\ RequestsOK'
    BY <2>1, <2>3 DEF SessionInv, SinkInv, WorkerOK, RequestsOK
  <2>7. StreamInv'
    <3>1. CASE op = "frame"
      BY <2>1, <3>1 DEF SessionInv, SinkInv, StreamInv, Alive
    <3>2. CASE op # "frame"
      <4> DEFINE made == (op = "create")
      <4>1. made \in BOOLEAN /\ (made \/ Gone(p)) /\ (made \/ UNCHANGED workerAt)
        BY <2>1, <2>3, <3>2
      <4>2. p \in Pushers /\ pc' = [pc EXCEPT ![p].streams = made]
        BY <2>1, <2>3, <3>2 DEF SessionInv, SinkInv, ObjectInv
      <4>3. workerAt' \in {workerAt, <<"created", p>>}
        BY <2>1
      <4> HIDE DEF made
      <4>4. /\ pc' \in Connections
            /\ pc'[p].streams = made
            /\ \A s \in Pushers : /\ pc'[s].gathering = pc[s].gathering
                                  /\ pc'[s].state = pc[s].state
                                  /\ s # p => pc'[s].streams = pc[s].streams
        BY <4>1, <4>2 DEF SessionInv, SinkInv, StreamInv, Connections
      <4>5. ASSUME NEW s \in chained, Alive(s),
                   pc[s].gathering \/ workerAt' = <<"created", s>>
            PROVE  pc'[s].streams
        <5>1. CASE s = p
          BY <4>1, <4>4, <4>5, <5>1 DEF Alive, Gone
        <5>2. CASE s # p
          <6>1. s \in Pushers
            BY DEF SessionInv, SinkInv, ObjectInv
          <6>2. pc[s].streams
            BY <4>3, <4>5, <5>2 DEF SessionInv, SinkInv, StreamInv
          <6> QED
            BY <4>4, <5>2, <6>1, <6>2
        <5> QED
          BY <5>1, <5>2
      <4>6. \A s \in chained : Alive(s)' <=> Alive(s)
        BY <2>1 DEF Alive
      <4>7. chained' = chained /\ chained \subseteq Pushers
        BY <2>1 DEF SessionInv, SinkInv, ObjectInv
      <4> QED
        BY <4>4, <4>5, <4>6, <4>7 DEF SessionInv, SinkInv, StreamInv
    <3> QED
      BY <3>1, <3>2
  <2> QED
    BY <2>1, <2>4, <2>5, <2>6, <2>7, ConnectionStep
<1> QED
  BY <1>1, CrashStep

\* ICE reports a state.
LEMMA IceStateStep ==
  ASSUME SessionInv, NEW p \in Pushers, NEW state \in IceStates, IceState(p, state)
  PROVE  SessionInv'
<1>1. /\ UNCHANGED <<life, apiQueue, chained, async_objs, workerQueue, networkQueue,
                     apiAt, workerAt, request_list>>
      /\ pc[p].gathering
      /\ pc' = [pc EXCEPT ![p].state = state]
  BY DEF IceState, deviceVars, httpVars
<1>2. StreamInv'
  BY <1>1 DEF SessionInv, SinkInv, StreamInv, Connections, Alive
<1>3. NetworkOK' /\ ApiOK' /\ WorkerOK' /\ RequestsOK'
  BY <1>1 DEF SessionInv, SinkInv, NetworkOK, ApiOK, WorkerOK, RequestsOK, Gone, Tasks
<1> QED
  BY <1>1, <1>2, <1>3, ConnectionStep

\* The worker thread announces or withdraws a sink.
LEMMA WorkerChangesObjectsStep ==
  ASSUME SessionInv, WorkerChangesObjects
  PROVE  SessionInv'
<1>1. UNCHANGED <<life, apiQueue, chained, networkQueue, apiAt, workerAt, request_list, pc>>
  BY DEF WorkerChangesObjects, ChangeObjects, deviceVars, sessionVars
<1>2. ObjectInv'
  BY <1>1, ObjectTake DEF WorkerChangesObjects, ChangeObjects, SessionInv, SinkInv
<1>3. StartInv'
  BY <1>1, StartFrame DEF SessionInv, Alive
<1>4. LifeOK' /\ NetworkOK' /\ ApiOK' /\ WorkerOK' /\ RequestsOK' /\ StreamInv'
  BY <1>1 DEF SessionInv, SinkInv, LifeOK, NetworkOK, ApiOK, WorkerOK, RequestsOK,
              StreamInv, Gone, Alive, Tasks
<1> QED
  BY <1>2, <1>3, <1>4 DEF SessionInv, SinkInv

\* A reply is delivered: one for a sink that is known may ask for streams.
LEMMA DeliverReplyStep ==
  ASSUME SessionInv, DeliverReply
  PROVE  SessionInv'
<1> DEFINE p == Head(workerQueue).obj
<1>1. ASSUME ~Crash("reply") PROVE SessionInv'
  <2>1. /\ UNCHANGED <<life, apiQueue, chained, async_objs, apiAt, request_list, pc>>
        /\ workerQueue # << >> /\ workerQueue' = Tail(workerQueue)
        /\ Head(workerQueue).op = "Reply"
        /\ \/ UNCHANGED <<networkQueue, workerAt>>
           \/ /\ p \in async_objs
              /\ networkQueue' = Append(networkQueue, <<"create", p>>)
              /\ workerAt' = <<"create", p>>
    BY <1>1 DEF DeliverReply, WorkerTask, HandleReply, CreateStreams, deviceVars
  <2>2. StartInv'
    BY <2>1, StartFrame DEF SessionInv, Alive
  <2>3. ObjectInv'
    BY <2>1, ObjectTake DEF SessionInv, SinkInv
  <2>4. LifeOK' /\ ApiOK' /\ RequestsOK'
    BY <2>1 DEF SessionInv, SinkInv, LifeOK, ApiOK, RequestsOK, Gone
  <2>5. NetworkOK' /\ WorkerOK' /\ StreamInv'
    <3>1. CASE UNCHANGED <<networkQueue, workerAt>>
      BY <2>1, <3>1 DEF SessionInv, SinkInv, NetworkOK, WorkerOK, StreamInv, Gone, Alive, Tasks
    <3>2. CASE /\ p \in async_objs
               /\ networkQueue' = Append(networkQueue, <<"create", p>>)
               /\ workerAt' = <<"create", p>>
      <4> HIDE DEF p
      <4>1. p \in chained
        BY <3>2 DEF SessionInv, SinkInv, ObjectInv
      <4>2. /\ IsQueue(networkQueue')
            /\ Tasks(networkQueue') = Tasks(networkQueue) \cup {<<"create", p>>}
        BY <3>2, AppendFacts, TasksAfter DEF SessionInv, SinkInv, NetworkOK
      <4>3. \A task \in Tasks(networkQueue') :
              /\ task[1] \in {"frame", "create", "delete"}
              /\ task[1] # "frame" => task[2] \in chained
              /\ task[1] = "delete" => Gone(task[2])
        BY <4>1, <4>2 DEF SessionInv, SinkInv, NetworkOK
      <4>4. NetworkOK'
        BY <2>1, <4>2, <4>3 DEF NetworkOK, Tasks, Gone
      <4>5. WorkerOK'
        BY <2>1, <3>2, <4>1 DEF WorkerOK
      <4>6. StreamInv'
        BY <2>1, <3>2 DEF SessionInv, SinkInv, StreamInv, Alive
      <4> QED
        BY <4>4, <4>5, <4>6
    <3> QED
      BY <2>1, <3>1, <3>2
  <2> QED
    BY <2>2, <2>3, <2>4, <2>5 DEF SessionInv, SinkInv
<1> QED
  BY <1>1, CrashStep

\* The handler goes on: ICE begins with the streams there, and the answer is
\* posted.
LEMMA SendAnswerStep ==
  ASSUME SessionInv, NEW p \in Pushers, SendAnswer(p)
  PROVE  SessionInv'
<1>1. ASSUME ~Crash("reply") PROVE SessionInv'
  <2>1. /\ UNCHANGED <<life, apiQueue, chained, async_objs, workerQueue, networkQueue, apiAt>>
        /\ \/ /\ workerAt = <<"created", p>> /\ Alive(p) /\ workerAt' = <<"posted", p>>
              /\ pc' = [pc EXCEPT ![p].gathering = TRUE] /\ UNCHANGED request_list
           \/ /\ workerAt = <<"posted", p>> /\ workerAt' = << >>
              /\ request_list' = request_list \cup {<<p, "answer">>} /\ UNCHANGED pc
    BY <1>1 DEF SendAnswer, AddHandle, Remember, deviceVars
  <2>2. p \in chained
    BY <2>1 DEF SessionInv, SinkInv, WorkerOK
  <2>3. NetworkOK' /\ ApiOK'
    BY <2>1 DEF SessionInv, SinkInv, NetworkOK, ApiOK, Gone, Tasks
  <2>4. WorkerOK'
    BY <2>1, <2>2 DEF WorkerOK
  <2>5. RequestsOK'
    BY <2>1, <2>2 DEF SessionInv, SinkInv, RequestsOK, Owner
  <2>6. \A s : Alive(s)' <=> Alive(s)
    BY <2>1 DEF Alive
  <2>7. StreamInv'
    <3>1. CASE /\ workerAt = <<"created", p>> /\ Alive(p) /\ workerAt' = <<"posted", p>>
               /\ pc' = [pc EXCEPT ![p].gathering = TRUE]
      <4>1. /\ pc' \in Connections
            /\ pc'[p].gathering
            /\ \A s \in Pushers : /\ pc'[s].streams = pc[s].streams
                                  /\ pc'[s].state = pc[s].state
                                  /\ s # p => pc'[s].gathering = pc[s].gathering
        BY <3>1 DEF SessionInv, SinkInv, StreamInv, Connections
      <4>2. pc[p].streams
        BY <2>2, <3>1 DEF SessionInv, SinkInv, StreamInv
      <4>3. \A s : workerAt' # <<"created", s>>
        BY <3>1
      <4>4. chained' = chained /\ chained \subseteq Pushers
        BY <2>1 DEF SessionInv, SinkInv, ObjectInv
      <4>5. \A s \in Pushers : /\ pc'[s].gathering => s \in chained'
                               /\ pc'[s].state # "new" => pc'[s].gathering
        BY <2>2, <4>1, <4>4 DEF SessionInv, SinkInv, StreamInv
      <4>6. ASSUME NEW s \in chained, Alive(s), pc'[s].gathering PROVE pc'[s].streams
        BY <4>1, <4>2, <4>4, <4>6 DEF SessionInv, SinkInv, StreamInv
      <4>7. \A s \in chained' :
              Alive(s)' /\ (pc'[s].gathering \/ workerAt' = <<"created", s>>)
                => pc'[s].streams
        BY <2>6, <4>3, <4>4, <4>6
      <4> QED
        BY <4>1, <4>5, <4>7 DEF StreamInv
    <3>2. CASE workerAt' = << >> /\ UNCHANGED pc
      <4>1. \A s : workerAt' # <<"created", s>>
        BY <3>2
      <4>2. chained' = chained /\ pc' = pc
        BY <2>1, <3>2
      <4> QED
        BY <2>6, <4>1, <4>2 DEF SessionInv, SinkInv, StreamInv
    <3> QED
      BY <2>1, <3>1, <3>2
  <2> QED
    BY <2>1, <2>3, <2>4, <2>5, <2>7, ConnectionStep
<1> QED
  BY <1>1, CrashStep

\* A frame is drawn.
LEMMA RenderStep ==
  ASSUME SessionInv, Render
  PROVE  SessionInv'
<1>1. ASSUME ~Crash("render") PROVE SessionInv'
  <2>1. /\ UNCHANGED <<life, apiQueue, chained, async_objs, networkQueue, apiAt, workerAt,
                       request_list, pc>>
        /\ workerQueue # << >> /\ workerQueue' = Tail(workerQueue)
        /\ Head(workerQueue).op = "Render"
    BY <1>1 DEF Render, WorkerTask, deviceVars
  <2>2. StartInv'
    BY <2>1, StartFrame DEF SessionInv, Alive
  <2>3. ObjectInv'
    BY <2>1, ObjectTake DEF SessionInv, SinkInv
  <2>4. LifeOK' /\ NetworkOK' /\ ApiOK' /\ WorkerOK' /\ RequestsOK' /\ StreamInv'
    BY <2>1 DEF SessionInv, SinkInv, LifeOK, NetworkOK, ApiOK, WorkerOK, RequestsOK,
                StreamInv, Gone, Alive, Tasks
  <2> QED
    BY <2>2, <2>3, <2>4 DEF SessionInv, SinkInv
<1> QED
  BY <1>1, CrashStep

\* The http thread posts the reply of a request that is in the list.
LEMMA HttpThreadStep ==
  ASSUME SessionInv, HttpThread
  PROVE  SessionInv'
<1>1. /\ UNCHANGED <<life, apiQueue, chained, async_objs, networkQueue, apiAt, workerAt, pc>>
      /\ request_list' \subseteq request_list
      /\ \/ UNCHANGED workerQueue
         \/ /\ reading[1] \in request_list
            /\ workerQueue' = Append(workerQueue, ReplyTask(reading))
  BY DEF HttpThread, HttpNext, ReadMessage, PostReply, TransferEnds, deviceVars, sessionVars
<1>2. StartInv'
  BY <1>1, StartFrame DEF SessionInv, Alive
<1>3. ObjectInv'
  <2>1. CASE UNCHANGED workerQueue
    BY <1>1, <2>1, ObjectFrame DEF SessionInv, SinkInv
  <2>2. CASE /\ reading[1] \in request_list
             /\ workerQueue' = Append(workerQueue, ReplyTask(reading))
    <3> DEFINE task == ReplyTask(reading)
    <3>1. task.op = "Reply" /\ task.obj \in chained
      BY <2>2 DEF ReplyTask, SessionInv, SinkInv, RequestsOK
    <3> HIDE DEF task
    <3>2. workerQueue' = workerQueue \o <<task>>
      BY <2>2, AppendIsPost DEF SessionInv, SinkInv, ObjectInv, task
    <3>3. IsQueue(<<task>>) /\ Tasks(<<task>>) = {task}
      BY ListedTasks
    <3> QED
      BY <1>1, <3>1, <3>2, <3>3, ObjectPost DEF SessionInv, SinkInv
  <2> QED
    BY <1>1, <2>1, <2>2
<1>4. LifeOK' /\ NetworkOK' /\ ApiOK' /\ WorkerOK' /\ RequestsOK' /\ StreamInv'
  BY <1>1 DEF SessionInv, SinkInv, LifeOK, NetworkOK, ApiOK, WorkerOK, RequestsOK,
              StreamInv, Gone, Alive, Tasks
<1> QED
  BY <1>2, <1>3, <1>4 DEF SessionInv, SinkInv

-----------------------------------------------------------------------------
(* The theorems.                                                           *)

\* Every step keeps the invariant.
LEMMA StepInv == SessionInv /\ [Next]_vars => SessionInv'
<1> SUFFICES ASSUME SessionInv, [Next]_vars PROVE SessionInv'
  OBVIOUS
<1>1. CASE Application
  BY <1>1, ClickStartDevicesStep, ClickReleaseStep, CreateStep
     DEF Application, ClickPush, ClickPreview
<1>2. CASE ApiThread
  BY <1>2, StartPushStep, PostOfferStep, StopPushStep, DestroyPusherStep,
     FinishDestroyStep, PreviewStep, DeviceTaskStep, DeliverVideoStep DEF ApiThread
<1>3. CASE WorkerThread
  BY <1>3, WorkerChangesObjectsStep, DeliverReplyStep, SendAnswerStep, RenderStep
     DEF WorkerThread
<1>4. CASE NetworkTask \/ HttpThread
  BY <1>4, NetworkTaskStep, HttpThreadStep
<1>5. CASE (\E mic \in Mics : CaptureAudio(mic)) \/ (\E cam \in Cameras : CaptureCamera(cam))
  BY <1>5, CaptureAudioStep, CaptureCameraStep
<1>6. CASE \/ \E p \in Pushers : Encode(p)
           \/ \E p \in Pushers, state \in IceStates : IceState(p, state)
  BY <1>6, EncodeStep, IceStateStep
<1>7. CASE UNCHANGED vars
  <2>1. UNCHANGED <<life, apiQueue, chained, async_objs, workerQueue, networkQueue, apiAt,
                    workerAt, request_list, pc>>
    BY <1>7 DEF vars, deviceVars, httpVars, sessionVars
  <2>2. StartInv'
    BY <2>1, StartFrame DEF SessionInv, Alive
  <2> QED
    BY <2>1, <2>2, SinkFrame DEF SessionInv, SinkInv, LifeOK
<1> QED
  BY <1>1, <1>2, <1>3, <1>4, <1>5, <1>6, <1>7 DEF Next

\* What the invariant says of the three properties.
LEMMA InvImplies == SessionInv => StreamsBeforeMedia /\ LiveRepliesFound /\ DeadObjectsLeave
<1> SUFFICES ASSUME SessionInv PROVE StreamsBeforeMedia /\ LiveRepliesFound /\ DeadObjectsLeave
  OBVIOUS
<1>1. IsQueue(workerQueue) /\ DOMAIN workerQueue = 1..Len(workerQueue)
  BY QueueBasics DEF SessionInv, SinkInv, ObjectInv
<1>2. StreamsBeforeMedia
  BY DEF SessionInv, SinkInv, StreamInv, StreamsBeforeMedia
<1>3. LiveRepliesFound
  <2> SUFFICES ASSUME NEW i \in 1..Len(workerQueue), workerQueue[i].op = "Reply",
                      Alive(workerQueue[i].obj), workerQueue[i].obj \notin async_objs
               PROVE  \E j \in 1..(i - 1) : workerQueue[j] = AddObjectTask(workerQueue[i].obj)
    BY <1>1 DEF LiveRepliesFound
  <2>1. OfSink(workerQueue[i])
    BY DEF SessionInv, SinkInv, ObjectInv, Tasks
  <2>2. workerQueue[i].obj \in chained
    BY <2>1, TaskFacts DEF OfSink
  <2> QED
    BY <2>2 DEF SessionInv, SinkInv, ObjectInv, Found
<1>4. DeadObjectsLeave
  <2> SUFFICES ASSUME NEW p \in Pushers, Gone(p)
               PROVE  /\ p \in async_objs => RemoveObjectTask(p) \in Tasks(workerQueue)
                      /\ \A i \in 1..Len(workerQueue) : workerQueue[i] = AddObjectTask(p) =>
                           \E j \in (i + 1)..Len(workerQueue) :
                              workerQueue[j] = RemoveObjectTask(p)
    BY <1>1, QueueBasics DEF DeadObjectsLeave, Gone, Tasks
  <2>1. CASE p \in chained
    BY <2>1 DEF SessionInv, SinkInv, ObjectInv, Leaves
  <2>2. CASE p \notin chained
    <3>1. p \notin async_objs
      BY <2>2 DEF SessionInv, SinkInv, ObjectInv
    <3>2. ASSUME NEW i \in 1..Len(workerQueue), workerQueue[i] = AddObjectTask(p)
          PROVE  FALSE
      <4>1. OfSink(AddObjectTask(p))
        BY <3>2 DEF SessionInv, SinkInv, ObjectInv, Tasks
      <4> QED
        BY <2>2, <4>1, TaskFacts DEF OfSink
    <3> QED
      BY <3>1, <3>2
  <2> QED
    BY <2>1, <2>2
<1> QED
  BY <1>2, <1>3, <1>4

\* No connection of a push that lives is up before the network thread has
\* made its streams, however replies, stops and ICE interleave.
THEOREM StreamsAlwaysBeforeMedia == Spec => []StreamsBeforeMedia
<1>1. SessionInv => StreamsBeforeMedia
  BY InvImplies
<1> QED
  BY InitInv, StepInv, <1>1, PTL DEF Spec

\* The reply for a sink that lives is never dropped: the sink is in
\* async_objs_, or its announcement is in front of the reply.
THEOREM LiveRepliesAlwaysFound == Spec => []LiveRepliesFound
<1>1. SessionInv => LiveRepliesFound
  BY InvImplies
<1> QED
  BY InitInv, StepInv, <1>1, PTL DEF Spec

\* A sink that is gone is in async_objs_ only as long as its withdrawal is
\* queued, and no announcement of it is left behind that.
THEOREM DeadObjectsAlwaysLeave == Spec => []DeadObjectsLeave
<1>1. SessionInv => DeadObjectsLeave
  BY InvImplies
<1> QED
  BY InitInv, StepInv, <1>1, PTL DEF Spec

-----------------------------------------------------------------------------
(* What the api thread's tasks say of the application's objects.  A        *)
(* consumer is created and started once, and released once: Stop, Destroy. *)

Consumers == Pushers \cup Previews

StartOf(o) == <<"Start", o>>
StopOf(o) == <<"Stop", o>>
DestroyOf(o) == <<"Destroy", o>>

\* Tasks that name different operations or objects differ.
LEMMA TaskNames ==
  /\ \A o : /\ StartOf(o)[1] = "Start" /\ StartOf(o)[2] = o
            /\ StopOf(o)[1] = "Stop" /\ StopOf(o)[2] = o
            /\ DestroyOf(o)[1] = "Destroy" /\ DestroyOf(o)[2] = o
  /\ \A c, o : /\ AddConsumerTask(c, o)[1] = "Add" /\ AddConsumerTask(c, o)[2] = c
               /\ AddConsumerTask(c, o)[3] = o
               /\ RemoveConsumerTask(c, o)[1] = "Remove" /\ RemoveConsumerTask(c, o)[2] = c
               /\ RemoveConsumerTask(c, o)[3] = o
BY DEF StartOf, StopOf, DestroyOf, AddConsumerTask, RemoveConsumerTask

\* The api thread takes a task and posts r.
Takes(r) == apiQueue # << >> /\ IsQueue(r) /\ apiQueue' = Tail(apiQueue) \o r

\* What is queued then, and in which order.
LEMMA TakesFacts ==
  ASSUME IsQueue(apiQueue), NEW r, Takes(r)
  PROVE  /\ IsQueue(apiQueue') /\ Head(apiQueue) \in Tasks(apiQueue)
         /\ Tasks(apiQueue') \subseteq Tasks(apiQueue) \cup Tasks(r)
         /\ Tasks(r) \subseteq Tasks(apiQueue')
         /\ \A t : t \in Tasks(apiQueue) /\ t # Head(apiQueue) => t \in Tasks(apiQueue')
         /\ \A t : Once(apiQueue, t) /\ t \notin Tasks(r) =>
               Once(apiQueue', t) /\ (Head(apiQueue) = t => t \notin Tasks(apiQueue'))
         /\ \A t : t \notin Tasks(apiQueue) /\ Once(r, t) => Once(apiQueue', t)
         /\ \A s, t : Ahead(apiQueue, s, t) /\ s \notin Tasks(r) /\ Ahead(r, s, t) =>
               Ahead(apiQueue', s, t)
         /\ \A s, t : Ahead(apiQueue, s, t) /\ t \notin Tasks(apiQueue) /\ Ahead(r, s, t) =>
               Ahead(apiQueue', s, t)
         /\ \A s, t : Ahead(apiQueue, s, t) /\ Head(apiQueue) = t => s \notin Tasks(apiQueue)
<1> DEFINE q == apiQueue
           left == Tail(apiQueue)
<1>1. /\ IsQueue(left) /\ IsQueue(r) /\ apiQueue' = left \o r
      /\ Tasks(q) = Tasks(left) \cup {Head(q)}
  BY TailFacts, TasksAfter DEF Takes
<1>2. q # << >>
  BY DEF Takes
<1>3. /\ \A t : Once(q, t) => Once(left, t) /\ (Head(q) = t => t \notin Tasks(left))
      /\ \A s, t : Ahead(q, s, t) =>
             Ahead(left, s, t) /\ (Head(q) = t => s \notin Tasks(q))
  BY <1>2, OrderTail
<1> HIDE DEF left
<1>4. IsQueue(left \o r) /\ Tasks(left \o r) = Tasks(left) \cup Tasks(r)
  BY <1>1, ConcatFacts, TasksAfter
<1>5. /\ \A t : Once(left, t) /\ Once(r, t) /\ (t \notin Tasks(left) \/ t \notin Tasks(r))
                      => Once(left \o r, t)
      /\ \A s, t : Ahead(left, s, t) /\ Ahead(r, s, t) /\ (t \notin Tasks(left) \/ s \notin Tasks(r))
                      => Ahead(left \o r, s, t)
  BY <1>1, OrderPost
<1>6. \A t : t \notin Tasks(r) => Once(r, t)
  BY DEF Once, Tasks
<1>7. \A t : t \notin Tasks(q) => Once(q, t)
  BY DEF Once, Tasks
<1> HIDE DEF q
<1>8. \A t : Once(q, t) /\ t \notin Tasks(r) =>
               Once(left \o r, t) /\ (Head(q) = t => t \notin Tasks(left \o r))
  BY <1>3, <1>4, <1>5, <1>6
<1>9. \A t : t \notin Tasks(q) /\ Once(r, t) => Once(left \o r, t)
  BY <1>1, <1>3, <1>5, <1>7
<1>10. \A s, t : Ahead(q, s, t) /\ s \notin Tasks(r) /\ Ahead(r, s, t) => Ahead(left \o r, s, t)
  BY <1>3, <1>5
<1>11. \A s, t : Ahead(q, s, t) /\ t \notin Tasks(q) /\ Ahead(r, s, t) => Ahead(left \o r, s, t)
  BY <1>1, <1>3, <1>5
<1> QED
  BY <1>1, <1>3, <1>4, <1>8, <1>9, <1>10, <1>11 DEF q

\* At most one task that is posted is posted once, and in front of no other.
LEMMA Short ==
  /\ \A t : Once(<< >>, t)
  /\ \A s, t : Ahead(<< >>, s, t)
  /\ \A x, t : Once(<<x>>, t)
  /\ \A x, s, t : s # x \/ t # x => Ahead(<<x>>, s, t)
<1>1. Len(<< >>) = 0 /\ \A x : Len(<<x>>) = 1 /\ <<x>>[1] = x
  OBVIOUS
<1>2. 1..0 = {} /\ 1..1 = {1}
  OBVIOUS
<1> QED
  BY <1>1, <1>2 DEF Once, Ahead

\* What the form of the application holds, and who waits to be stopped.
Held(o) == form.pusher = o \/ form.preview = o
Waits(o) == Held(o) \/ StopOf(o) \in Tasks(apiQueue)

\* Start, Stop and Destroy of o are posted once, in this order.
OrderOK(o) ==
  /\ Held(o) => /\ Alive(o)
                /\ StopOf(o) \notin Tasks(apiQueue) /\ DestroyOf(o) \notin Tasks(apiQueue)
  /\ StartOf(o) \in Tasks(apiQueue) => Waits(o) /\ o \notin chained
  /\ StopOf(o) \in Tasks(apiQueue) => DestroyOf(o) \in Tasks(apiQueue)
  /\ DestroyOf(o) \in Tasks(apiQueue) => Alive(o)
  /\ Once(apiQueue, StartOf(o)) /\ Once(apiQueue, StopOf(o)) /\ Once(apiQueue, DestroyOf(o))
  /\ Ahead(apiQueue, StartOf(o), StopOf(o)) /\ Ahead(apiQueue, StopOf(o), DestroyOf(o))

\* Whoever waits to be stopped lives.
LEMMA WaitsAlive == \A o : OrderOK(o) /\ Waits(o) => Alive(o)
BY DEF OrderOK, Waits

\* A task is taken.
LEMMA OrderTake ==
  ASSUME NEW o, OrderOK(o), IsQueue(apiQueue), NEW r, Takes(r),
         StartOf(o) \notin Tasks(r), StopOf(o) \notin Tasks(r), DestroyOf(o) \notin Tasks(r),
         UNCHANGED form,
         o \in chained' => o \in chained \/ Head(apiQueue) = StartOf(o),
         Alive(o) /\ Head(apiQueue) # DestroyOf(o) => Alive(o)'
  PROVE  OrderOK(o)' /\ (Head(apiQueue) # StopOf(o) => (Waits(o)' <=> Waits(o)))
<1> DEFINE q == apiQueue
           start == StartOf(o)
           stop == StopOf(o)
           destroy == DestroyOf(o)
<1>1. start # stop /\ start # destroy /\ stop # destroy
  BY TaskNames
<1>2. \A t \in {start, stop, destroy} :
         /\ Once(q, t) => Once(q', t) /\ (Head(q) = t => t \notin Tasks(q'))
         /\ t \in Tasks(q') => t \in Tasks(q)
         /\ t \in Tasks(q) /\ t # Head(q) => t \in Tasks(q')
  <2> SUFFICES ASSUME NEW t \in {start, stop, destroy}, t \notin Tasks(r)
               PROVE /\ Once(q, t) => Once(q', t) /\ (Head(q) = t => t \notin Tasks(q'))
                     /\ t \in Tasks(q') => t \in Tasks(q)
                     /\ t \in Tasks(q) /\ t # Head(q) => t \in Tasks(q')
    OBVIOUS
  <2> QED
    BY TakesFacts
<1>3. Ahead(r, start, stop) /\ Ahead(r, stop, destroy)
  BY DEF Ahead, Tasks
<1>4. /\ Ahead(q, start, stop) => Ahead(q', start, stop) /\ (Head(q) = stop => start \notin Tasks(q))
      /\ Ahead(q, stop, destroy) => Ahead(q', stop, destroy) /\ (Head(q) = destroy => stop \notin Tasks(q))
  BY <1>3, TakesFacts
<1>5. Held(o)' <=> Held(o)
  BY DEF Held
<1> HIDE DEF start, stop, destroy, q
<1>6. /\ Held(o) => Alive(o) /\ stop \notin Tasks(q) /\ destroy \notin Tasks(q)
      /\ start \in Tasks(q) => (Held(o) \/ stop \in Tasks(q)) /\ o \notin chained
      /\ stop \in Tasks(q) => destroy \in Tasks(q)
      /\ destroy \in Tasks(q) => Alive(o)
      /\ Once(q, start) /\ Once(q, stop) /\ Once(q, destroy)
      /\ Ahead(q, start, stop) /\ Ahead(q, stop, destroy)
      /\ o \in chained' => o \in chained \/ Head(q) = start
      /\ Alive(o) /\ Head(q) # destroy => Alive(o)'
  BY DEF OrderOK, Waits, start, stop, destroy, q
<1>7. Held(o)' => Alive(o)' /\ stop \notin Tasks(q') /\ destroy \notin Tasks(q')
  <2>1. ASSUME Held(o) PROVE Head(q) # destroy
    <3>1. Head(q) \in Tasks(q)
      BY TakesFacts DEF q
    <3> QED
      BY <1>6, <2>1, <3>1
  <2> QED
    BY <1>2, <1>5, <1>6, <2>1
<1>8. start \in Tasks(q') => (Held(o)' \/ stop \in Tasks(q')) /\ o \notin chained'
  BY <1>1, <1>2, <1>4, <1>5, <1>6
<1>9. stop \in Tasks(q') => destroy \in Tasks(q')
  BY <1>1, <1>2, <1>4, <1>6
<1>10. destroy \in Tasks(q') => Alive(o)'
  BY <1>2, <1>6
<1>11. Once(q', start) /\ Once(q', stop) /\ Once(q', destroy)
  BY <1>2, <1>6
<1>12. Ahead(q', start, stop) /\ Ahead(q', stop, destroy)
  BY <1>4, <1>6
<1>13. Head(q) # stop => (stop \in Tasks(q') <=> stop \in Tasks(q))
  BY <1>2
<1> QED
  BY <1>5, <1>7, <1>8, <1>9, <1>10, <1>11, <1>12, <1>13 DEF OrderOK, Waits, start, stop, destroy, q

\* Nothing is taken: other tasks are posted.
LEMMA OrderKeep ==
  ASSUME NEW o, OrderOK(o), IsQueue(apiQueue), NEW r, IsQueue(r), apiQueue' = apiQueue \o r,
         StartOf(o) \notin Tasks(r), StopOf(o) \notin Tasks(r), DestroyOf(o) \notin Tasks(r),
         Held(o)' <=> Held(o), o \in chained' => o \in chained, Alive(o) => Alive(o)'
  PROVE  OrderOK(o)' /\ (Waits(o)' <=> Waits(o))
<1>1. Tasks(apiQueue') = Tasks(apiQueue) \cup Tasks(r)
  BY TasksAfter
<1>2. \A t : t \notin Tasks(r) => Once(r, t)
  BY DEF Once, Tasks
<1>3. \A s, t : t \notin Tasks(r) => Ahead(r, s, t)
  BY DEF Ahead, Tasks
<1>4. /\ \A t : Once(apiQueue, t) /\ t \notin Tasks(r) => Once(apiQueue', t)
      /\ \A s, t : Ahead(apiQueue, s, t) /\ s \notin Tasks(r) /\ t \notin Tasks(r)
                     => Ahead(apiQueue', s, t)
  BY <1>2, <1>3, OrderPost
<1> QED
  BY <1>1, <1>4 DEF OrderOK, Waits

-----------------------------------------------------------------------------
(* The lists of the devices.                                               *)

\* Whom a device calls, each once.
ListsOK ==
  /\ consumer_list \in [Cameras \cup Mics -> Seq(Consumers)]
  /\ \A d \in Cameras \cup Mics : NoTwins(consumer_list[d])

Listed(d, o) == o \in Tasks(consumer_list[d])

\* One that is not listed is added to the list of d.
LEMMA ListsAdd ==
  ASSUME ListsOK, NEW d \in Cameras \cup Mics, NEW c \in Consumers, ~Listed(d, c),
         consumer_list' = Added(d, c)
  PROVE  /\ ListsOK'
         /\ \A e \in Cameras \cup Mics : \A o : Listed(e, o)' <=> Listed(e, o) \/ (e = d /\ o = c)
<1>1. /\ consumer_list[d] \in Seq(Consumers) /\ IsQueue(consumer_list[d])
      /\ NoTwins(consumer_list[d])
  BY DEF ListsOK, IsQueue
<1>2. /\ Append(consumer_list[d], c) \in Seq(Consumers)
      /\ NoTwins(Append(consumer_list[d], c))
      /\ Tasks(Append(consumer_list[d], c)) = Tasks(consumer_list[d]) \cup {c}
  BY <1>1, AppendProperties, AppendDistinct, TasksAfter DEF Listed
<1>3. /\ consumer_list' \in [Cameras \cup Mics -> Seq(Consumers)]
      /\ \A e \in Cameras \cup Mics :
           consumer_list'[e] = IF e = d THEN Append(consumer_list[d], c) ELSE consumer_list[e]
  BY <1>2 DEF ListsOK, Added
<1>4. \A e \in Cameras \cup Mics : NoTwins(consumer_list'[e])
  BY <1>2, <1>3 DEF ListsOK
<1>5. \A e \in Cameras \cup Mics :
        Tasks(consumer_list'[e]) = IF e = d THEN Tasks(consumer_list[e]) \cup {c}
                                            ELSE Tasks(consumer_list[e])
  BY <1>2, <1>3
<1> QED
  BY <1>3, <1>4, <1>5 DEF ListsOK, Listed

\* One is taken out of the list of d, if it is there.
LEMMA ListsRemove ==
  ASSUME ListsOK, NEW d \in Cameras \cup Mics, NEW c, consumer_list' = Removed(d, c)
  PROVE  /\ ListsOK'
         /\ \A e \in Cameras \cup Mics : \A o : Listed(e, o)' <=> Listed(e, o) /\ ~(e = d /\ o = c)
<1> DEFINE r == RemoveFirst(consumer_list[d], c)
<1>1. /\ consumer_list[d] \in Seq(Consumers) /\ IsQueue(consumer_list[d])
      /\ NoTwins(consumer_list[d])
  BY DEF ListsOK, IsQueue
<1>2. IsQueue(r) /\ NoTwins(r) /\ Tasks(r) = Tasks(consumer_list[d]) \ {c}
  BY <1>1, RemoveFirstFacts
<1>3. Tasks(consumer_list[d]) \subseteq Consumers
  BY <1>1, ElementOfSeq DEF Tasks
<1> HIDE DEF r
<1>4. r \in Seq(Consumers)
  BY <1>2, <1>3, QueueOf
<1>5. /\ consumer_list' \in [Cameras \cup Mics -> Seq(Consumers)]
      /\ \A e \in Cameras \cup Mics :
           consumer_list'[e] = IF e = d THEN r ELSE consumer_list[e]
  BY <1>4 DEF ListsOK, Removed, r
<1>6. \A e \in Cameras \cup Mics : NoTwins(consumer_list'[e])
  BY <1>2, <1>5 DEF ListsOK
<1>7. \A e \in Cameras \cup Mics :
        Tasks(consumer_list'[e]) = IF e = d THEN Tasks(consumer_list[e]) \ {c}
                                            ELSE Tasks(consumer_list[e])
  BY <1>2, <1>5
<1> QED
  BY <1>5, <1>6, <1>7 DEF ListsOK, Listed

-----------------------------------------------------------------------------
(* The link from a camera to a consumer: its addition and its removal are  *)
(* tasks, and the removal is posted when the consumer is stopped.          *)

AddOf(cam, o) == AddConsumerTask(cam, o)
RemoveOf(cam, o) == RemoveConsumerTask(cam, o)

Linked(cam, o) == AddOf(cam, o) \in Tasks(apiQueue) \/ Listed(cam, o)

LinkOK(cam, o) ==
  /\ Once(apiQueue, AddOf(cam, o)) /\ Once(apiQueue, RemoveOf(cam, o))
  /\ Ahead(apiQueue, AddOf(cam, o), RemoveOf(cam, o))
  /\ Listed(cam, o) => AddOf(cam, o) \notin Tasks(apiQueue)
  /\ RemoveOf(cam, o) \in Tasks(apiQueue) => ~Waits(o)
  /\ Linked(cam, o) =>
       /\ source[o].cam = cam
       /\ o \in Pushers => o \in chained
       /\ o \in Previews /\ Waits(o) => has_start[o]
       /\ StartOf(o) \notin Tasks(apiQueue)
       /\ life[o] # "none"
       /\ Waits(o) \/ RemoveOf(cam, o) \in Tasks(apiQueue)

\* The tasks of o differ from each other.
LEMMA LinkNames ==
  ASSUME NEW cam, NEW o
  PROVE  /\ AddOf(cam, o) # RemoveOf(cam, o)
         /\ AddOf(cam, o) # StartOf(o) /\ RemoveOf(cam, o) # StartOf(o)
         /\ AddOf(cam, o) # StopOf(o) /\ RemoveOf(cam, o) # StopOf(o)
         /\ \A d, c : /\ AddOf(d, c) = AddOf(cam, o) => d = cam /\ c = o
                      /\ RemoveOf(d, c) = RemoveOf(cam, o) => d = cam /\ c = o
                      /\ AddOf(d, c) # RemoveOf(cam, o) /\ RemoveOf(d, c) # AddOf(cam, o)
BY TaskNames DEF AddOf, RemoveOf

\* What o is grows, and its camera and whether it waits stay.
Grows(o) ==
  /\ source'[o] = source[o]
  /\ o \in chained => o \in chained'
  /\ o \in Previews /\ has_start[o] => has_start'[o]
  /\ life[o] # "none" => life'[o] # "none"

\* A task of others is taken.
LEMMA LinkTake ==
  ASSUME NEW cam, NEW o, LinkOK(cam, o), IsQueue(apiQueue), NEW r, Takes(r), Grows(o),
         AddOf(cam, o) \notin Tasks(r), RemoveOf(cam, o) \notin Tasks(r),
         StartOf(o) \notin Tasks(r),
         Head(apiQueue) # AddOf(cam, o), Head(apiQueue) # RemoveOf(cam, o),
         Waits(o)' <=> Waits(o), Listed(cam, o)' <=> Listed(cam, o)
  PROVE  LinkOK(cam, o)'
<1> DEFINE q == apiQueue
           add == AddOf(cam, o)
           remove == RemoveOf(cam, o)
           start == StartOf(o)
<1>1. \A t \in {add, remove, start} :
         /\ Once(q, t) => Once(q', t)
         /\ t \in Tasks(q') => t \in Tasks(q)
         /\ t \in Tasks(q) /\ t # Head(q) => t \in Tasks(q')
  <2> SUFFICES ASSUME NEW t \in {add, remove, start}, t \notin Tasks(r)
               PROVE /\ Once(q, t) => Once(q', t)
                     /\ t \in Tasks(q') => t \in Tasks(q)
                     /\ t \in Tasks(q) /\ t # Head(q) => t \in Tasks(q')
    OBVIOUS
  <2> QED
    BY TakesFacts
<1>2. Ahead(r, add, remove)
  BY DEF Ahead, Tasks
<1>3. Ahead(q, add, remove) => Ahead(q', add, remove)
  BY <1>2, TakesFacts
<1>4. (add \in Tasks(q') <=> add \in Tasks(q)) /\ (remove \in Tasks(q') <=> remove \in Tasks(q))
  BY <1>1
<1>5. /\ o \in chained => o \in chained'
      /\ o \in Previews /\ has_start[o] => has_start'[o]
      /\ life[o] # "none" => life'[o] # "none"
      /\ source'[o].cam = source[o].cam
  BY DEF Grows
<1> HIDE DEF q, add, remove, start
<1>6. /\ Once(q, add) /\ Once(q, remove) /\ Ahead(q, add, remove)
      /\ Listed(cam, o) => add \notin Tasks(q)
      /\ remove \in Tasks(q) => ~Waits(o)
      /\ add \in Tasks(q) \/ Listed(cam, o) =>
           /\ source[o].cam = cam
           /\ o \in Pushers => o \in chained
           /\ o \in Previews /\ Waits(o) => has_start[o]
           /\ start \notin Tasks(q)
           /\ life[o] # "none"
           /\ Waits(o) \/ remove \in Tasks(q)
  BY DEF LinkOK, Linked, q, add, remove, start
<1>7. /\ Once(q', add) /\ Once(q', remove) /\ Ahead(q', add, remove)
      /\ Listed(cam, o)' => add \notin Tasks(q')
      /\ remove \in Tasks(q') => ~Waits(o)'
      /\ add \in Tasks(q') \/ Listed(cam, o)' =>
           /\ source'[o].cam = cam
           /\ o \in Pushers => o \in chained'
           /\ o \in Previews /\ Waits(o)' => has_start'[o]
           /\ start \notin Tasks(q')
           /\ life'[o] # "none"
           /\ Waits(o)' \/ remove \in Tasks(q')
  BY <1>1, <1>3, <1>4, <1>5, <1>6
<1> QED
  BY <1>7 DEF LinkOK, Linked, q, add, remove, start

\* o starts: it has waited since it was made, and is linked to no camera.
LEMMA LinkStart ==
  ASSUME NEW cam, NEW o, LinkOK(cam, o), OrderOK(o), IsQueue(apiQueue), NEW r, Takes(r),
         Head(apiQueue) = StartOf(o), Waits(o)' <=> Waits(o),
         \A d : Listed(d, o)' /\ d = cam => Listed(d, o),
         \/ r = << >>
         \/ /\ r = <<AddOf(source[o].cam, o)>>
            /\ source'[o] = source[o] /\ life'[o] # "none"
            /\ o \in Pushers => o \in chained'
            /\ o \in Previews => has_start'[o]
  PROVE  LinkOK(cam, o)'
<1> DEFINE q == apiQueue
           add == AddOf(cam, o)
           remove == RemoveOf(cam, o)
           start == StartOf(o)
<1>1. Head(q) = start /\ start \in Tasks(q) /\ Once(q, start)
  BY TakesFacts DEF OrderOK
<1>2. Waits(o)
  BY <1>1 DEF OrderOK
<1>3. remove \notin Tasks(q) /\ add \notin Tasks(q) /\ ~Listed(cam, o) /\ ~Listed(cam, o)'
  BY <1>1, <1>2 DEF LinkOK, Linked
<1>4. Tasks(<< >>) = {} /\ \A x : Tasks(<<x>>) = {x}
  BY ListedTasks
<1>5. remove \notin Tasks(r) /\ start \notin Tasks(r) /\ Once(r, add) /\ Ahead(r, add, remove)
  BY <1>4, LinkNames, Short
<1>6. /\ Tasks(q') \subseteq Tasks(q) \cup Tasks(r)
      /\ Once(q', start) /\ start \notin Tasks(q')
      /\ Once(q', add)
      /\ Ahead(q, add, remove) => Ahead(q', add, remove)
      /\ Once(q, remove) => Once(q', remove)
  BY <1>1, <1>3, <1>5, TakesFacts
<1>7. remove \notin Tasks(q')
  BY <1>3, <1>5, <1>6
<1>8. CASE r = << >>
  <2>1. add \notin Tasks(q')
    BY <1>3, <1>4, <1>6, <1>8
  <2> QED
    BY <1>3, <1>6, <1>7, <2>1 DEF LinkOK, Linked
<1>9. CASE /\ r = <<AddOf(source[o].cam, o)>>
           /\ source'[o] = source[o] /\ life'[o] # "none"
           /\ o \in Pushers => o \in chained'
           /\ o \in Previews => has_start'[o]
  <2>1. add \in Tasks(q') => source[o].cam = cam
    BY <1>3, <1>4, <1>6, <1>9, LinkNames
  <2>2. Waits(o)'
    BY <1>2
  <2> QED
    BY <1>3, <1>6, <1>7, <1>9, <2>1, <2>2 DEF LinkOK, Linked
<1> QED
  BY <1>8, <1>9

\* o stops: if it is linked, its removal is posted.
LEMMA LinkStop ==
  ASSUME NEW cam, NEW o, LinkOK(cam, o), OrderOK(o), IsQueue(apiQueue), NEW r, Takes(r),
         Head(apiQueue) = StopOf(o), ~Waits(o)', source'[o] = source[o],
         Listed(cam, o)' <=> Listed(cam, o),
         o \in chained => o \in chained', life[o] # "none" => life'[o] # "none",
         r \in {<< >>, <<RemoveOf(source[o].cam, o)>>},
         Linked(cam, o) => r # << >>
  PROVE  LinkOK(cam, o)'
<1> DEFINE q == apiQueue
           add == AddOf(cam, o)
           remove == RemoveOf(cam, o)
           start == StartOf(o)
           stop == StopOf(o)
<1>1. Head(q) = stop /\ stop \in Tasks(q)
  BY TakesFacts
<1>2. Waits(o) /\ start \notin Tasks(q)
  BY <1>1, TakesFacts DEF Waits, OrderOK
<1>3. remove \notin Tasks(q)
  BY <1>2 DEF LinkOK
<1>4. Tasks(<< >>) = {} /\ \A x : Tasks(<<x>>) = {x}
  BY ListedTasks
<1>5. /\ add \notin Tasks(r) /\ start \notin Tasks(r) /\ Once(r, remove)
      /\ Ahead(r, add, remove)
  BY <1>4, LinkNames, Short
<1>6. /\ Tasks(q') \subseteq Tasks(q) \cup Tasks(r) /\ Tasks(r) \subseteq Tasks(q')
      /\ Once(q, add) => Once(q', add)
      /\ Once(q', remove)
      /\ Ahead(q, add, remove) => Ahead(q', add, remove)
  BY <1>1, <1>3, <1>5, TakesFacts
<1>7. start \notin Tasks(q') /\ (add \in Tasks(q') => add \in Tasks(q))
  BY <1>2, <1>5, <1>6
<1>8. ASSUME Linked(cam, o)
      PROVE  /\ source[o].cam = cam /\ (o \in Pushers => o \in chained) /\ life[o] # "none"
             /\ remove \in Tasks(q')
  <2>1. source[o].cam = cam /\ (o \in Pushers => o \in chained) /\ life[o] # "none"
    BY <1>8 DEF LinkOK
  <2>2. r = <<remove>>
    BY <1>8, <2>1
  <2> QED
    BY <1>4, <1>6, <2>1, <2>2
<1>9. Linked(cam, o)' => Linked(cam, o)
  BY <1>7 DEF Linked
<1>10. Listed(cam, o)' => add \notin Tasks(q')
  BY <1>7 DEF LinkOK
<1> HIDE DEF q, add, remove, start, stop
<1>11. Once(q', add) /\ Once(q', remove) /\ Ahead(q', add, remove)
  BY <1>6 DEF LinkOK, q, add, remove
<1> QED
  BY <1>7, <1>8, <1>9, <1>10, <1>11 DEF LinkOK, q, add, remove, start, stop

\* The addition is done.
LEMMA LinkAdd ==
  ASSUME NEW cam, NEW o, LinkOK(cam, o), IsQueue(apiQueue), Takes(<< >>), Grows(o),
         Head(apiQueue) = AddOf(cam, o), Waits(o)' <=> Waits(o)
  PROVE  LinkOK(cam, o)' /\ ~Listed(cam, o)
<1> DEFINE q == apiQueue
           add == AddOf(cam, o)
           remove == RemoveOf(cam, o)
           start == StartOf(o)
<1>1. Head(q) = add /\ add \in Tasks(q) /\ Tasks(<< >>) = {}
  BY TakesFacts, ListedTasks
<1>2. /\ Linked(cam, o) /\ ~Listed(cam, o)
      /\ Once(q, add) /\ Once(q, remove) /\ Ahead(q, add, remove)
  BY <1>1 DEF LinkOK, Linked
<1>3. remove # add
  BY LinkNames
<1>4. Ahead(<< >>, add, remove)
  BY Short
<1>5. /\ Once(q', add) /\ add \notin Tasks(q') /\ Once(q', remove)
      /\ Ahead(q', add, remove)
      /\ Tasks(q') \subseteq Tasks(q)
      /\ remove \in Tasks(q) => remove \in Tasks(q')
  BY <1>1, <1>2, <1>3, <1>4, TakesFacts
<1>6. /\ source[o].cam = cam
      /\ o \in Pushers => o \in chained
      /\ o \in Previews /\ Waits(o) => has_start[o]
      /\ start \notin Tasks(q)
      /\ life[o] # "none"
      /\ Waits(o) \/ remove \in Tasks(q)
      /\ remove \in Tasks(q) => ~Waits(o)
  BY <1>2 DEF LinkOK
<1>7. /\ source'[o].cam = cam
      /\ o \in Pushers => o \in chained'
      /\ o \in Previews /\ Waits(o)' => has_start'[o]
      /\ start \notin Tasks(q')
      /\ life'[o] # "none"
      /\ Waits(o)' \/ remove \in Tasks(q')
      /\ remove \in Tasks(q') => ~Waits(o)'
  BY <1>5, <1>6 DEF Grows
<1> HIDE DEF q, add, remove, start
<1> QED
  BY <1>2, <1>5, <1>7 DEF LinkOK, q, add, remove, start

\* The removal is done.
LEMMA LinkRemove ==
  ASSUME NEW cam, NEW o, LinkOK(cam, o), IsQueue(apiQueue), Takes(<< >>),
         Head(apiQueue) = RemoveOf(cam, o), ~Listed(cam, o)', Waits(o)' <=> Waits(o)
  PROVE  LinkOK(cam, o)'
<1> DEFINE q == apiQueue
           add == AddOf(cam, o)
           remove == RemoveOf(cam, o)
<1>1. Head(q) = remove /\ remove \in Tasks(q) /\ Tasks(<< >>) = {}
  BY TakesFacts, ListedTasks
<1>2. Once(q, add) /\ Once(q, remove) /\ Ahead(q, add, remove) /\ ~Waits(o)
  BY <1>1 DEF LinkOK
<1>3. Ahead(<< >>, add, remove)
  BY Short
<1>4. /\ Once(q', add) /\ Once(q', remove) /\ Ahead(q', add, remove)
      /\ add \notin Tasks(q)
      /\ Tasks(q') \subseteq Tasks(q)
  BY <1>1, <1>2, <1>3, TakesFacts
<1>5. add \notin Tasks(q')
  BY <1>4
<1> HIDE DEF q, add, remove
<1> QED
  BY <1>2, <1>4, <1>5 DEF LinkOK, Linked, q, add, remove

\* Nothing is taken: other tasks are posted.
LEMMA LinkKeep ==
  ASSUME NEW cam, NEW o, LinkOK(cam, o), IsQueue(apiQueue), NEW r, IsQueue(r),
         apiQueue' = apiQueue \o r, Grows(o),
         AddOf(cam, o) \notin Tasks(r), RemoveOf(cam, o) \notin Tasks(r),
         StartOf(o) \notin Tasks(r),
         Waits(o)' <=> Waits(o), Listed(cam, o)' <=> Listed(cam, o)
  PROVE  LinkOK(cam, o)'
<1> DEFINE q == apiQueue
           add == AddOf(cam, o)
           remove == RemoveOf(cam, o)
           start == StartOf(o)
<1>1. Tasks(q') = Tasks(q) \cup Tasks(r)
  BY TasksAfter
<1>2. Once(r, add) /\ Once(r, remove) /\ Ahead(r, add, remove)
  BY DEF Once, Ahead, Tasks
<1>3. /\ Once(q, add) => Once(q', add)
      /\ Once(q, remove) => Once(q', remove)
      /\ Ahead(q, add, remove) => Ahead(q', add, remove)
  BY <1>2, OrderPost
<1>4. /\ o \in chained => o \in chained'
      /\ o \in Previews /\ has_start[o] => has_start'[o]
      /\ life[o] # "none" => life'[o] # "none"
      /\ source'[o].cam = source[o].cam
  BY DEF Grows
<1> HIDE DEF q, add, remove, start
<1>5. add \notin Tasks(r) /\ remove \notin Tasks(r) /\ start \notin Tasks(r)
  BY DEF add, remove, start
<1>6. /\ add \in Tasks(q') <=> add \in Tasks(q)
      /\ remove \in Tasks(q') <=> remove \in Tasks(q)
      /\ start \in Tasks(q') <=> start \in Tasks(q)
  BY <1>1, <1>5
<1>7. (Linked(cam, o)' <=> Linked(cam, o))
  BY <1>6 DEF Linked, add, q
<1> QED
  BY <1>3, <1>4, <1>6, <1>7 DEF LinkOK, q, add, remove, start

-----------------------------------------------------------------------------
\* Whom a microphone calls is a push with a chain that has still to stop.
MicOK(mic, o) ==
  Listed(mic, o) => o \in chained /\ Waits(o) /\ source[o].mic = mic

-----------------------------------------------------------------------------
(* The handles of the application, the shape of its tasks and the devices  *)
(* that start.                                                             *)

Sources == [cam : Cameras \cup {None}, mic : Mics \cup {None}]
Forms == [cam : Cameras \cup {None}, mic : Mics \cup {None},
          preview : Previews \cup {None}, pusher : Pushers \cup {None}]

IsTask(task) ==
  \/ \E op \in {"Start", "Stop", "Destroy"}, o \in Objects : task = <<op, o>>
  \/ \E cam \in Cameras : task = <<"Frame", cam>>
  \/ \E cam \in Cameras, o \in Consumers : task \in {AddOf(cam, o), RemoveOf(cam, o)}

\* A device that is to start is the one the form holds, and has not started.
DeviceOK ==
  /\ videoInit => form.cam # None
  /\ audioInit => form.mic # None
  /\ \A cam \in Cameras : StartOf(cam) \in Tasks(apiQueue) => form.cam = cam /\ ~videoInit
  /\ \A mic \in Mics : StartOf(mic) \in Tasks(apiQueue) => form.mic = mic /\ ~audioInit
  /\ \A d \in Cameras \cup Mics : Once(apiQueue, StartOf(d))

FormInv ==
  /\ form \in Forms
  /\ source \in [Consumers -> Sources]
  /\ has_start \in [Cameras \cup Mics \cup Previews -> BOOLEAN]
  /\ \A v \in Previews : life[v] # "none" => source[v].cam # None
  /\ \A task \in Tasks(apiQueue) : IsTask(task)
  /\ DeviceOK

\* A task is taken, of a device that starts perhaps.
LEMMA FormTake ==
  ASSUME FormInv, IsQueue(apiQueue), NEW r, Takes(r),
         \A t \in Tasks(r) : IsTask(t) /\ t[1] # "Start",
         UNCHANGED <<form, source>>,
         has_start' \in [Cameras \cup Mics \cup Previews -> BOOLEAN],
         \A v \in Previews : life'[v] # "none" => life[v] # "none",
         videoInit' = videoInit \/ \E cam \in Cameras : Head(apiQueue) = StartOf(cam),
         audioInit' = audioInit \/ \E mic \in Mics : Head(apiQueue) = StartOf(mic)
  PROVE  FormInv'
<1>1. Tasks(apiQueue') \subseteq Tasks(apiQueue) \cup Tasks(r) /\ Head(apiQueue) \in Tasks(apiQueue)
  BY TakesFacts
<1>2. \A task \in Tasks(apiQueue') : IsTask(task)
  BY <1>1 DEF FormInv
<1>3. \A d : StartOf(d) \notin Tasks(r)
  BY TaskNames
<1>4. \A d \in Cameras \cup Mics :
        /\ Once(apiQueue', StartOf(d))
        /\ Head(apiQueue) = StartOf(d) => StartOf(d) \notin Tasks(apiQueue')
        /\ StartOf(d) \in Tasks(apiQueue') => StartOf(d) \in Tasks(apiQueue)
  <2> SUFFICES ASSUME NEW d \in Cameras \cup Mics
               PROVE  /\ Once(apiQueue', StartOf(d))
                      /\ Head(apiQueue) = StartOf(d) => StartOf(d) \notin Tasks(apiQueue')
                      /\ StartOf(d) \in Tasks(apiQueue') => StartOf(d) \in Tasks(apiQueue)
    OBVIOUS
  <2>1. Once(apiQueue, StartOf(d)) /\ StartOf(d) \notin Tasks(r)
    BY <1>3 DEF FormInv, DeviceOK
  <2> QED
    BY <1>1, <2>1, TakesFacts
<1>5. /\ videoInit => form.cam # None
      /\ audioInit => form.mic # None
      /\ \A cam \in Cameras : StartOf(cam) \in Tasks(apiQueue) => form.cam = cam /\ ~videoInit
      /\ \A mic \in Mics : StartOf(mic) \in Tasks(apiQueue) => form.mic = mic /\ ~audioInit
  BY DEF FormInv, DeviceOK
<1>6. \A d, e : StartOf(d) = StartOf(e) => d = e
  BY TaskNames
<1>7. None \notin Cameras /\ None \notin Mics
  BY SessionAssumption
<1>8. ASSUME videoInit' = videoInit, audioInit' = audioInit PROVE DeviceOK'
  <2>1. /\ videoInit' => form'.cam # None
        /\ audioInit' => form'.mic # None
    BY <1>5, <1>8
  <2>2. \A cam \in Cameras : StartOf(cam) \in Tasks(apiQueue') => form'.cam = cam /\ ~videoInit'
    BY <1>4, <1>5, <1>8
  <2>3. \A mic \in Mics : StartOf(mic) \in Tasks(apiQueue') => form'.mic = mic /\ ~audioInit'
    BY <1>4, <1>5, <1>8
  <2> QED
    BY <1>4, <2>1, <2>2, <2>3 DEF DeviceOK
<1>9. ASSUME NEW cam \in Cameras, Head(apiQueue) = StartOf(cam) PROVE DeviceOK'
  <2>1. form.cam = cam /\ ~videoInit /\ StartOf(cam) \notin Tasks(apiQueue')
    BY <1>1, <1>4, <1>5, <1>9
  <2>2. \A c \in Cameras : StartOf(c) \notin Tasks(apiQueue')
    BY <1>4, <1>5, <2>1
  <2>3. audioInit' = audioInit
    BY <1>6, <1>9, SessionAssumption
  <2>4. form'.cam # None /\ (audioInit' => form'.mic # None)
    <3>1. form' = form /\ form.cam # None
      BY <1>7, <2>1
    <3>2. audioInit' => form.mic # None
      BY <1>5, <2>3, Zenon
    <3> QED
      BY <3>1, <3>2
  <2>5. \A mic \in Mics : StartOf(mic) \in Tasks(apiQueue') => form'.mic = mic /\ ~audioInit'
    BY <1>4, <1>5, <2>3
  <2>6. \A c \in Cameras : StartOf(c) \in Tasks(apiQueue') => form'.cam = c /\ ~videoInit'
    BY <2>2
  <2>7. \A d \in Cameras \cup Mics : Once(apiQueue', StartOf(d))
    BY <1>4
  <2> QED
    BY <2>4, <2>5, <2>6, <2>7, Zenon DEF DeviceOK
<1>10. ASSUME NEW mic \in Mics, Head(apiQueue) = StartOf(mic) PROVE DeviceOK'
  <2>1. form.mic = mic /\ ~audioInit /\ StartOf(mic) \notin Tasks(apiQueue')
    BY <1>1, <1>4, <1>5, <1>10
  <2>2. \A c \in Mics : StartOf(c) \notin Tasks(apiQueue')
    BY <1>4, <1>5, <2>1
  <2>3. videoInit' = videoInit
    BY <1>6, <1>10, SessionAssumption
  <2>4. form'.mic # None /\ (videoInit' => form'.cam # None)
    <3>1. form' = form /\ form.mic # None
      BY <1>7, <2>1
    <3>2. videoInit' => form.cam # None
      BY <1>5, <2>3, Zenon
    <3> QED
      BY <3>1, <3>2
  <2>5. \A cam \in Cameras : StartOf(cam) \in Tasks(apiQueue') => form'.cam = cam /\ ~videoInit'
    BY <1>4, <1>5, <2>3
  <2>6. \A c \in Mics : StartOf(c) \in Tasks(apiQueue') => form'.mic = c /\ ~audioInit'
    BY <2>2
  <2>7. \A d \in Cameras \cup Mics : Once(apiQueue', StartOf(d))
    BY <1>4
  <2> QED
    BY <2>4, <2>5, <2>6, <2>7, Zenon DEF DeviceOK
<1>11. DeviceOK'
  BY <1>8, <1>9, <1>10
<1> QED
  BY <1>2, <1>11 DEF FormInv

\* What the api thread's tasks and the lists hold.
UserInv ==
  /\ FormInv
  /\ ListsOK
  /\ \A o \in Consumers : OrderOK(o)
  /\ \A cam \in Cameras, o \in Consumers : LinkOK(cam, o)
  /\ \A mic \in Mics, o \in Consumers : MicOK(mic, o)

\* What it is about.
userVars == <<life, has_start, consumer_list, apiQueue, videoInit, audioInit, form, source,
              chained>>

\* Steps that touch none of these variables keep the invariant.
LEMMA UserFrame == UserInv /\ UNCHANGED userVars => UserInv'
<1> SUFFICES ASSUME UserInv, UNCHANGED userVars PROVE UserInv'
  OBVIOUS
<1>1. \A o : (Held(o)' <=> Held(o)) /\ (Waits(o)' <=> Waits(o)) /\ (Alive(o)' <=> Alive(o))
  BY DEF userVars, Held, Waits, Alive
<1>2. \A d, o : (Listed(d, o)' <=> Listed(d, o)) /\ (Linked(d, o)' <=> Linked(d, o))
  BY DEF userVars, Listed, Linked
<1>3. FormInv'
  BY DEF UserInv, userVars, FormInv, DeviceOK
<1>4. ListsOK'
  BY DEF UserInv, userVars, ListsOK
<1>5. ASSUME NEW o \in Consumers PROVE OrderOK(o)'
  <2>1. OrderOK(o)
    BY DEF UserInv
  <2> QED
    BY <1>1, <2>1 DEF OrderOK, userVars
<1>6. ASSUME NEW cam \in Cameras, NEW o \in Consumers PROVE LinkOK(cam, o)'
  <2>1. LinkOK(cam, o)
    BY DEF UserInv
  <2> QED
    BY <1>1, <1>2, <2>1 DEF LinkOK, userVars
<1>7. ASSUME NEW mic \in Mics, NEW o \in Consumers PROVE MicOK(mic, o)'
  <2>1. MicOK(mic, o)
    BY DEF UserInv
  <2> QED
    BY <1>1, <1>2, <2>1 DEF MicOK, userVars
<1> QED
  BY <1>3, <1>4, <1>5, <1>6, <1>7 DEF UserInv

-----------------------------------------------------------------------------
(* The tasks of pushes and previews.                                       *)

\* No object is of two classes.
LEMMA Classes ==
  /\ \A o \in Consumers : o \notin Cameras /\ o \notin Mics /\ o # None /\ o \in Objects
  /\ \A p \in Pushers : p \in Consumers /\ p \notin Previews
  /\ \A v \in Previews : v \in Consumers /\ v \notin Pushers
  /\ \A c \in Cameras : c \notin Mics /\ c # None /\ c \in Objects
  /\ \A m \in Mics : m \notin Cameras /\ m # None /\ m \in Objects
BY SessionAssumption DEF Consumers, Objects

\* A step in which the api thread takes a task of x, which may post a change
\* of the list of a camera for x.
TaskOf(x, op, r) ==
  /\ Head(apiQueue) = <<op, x>>
  /\ Takes(r)
  /\ \A t \in Tasks(r) : \E cam \in Cameras : t \in {AddOf(cam, x), RemoveOf(cam, x)}
  /\ UNCHANGED <<form, source, videoInit, audioInit>>
  /\ has_start' \in [Cameras \cup Mics \cup Previews -> BOOLEAN]
  /\ \A o \in Consumers : o # x =>
       /\ life'[o] = life[o]
       /\ o \in Previews => has_start'[o] = has_start[o]
       /\ o \in chained' <=> o \in chained
  /\ life'[x] = "none" <=> life[x] = "none"
  /\ x \in chained => x \in chained'
  /\ x \in chained' => x \in chained \/ op = "Start"
  /\ op # "Destroy" => UNCHANGED life
  /\ ListsOK'
  /\ \A d \in Cameras \cup Mics, o \in Consumers :
       o # x \/ d \in Cameras => (Listed(d, o)' <=> Listed(d, o))

\* Such a task keeps what the invariant says of each consumer.
LEMMA TaskStepOf ==
  ASSUME UserInv, IsQueue(apiQueue), NEW x \in Consumers, NEW op \in {"Start", "Stop", "Destroy"},
         NEW r, TaskOf(x, op, r)
  PROVE  /\ FormInv' /\ ListsOK'
         /\ \A o \in Consumers : OrderOK(o)'
         /\ \A o \in Consumers : o # x \/ op # "Stop" => (Waits(o)' <=> Waits(o))
         /\ \A cam \in Cameras, o \in Consumers : o # x => LinkOK(cam, o)'
         /\ \A mic \in Mics, o \in Consumers : o # x => MicOK(mic, o)'
<1>1. /\ Takes(r) /\ Head(apiQueue) = <<op, x>> /\ form' = form /\ source' = source
      /\ IsQueue(r) /\ Head(apiQueue)[1] = op /\ Head(apiQueue)[2] = x
  BY DEF TaskOf, Takes
<1>2. ASSUME NEW t \in Tasks(r)
      PROVE  /\ IsTask(t) /\ t[1] \in {"Add", "Remove"}
             /\ \E cam \in Cameras : t \in {AddOf(cam, x), RemoveOf(cam, x)}
  <2>1. PICK cam \in Cameras : t \in {AddOf(cam, x), RemoveOf(cam, x)}
    BY DEF TaskOf
  <2>2. IsTask(t)
    BY <2>1 DEF IsTask
  <2> QED
    BY <2>1, <2>2, TaskNames DEF AddOf, RemoveOf
<1>3. \A d : /\ Head(apiQueue) = StartOf(d) => d = x /\ op = "Start"
             /\ Head(apiQueue) = StopOf(d) => d = x /\ op = "Stop"
             /\ Head(apiQueue) = DestroyOf(d) => d = x /\ op = "Destroy"
  BY <1>1, TaskNames
<1>4. FormInv'
  <2>1. \A v \in Previews : life'[v] # "none" => life[v] # "none"
    <3> SUFFICES ASSUME NEW v \in Previews PROVE life'[v] # "none" => life[v] # "none"
      OBVIOUS
    <3>1. v \in Consumers
      BY Classes
    <3> QED
      BY <3>1 DEF TaskOf
  <2>2. videoInit' = videoInit /\ audioInit' = audioInit
    BY DEF TaskOf
  <2>3. has_start' \in [Cameras \cup Mics \cup Previews -> BOOLEAN]
    BY DEF TaskOf
  <2>4. \A t \in Tasks(r) : IsTask(t) /\ t[1] # "Start"
    BY <1>2
  <2>5. FormInv
    BY DEF UserInv
  <2> QED
    BY <1>1, <2>1, <2>2, <2>3, <2>4, <2>5, FormTake
<1>5. ASSUME NEW o \in Consumers
      PROVE  OrderOK(o)' /\ (o # x \/ op # "Stop" => (Waits(o)' <=> Waits(o)))
  <2>1. OrderOK(o)
    BY DEF UserInv
  <2>2. StartOf(o) \notin Tasks(r) /\ StopOf(o) \notin Tasks(r) /\ DestroyOf(o) \notin Tasks(r)
    BY <1>2, TaskNames
  <2>3. o \in chained' => o \in chained \/ Head(apiQueue) = StartOf(o)
    <3>1. o = x /\ op = "Start" => Head(apiQueue) = StartOf(o)
      BY <1>1 DEF StartOf
    <3> QED
      BY <3>1 DEF TaskOf
  <2>4. Alive(o) /\ Head(apiQueue) # DestroyOf(o) => Alive(o)'
    <3>1. o = x /\ op = "Destroy" => Head(apiQueue) = DestroyOf(o)
      BY <1>1 DEF DestroyOf
    <3>2. o # x \/ op # "Destroy" => life'[o] = life[o]
      BY DEF TaskOf
    <3> QED
      BY <3>1, <3>2 DEF Alive
  <2>5. OrderOK(o)' /\ (Head(apiQueue) # StopOf(o) => (Waits(o)' <=> Waits(o)))
    BY <1>1, <2>1, <2>2, <2>3, <2>4, OrderTake
  <2> QED
    BY <1>3, <2>5
<1>6. ASSUME NEW cam \in Cameras, NEW o \in Consumers, o # x PROVE LinkOK(cam, o)'
  <2>1. LinkOK(cam, o) /\ (Waits(o)' <=> Waits(o))
    BY <1>5, <1>6 DEF UserInv
  <2>2. Listed(cam, o)' <=> Listed(cam, o)
    BY <1>6 DEF TaskOf
  <2>3. Grows(o)
    BY <1>1, <1>6 DEF TaskOf, Grows
  <2>4. /\ AddOf(cam, o) \notin Tasks(r) /\ RemoveOf(cam, o) \notin Tasks(r)
        /\ StartOf(o) \notin Tasks(r)
    <3>1. StartOf(o) \notin Tasks(r)
      BY <1>2, TaskNames
    <3>2. \A c : /\ AddOf(cam, o) # AddOf(c, x) /\ AddOf(cam, o) # RemoveOf(c, x)
                 /\ RemoveOf(cam, o) # AddOf(c, x) /\ RemoveOf(cam, o) # RemoveOf(c, x)
      BY <1>6, TaskNames DEF AddOf, RemoveOf
    <3> QED
      BY <1>2, <3>1, <3>2
  <2>5. Head(apiQueue) # AddOf(cam, o) /\ Head(apiQueue) # RemoveOf(cam, o)
    BY <1>1, TaskNames DEF AddOf, RemoveOf
  <2> QED
    BY <1>1, <2>1, <2>2, <2>3, <2>4, <2>5, LinkTake
<1>7. ASSUME NEW mic \in Mics, NEW o \in Consumers, o # x PROVE MicOK(mic, o)'
  <2>1. MicOK(mic, o) /\ (Waits(o)' <=> Waits(o))
    BY <1>5, <1>7 DEF UserInv
  <2>2. (Listed(mic, o)' <=> Listed(mic, o)) /\ (o \in chained' <=> o \in chained)
    BY <1>7 DEF TaskOf
  <2> QED
    BY <1>1, <2>1, <2>2 DEF MicOK
<1>8. ListsOK'
  BY DEF TaskOf
<1> QED
  BY <1>4, <1>5, <1>6, <1>7, <1>8

\* The lists stay as they are.
LEMMA ListsFrame ==
  UNCHANGED consumer_list =>
    /\ ListsOK => ListsOK'
    /\ \A d, o : Listed(d, o)' <=> Listed(d, o)
BY DEF ListsOK, Listed

\* A queue that posts nothing, or one task.
LEMMA TakesOne ==
  ASSUME IsQueue(apiQueue), apiQueue # << >>
  PROVE  /\ apiQueue' = Tail(apiQueue) => Takes(<< >>)
         /\ \A t : apiQueue' = Append(Tail(apiQueue), t) => Takes(<<t>>)
<1>1. IsQueue(Tail(apiQueue))
  BY TailFacts
<1>2. IsQueue(<< >>) /\ \A t : IsQueue(<<t>>)
  BY ListedTasks
<1>3. Tail(apiQueue) \o << >> = Tail(apiQueue)
  BY <1>1, NothingPosted
<1>4. \A t : Append(Tail(apiQueue), t) = Tail(apiQueue) \o <<t>>
  BY <1>1, AppendIsPost
<1> QED
  BY <1>2, <1>3, <1>4 DEF Takes

\* The push starts: it listens to its microphone at once.
LEMMA UserStartPush ==
  ASSUME SessionInv, UserInv, NEW p \in Pushers, StartPush(p)
  PROVE  UserInv'
<1> DEFINE s == source[p]
           r == IF chained' = chained \/ s.cam = None THEN << >>
                                                       ELSE <<AddOf(s.cam, p)>>
<1>1. /\ IsQueue(apiQueue) /\ p \in Consumers /\ s \in Sources
      /\ p \notin Previews
  BY Classes DEF SessionInv, StartInv, UserInv, FormInv
<1>2. /\ apiQueue # << >> /\ Head(apiQueue)[1] = "Start" /\ Head(apiQueue)[2] = p
      /\ UNCHANGED <<life, has_start, form, source, videoInit, audioInit>>
  BY DEF StartPush, ApiTask, Subject
<1>3. /\ Head(apiQueue) \in Tasks(apiQueue) /\ IsTask(Head(apiQueue))
  <2>1. Head(apiQueue) \in Tasks(apiQueue)
    BY <1>1, <1>2, TasksAfter
  <2> QED
    BY <2>1 DEF UserInv, FormInv
<1>4. Head(apiQueue) = StartOf(p)
  BY <1>2, <1>3, TaskNames DEF IsTask, AddOf, RemoveOf, StartOf
<1>5. OrderOK(p) /\ p \notin chained /\ Waits(p) /\ life[p] # "none"
  <2>1. OrderOK(p) /\ StartOf(p) \in Tasks(apiQueue)
    BY <1>1, <1>3, <1>4 DEF UserInv
  <2>2. p \notin chained /\ Waits(p)
    BY <2>1 DEF OrderOK
  <2> QED
    BY <2>1, <2>2, WaitsAlive DEF Alive
<1>6. \/ UNCHANGED <<consumer_list, chained>> /\ apiQueue' = Tail(apiQueue)
      \/ /\ chained' = chained \cup {p}
         /\ consumer_list' = IF s.mic = None THEN consumer_list ELSE Added(s.mic, p)
         /\ apiQueue' = IF s.cam = None THEN Tail(apiQueue)
                        ELSE Append(Tail(apiQueue), AddOf(s.cam, p))
  BY DEF StartPush, CreateChain, StartStream, AddOf
<1>7. Takes(r)
  <2>1. CASE UNCHANGED <<consumer_list, chained>> /\ apiQueue' = Tail(apiQueue)
    BY <1>1, <1>2, <2>1, TakesOne
  <2>2. CASE /\ chained' = chained \cup {p}
             /\ apiQueue' = IF s.cam = None THEN Tail(apiQueue)
                            ELSE Append(Tail(apiQueue), AddOf(s.cam, p))
    <3>1. chained' # chained
      BY <1>5, <2>2
    <3> QED
      BY <1>1, <1>2, <2>2, <3>1, TakesOne
  <2> QED
    BY <1>6, <2>1, <2>2
<1>8. ~Listed(s.mic, p) \/ s.mic = None
  <2>1. CASE s.mic \in Mics
    <3>1. MicOK(s.mic, p)
      BY <1>1, <2>1 DEF UserInv
    <3> QED
      BY <1>5, <3>1 DEF MicOK
  <2> QED
    BY <1>1, <2>1 DEF Sources
<1>9. /\ ListsOK'
      /\ \A d \in Cameras \cup Mics, o \in Consumers :
           /\ o # p \/ d \in Cameras => (Listed(d, o)' <=> Listed(d, o))
           /\ Listed(d, o)' => Listed(d, o) \/ (o = p /\ d = s.mic /\ p \in chained')
  <2>1. CASE UNCHANGED consumer_list
    BY <2>1, ListsFrame DEF UserInv
  <2>2. CASE /\ chained' = chained \cup {p} /\ s.mic # None
             /\ consumer_list' = Added(s.mic, p)
    <3>1. s.mic \in Mics /\ ~Listed(s.mic, p) /\ ListsOK
      BY <1>1, <1>8, <2>2 DEF Sources, UserInv
    <3>2. /\ ListsOK'
          /\ \A e \in Cameras \cup Mics : \A o :
                Listed(e, o)' <=> Listed(e, o) \/ (e = s.mic /\ o = p)
      BY <1>1, <2>2, <3>1, ListsAdd
    <3>3. s.mic \notin Cameras /\ p \in chained'
      BY <2>2, <3>1, Classes
    <3> QED
      BY <3>2, <3>3
  <2> QED
    BY <1>6, <2>1, <2>2
<1>10. Tasks(r) = {} \/ (s.cam \in Cameras /\ Tasks(r) = {AddOf(s.cam, p)})
  BY <1>1, ListedTasks DEF Sources
<1>11. TaskOf(p, "Start", r)
  <2>1. \A o : o # p => (o \in chained' <=> o \in chained)
    BY <1>6
  <2>2. p \in chained => p \in chained'
    BY <1>6
  <2>3. has_start' \in [Cameras \cup Mics \cup Previews -> BOOLEAN]
    BY <1>2 DEF UserInv, FormInv
  <2>4. \A t \in Tasks(r) : \E cam \in Cameras : t \in {AddOf(cam, p), RemoveOf(cam, p)}
    BY <1>10
  <2> HIDE DEF s, r
  <2> QED
    BY <1>2, <1>4, <1>7, <1>9, <2>1, <2>2, <2>3, <2>4 DEF TaskOf, StartOf
<1> HIDE DEF r
<1>12. /\ FormInv' /\ ListsOK'
       /\ \A o \in Consumers : OrderOK(o)'
       /\ Waits(p)' <=> Waits(p)
       /\ \A cam \in Cameras, o \in Consumers : o # p => LinkOK(cam, o)'
       /\ \A mic \in Mics, o \in Consumers : o # p => MicOK(mic, o)'
  BY <1>1, <1>11, TaskStepOf
<1>13. ASSUME NEW cam \in Cameras PROVE LinkOK(cam, p)'
  <2>1. LinkOK(cam, p) /\ (Listed(cam, p)' <=> Listed(cam, p))
    BY <1>1, <1>9 DEF UserInv
  <2>2. \A d : Listed(d, p)' /\ d = cam => Listed(d, p)
    BY <2>1
  <2>3. r = << >> \/ /\ r = <<AddOf(source[p].cam, p)>>
                     /\ source'[p] = source[p] /\ life'[p] # "none"
                     /\ p \in Pushers => p \in chained'
                     /\ p \in Previews => has_start'[p]
    BY <1>1, <1>2, <1>5, <1>6 DEF r
  <2>4. Waits(p)' <=> Waits(p)
    BY <1>12
  <2> HIDE DEF s
  <2> QED
    BY <1>1, <1>4, <1>5, <1>7, <2>1, <2>2, <2>3, <2>4, LinkStart
<1>14. ASSUME NEW mic \in Mics PROVE MicOK(mic, p)'
  <2>1. MicOK(mic, p)
    BY <1>1 DEF UserInv
  <2>2. Listed(mic, p)' => mic = s.mic /\ p \in chained'
    BY <1>1, <1>5, <1>9, <2>1 DEF MicOK
  <2>3. Waits(p)' /\ source'[p].mic = s.mic
    BY <1>2, <1>5, <1>12
  <2> QED
    BY <2>2, <2>3 DEF MicOK
<1> QED
  BY <1>12, <1>13, <1>14 DEF UserInv

\* A crash changes nothing that counts here.
LEMMA UserCrash ==
  ASSUME UserInv, NEW what, Crash(what)
  PROVE  UserInv'
BY UserFrame DEF Crash, userVars, sessionVars

\* A task of a consumer is the first one: it is Start, Stop or Destroy.
LEMMA HeadOf ==
  ASSUME SessionInv, UserInv, NEW o \in Consumers, NEW op, ApiTask(op), Subject = o
  PROVE  /\ IsQueue(apiQueue) /\ apiQueue # << >>
         /\ op \in {"Start", "Stop", "Destroy"}
         /\ Head(apiQueue) = <<op, o>> /\ Head(apiQueue) \in Tasks(apiQueue)
<1>1. IsQueue(apiQueue) /\ apiQueue # << >>
  BY DEF SessionInv, StartInv, ApiTask
<1>2. Head(apiQueue) \in Tasks(apiQueue) /\ IsTask(Head(apiQueue))
  <2>1. Head(apiQueue) \in Tasks(apiQueue)
    BY <1>1, TasksAfter
  <2> QED
    BY <2>1 DEF UserInv, FormInv
<1>3. Head(apiQueue)[1] = op /\ Head(apiQueue)[2] = o /\ o \notin Cameras
  BY Classes DEF ApiTask, Subject
<1>4. \A d, c : AddOf(d, c)[2] = d /\ RemoveOf(d, c)[2] = d
  BY TaskNames DEF AddOf, RemoveOf
<1>5. PICK kind \in {"Start", "Stop", "Destroy"}, d \in Objects : Head(apiQueue) = <<kind, d>>
  BY <1>2, <1>3, <1>4 DEF IsTask
<1> QED
  BY <1>1, <1>2, <1>3, <1>5

\* A push or a preview stops: the removal from its camera is posted.
LEMMA UserStop ==
  ASSUME SessionInv, UserInv, NEW x \in Consumers, ApiTask("Stop"), Subject = x,
         NEW r, TaskOf(x, "Stop", r), r \in {<< >>, <<RemoveOf(source[x].cam, x)>>},
         \A cam \in Cameras : Linked(cam, x) => r # << >>,
         \A mic \in Mics : ~Listed(mic, x)'
  PROVE  UserInv'
<1>1. IsQueue(apiQueue) /\ Head(apiQueue) = StopOf(x) /\ Takes(r) /\ form' = form
      /\ source' = source
  BY HeadOf DEF StopOf, TaskOf
<1>2. /\ FormInv' /\ ListsOK'
      /\ \A o \in Consumers : OrderOK(o)'
      /\ \A cam \in Cameras, o \in Consumers : o # x => LinkOK(cam, o)'
      /\ \A mic \in Mics, o \in Consumers : o # x => MicOK(mic, o)'
  BY <1>1, TaskStepOf
<1>3. OrderOK(x)
  BY DEF UserInv
<1>4. StopOf(x) \notin Tasks(r)
  <2>1. Tasks(<< >>) = {} /\ \A t : Tasks(<<t>>) = {t}
    BY ListedTasks
  <2> QED
    BY <2>1, LinkNames
<1>5. ~Waits(x)'
  <2>1. StopOf(x) \in Tasks(apiQueue) /\ Once(apiQueue, StopOf(x))
    BY <1>1, <1>3, TakesFacts DEF OrderOK
  <2>2. StopOf(x) \notin Tasks(apiQueue')
    BY <1>1, <1>4, <2>1, TakesFacts
  <2>3. ~Held(x)
    BY <1>3, <2>1 DEF OrderOK
  <2> QED
    BY <1>1, <2>2, <2>3 DEF Waits, Held
<1>6. ASSUME NEW cam \in Cameras PROVE LinkOK(cam, x)'
  <2>1. LinkOK(cam, x)
    BY DEF UserInv
  <2>2. /\ Listed(cam, x)' <=> Listed(cam, x)
        /\ x \in chained => x \in chained'
        /\ life[x] # "none" => life'[x] # "none"
    BY DEF TaskOf
  <2>3. Linked(cam, x) => r # << >>
    OBVIOUS
  <2> QED
    BY <1>1, <1>3, <1>5, <2>1, <2>2, <2>3, LinkStop
<1>7. \A mic \in Mics : MicOK(mic, x)'
  BY DEF MicOK
<1> QED
  BY <1>2, <1>6, <1>7 DEF UserInv

\* StopPush takes the push out of the list of its microphone.
LEMMA UserStopPush ==
  ASSUME SessionInv, UserInv, NEW p \in Pushers, StopPush(p)
  PROVE  UserInv'
<1> DEFINE s == source[p]
           r == IF p \in chained /\ s.cam # None THEN <<RemoveOf(s.cam, p)>> ELSE << >>
<1>1. CASE Crash("device")
  BY <1>1, UserCrash
<1>2. CASE ~Crash("device")
  <2>1. /\ p \in Consumers /\ p \notin Previews /\ s \in Sources
        /\ ApiTask("Stop") /\ Subject = p
    BY Classes DEF UserInv, FormInv, StopPush
  <2>2. IsQueue(apiQueue) /\ apiQueue # << >> /\ Head(apiQueue) = StopOf(p)
        /\ Head(apiQueue) \in Tasks(apiQueue)
    BY <2>1, HeadOf DEF StopOf
  <2>3. /\ consumer_list' = IF p \in chained /\ s.mic # None THEN Removed(s.mic, p)
                                                             ELSE consumer_list
        /\ apiQueue' = IF p \in chained /\ s.cam # None
                       THEN Append(Tail(apiQueue), RemoveOf(s.cam, p)) ELSE Tail(apiQueue)
        /\ UNCHANGED <<life, has_start, form, source, videoInit, audioInit, chained>>
    BY <1>2 DEF StopPush, sessionVars, RemoveOf
  <2>4. Takes(r)
    BY <2>2, <2>3, TakesOne
  <2>5. /\ ListsOK'
        /\ \A d \in Cameras \cup Mics, o \in Consumers :
             o # p \/ d \in Cameras => (Listed(d, o)' <=> Listed(d, o))
        /\ \A mic \in Mics : ~Listed(mic, p)'
    <3>1. ASSUME NEW mic \in Mics, Listed(mic, p) PROVE p \in chained /\ s.mic = mic /\ s.mic # None
      <4>1. MicOK(mic, p)
        BY <2>1 DEF UserInv
      <4> QED
        BY <3>1, <4>1, Classes DEF MicOK
    <3>2. CASE p \in chained /\ s.mic # None
      <4>1. s.mic \in Mics /\ s.mic \notin Cameras /\ ListsOK /\ consumer_list' = Removed(s.mic, p)
        BY <2>1, <2>3, <3>2, Classes DEF Sources, UserInv
      <4>2. /\ ListsOK'
            /\ \A e \in Cameras \cup Mics : \A o :
                  Listed(e, o)' <=> Listed(e, o) /\ ~(e = s.mic /\ o = p)
        BY <4>1, ListsRemove
      <4> QED
        BY <3>1, <4>1, <4>2
    <3>3. CASE ~(p \in chained /\ s.mic # None)
      <4>1. consumer_list' = consumer_list /\ ListsOK
        BY <2>3, <3>3 DEF UserInv
      <4>2. ListsOK' /\ \A d, o : Listed(d, o)' <=> Listed(d, o)
        BY <4>1, ListsFrame
      <4> QED
        BY <3>1, <3>3, <4>2
    <3> QED
      BY <3>2, <3>3
  <2>6. r = << >> \/ (s.cam \in Cameras /\ r = <<RemoveOf(s.cam, p)>>)
    BY <2>1 DEF Sources
  <2>7. TaskOf(p, "Stop", r)
    <3>1. has_start' \in [Cameras \cup Mics \cup Previews -> BOOLEAN]
      BY <2>3 DEF UserInv, FormInv
    <3>2. \A t \in Tasks(r) : \E cam \in Cameras : t \in {AddOf(cam, p), RemoveOf(cam, p)}
      <4>1. Tasks(<< >>) = {} /\ \A t : Tasks(<<t>>) = {t}
        BY ListedTasks
      <4> QED
        BY <2>6, <4>1
    <3> HIDE DEF s, r
    <3> QED
      BY <2>2, <2>3, <2>4, <2>5, <3>1, <3>2 DEF TaskOf, StopOf
  <2>8. ASSUME NEW cam \in Cameras, Linked(cam, p) PROVE r # << >>
    <3>1. LinkOK(cam, p) /\ cam # None
      BY <2>1, Classes DEF UserInv
    <3> QED
      BY <2>8, <3>1 DEF LinkOK
  <2> HIDE DEF r
  <2>9. r \in {<< >>, <<RemoveOf(source[p].cam, p)>>}
    BY <2>6
  <2> QED
    BY <2>1, <2>5, <2>7, <2>8, <2>9, UserStop
<1> QED
  BY <1>1, <1>2

\* A push or a preview is deleted.
LEMMA UserDestroy ==
  ASSUME SessionInv, UserInv, NEW x \in Consumers, ApiTask("Destroy"), Subject = x,
         apiQueue' = Tail(apiQueue), life' \in {[life EXCEPT ![x] = e] : e \in {"dying", "dead"}},
         UNCHANGED <<has_start, consumer_list, form, source, videoInit, audioInit, chained>>
  PROVE  UserInv'
<1>1. /\ IsQueue(apiQueue) /\ apiQueue # << >> /\ Head(apiQueue) = DestroyOf(x)
      /\ Head(apiQueue) \in Tasks(apiQueue)
  BY HeadOf DEF DestroyOf
<1>2. Takes(<< >>) /\ Tasks(<< >>) = {}
  BY <1>1, TakesOne, ListedTasks
<1>3. Alive(x)
  <2>1. OrderOK(x)
    BY DEF UserInv
  <2> QED
    BY <1>1, <2>1 DEF OrderOK
<1>4. /\ life'[x] # "none" /\ life[x] # "none"
      /\ \A o \in Consumers : o # x => life'[o] = life[o]
  BY <1>3, Classes DEF SessionInv, SinkInv, LifeOK, Alive
<1>5. ListsOK' /\ \A d, o : Listed(d, o)' <=> Listed(d, o)
  BY ListsFrame DEF UserInv
<1>6. TaskOf(x, "Destroy", << >>)
  <2>1. has_start' \in [Cameras \cup Mics \cup Previews -> BOOLEAN]
    BY DEF UserInv, FormInv
  <2> QED
    BY <1>1, <1>2, <1>4, <1>5, <2>1 DEF TaskOf, DestroyOf
<1>7. /\ FormInv' /\ ListsOK'
      /\ \A o \in Consumers : OrderOK(o)'
      /\ Waits(x)' <=> Waits(x)
      /\ \A cam \in Cameras, o \in Consumers : o # x => LinkOK(cam, o)'
      /\ \A mic \in Mics, o \in Consumers : o # x => MicOK(mic, o)'
  BY <1>1, <1>6, TaskStepOf
<1>8. ASSUME NEW cam \in Cameras PROVE LinkOK(cam, x)'
  <2>1. LinkOK(cam, x)
    BY DEF UserInv
  <2>2. Grows(x)
    BY <1>4 DEF Grows
  <2>3. Head(apiQueue) # AddOf(cam, x) /\ Head(apiQueue) # RemoveOf(cam, x)
    BY <1>1, TaskNames DEF AddOf, RemoveOf
  <2> QED
    BY <1>1, <1>2, <1>5, <1>7, <2>1, <2>2, <2>3, LinkTake
<1>9. ASSUME NEW mic \in Mics PROVE MicOK(mic, x)'
  <2>1. MicOK(mic, x)
    BY DEF UserInv
  <2> QED
    BY <1>5, <1>7, <2>1 DEF MicOK
<1> QED
  BY <1>7, <1>8, <1>9 DEF UserInv

\* The chain of a push goes at once, or when its streams are deleted.
LEMMA UserDestroyPusher ==
  ASSUME SessionInv, UserInv, NEW p \in Pushers, DestroyPusher(p)
  PROVE  UserInv'
<1>1. /\ ApiTask("Destroy") /\ Subject = p /\ apiQueue' = Tail(apiQueue)
      /\ life' \in {[life EXCEPT ![p] = e] : e \in {"dying", "dead"}}
      /\ UNCHANGED <<has_start, consumer_list, form, source, videoInit, audioInit, chained>>
  BY DEF DestroyPusher
<1> QED
  BY <1>1, Classes, UserDestroy

\* The preview starts.
LEMMA UserStartPreview ==
  ASSUME SessionInv, UserInv, NEW v \in Previews, StartPreview(v)
  PROVE  UserInv'
<1> DEFINE c == source[v].cam
           r == IF has_start[v] THEN << >> ELSE <<AddOf(c, v)>>
<1>1. /\ v \in Consumers /\ v \notin Pushers /\ source[v] \in Sources
      /\ ApiTask("Start") /\ Subject = v
      /\ v \notin Cameras /\ v \notin Mics
  BY Classes DEF UserInv, FormInv, StartPreview
<1>2. IsQueue(apiQueue) /\ apiQueue # << >> /\ Head(apiQueue) = StartOf(v)
      /\ Head(apiQueue) \in Tasks(apiQueue)
  BY <1>1, HeadOf DEF StartOf
<1>3. /\ has_start' = [has_start EXCEPT ![v] = TRUE]
      /\ apiQueue' = IF has_start[v] THEN Tail(apiQueue)
                     ELSE Append(Tail(apiQueue), AddOf(c, v))
      /\ UNCHANGED <<life, consumer_list, form, source, videoInit, audioInit, chained>>
  BY DEF StartPreview, sessionVars, AddOf
<1>4. Takes(r)
  BY <1>2, <1>3, TakesOne
<1>5. ListsOK' /\ \A d, o : Listed(d, o)' <=> Listed(d, o)
  BY <1>3, ListsFrame DEF UserInv
<1>6. OrderOK(v) /\ life[v] # "none"
  <2>1. OrderOK(v) /\ StartOf(v) \in Tasks(apiQueue)
    BY <1>1, <1>2 DEF UserInv
  <2>2. Waits(v)
    BY <2>1 DEF OrderOK
  <2> QED
    BY <2>1, <2>2, WaitsAlive DEF Alive
<1>7. c \in Cameras
  <2>1. c # None
    BY <1>6 DEF UserInv, FormInv
  <2> QED
    BY <1>1, <2>1 DEF Sources
<1>8. /\ has_start' \in [Cameras \cup Mics \cup Previews -> BOOLEAN] /\ has_start'[v]
      /\ \A o : o \in Previews /\ o # v => has_start'[o] = has_start[o]
  BY <1>3 DEF UserInv, FormInv
<1>9. TaskOf(v, "Start", r)
  <2>1. \A t \in Tasks(r) : \E cam \in Cameras : t \in {AddOf(cam, v), RemoveOf(cam, v)}
    <3>1. Tasks(<< >>) = {} /\ \A t : Tasks(<<t>>) = {t}
      BY ListedTasks
    <3> QED
      BY <1>7, <3>1
  <2> HIDE DEF r, c
  <2> QED
    BY <1>2, <1>3, <1>4, <1>5, <1>8, <2>1 DEF TaskOf, StartOf
<1>10. r = << >> \/ /\ r = <<AddOf(source[v].cam, v)>>
                    /\ source'[v] = source[v] /\ life'[v] # "none"
                    /\ v \in Pushers => v \in chained'
                    /\ v \in Previews => has_start'[v]
  BY <1>1, <1>3, <1>6, <1>8
<1> HIDE DEF r, c
<1>11. /\ FormInv' /\ ListsOK'
       /\ \A o \in Consumers : OrderOK(o)'
       /\ Waits(v)' <=> Waits(v)
       /\ \A cam \in Cameras, o \in Consumers : o # v => LinkOK(cam, o)'
       /\ \A mic \in Mics, o \in Consumers : o # v => MicOK(mic, o)'
  BY <1>1, <1>2, <1>9, TaskStepOf
<1>12. ASSUME NEW cam \in Cameras PROVE LinkOK(cam, v)'
  <2>1. LinkOK(cam, v)
    BY <1>1 DEF UserInv
  <2>2. \A d : Listed(d, v)' /\ d = cam => Listed(d, v)
    BY <1>5
  <2>3. Waits(v)' <=> Waits(v)
    BY <1>11
  <2> QED
    BY <1>2, <1>4, <1>6, <1>10, <2>1, <2>2, <2>3, LinkStart
<1>13. ASSUME NEW mic \in Mics PROVE MicOK(mic, v)'
  <2>1. MicOK(mic, v)
    BY <1>1 DEF UserInv
  <2>2. (Waits(v)' <=> Waits(v)) /\ (Listed(mic, v)' <=> Listed(mic, v))
        /\ source' = source /\ chained' = chained
    BY <1>3, <1>5, <1>11
  <2> QED
    BY <2>1, <2>2 DEF MicOK
<1> QED
  BY <1>11, <1>12, <1>13 DEF UserInv

\* The preview stops.
LEMMA UserStopPreview ==
  ASSUME SessionInv, UserInv, NEW v \in Previews, StopPreview(v)
  PROVE  UserInv'
<1> DEFINE c == source[v].cam
           r == IF has_start[v] THEN <<RemoveOf(c, v)>> ELSE << >>
<1>1. CASE Crash("device")
  BY <1>1, UserCrash
<1>2. CASE ~Crash("device")
  <2>1. /\ v \in Consumers /\ v \notin Pushers /\ source[v] \in Sources
        /\ ApiTask("Stop") /\ Subject = v
        /\ v \notin Cameras /\ v \notin Mics
    BY Classes DEF UserInv, FormInv, StopPreview
  <2>2. IsQueue(apiQueue) /\ apiQueue # << >> /\ Head(apiQueue) = StopOf(v)
        /\ Head(apiQueue) \in Tasks(apiQueue)
    BY <2>1, HeadOf DEF StopOf
  <2>3. /\ has_start' = [has_start EXCEPT ![v] = FALSE]
        /\ apiQueue' = IF has_start[v] THEN Append(Tail(apiQueue), RemoveOf(c, v))
                       ELSE Tail(apiQueue)
        /\ UNCHANGED <<life, consumer_list, form, source, videoInit, audioInit, chained>>
    BY <1>2 DEF StopPreview, RemoveOf
  <2>4. Takes(r)
    BY <2>2, <2>3, TakesOne
  <2>5. ListsOK' /\ \A d, o : Listed(d, o)' <=> Listed(d, o)
    BY <2>3, ListsFrame DEF UserInv
  <2>6. OrderOK(v) /\ life[v] # "none" /\ Waits(v)
    <3>1. OrderOK(v) /\ StopOf(v) \in Tasks(apiQueue)
      BY <2>1, <2>2 DEF UserInv
    <3>2. Waits(v)
      BY <3>1 DEF Waits
    <3> QED
      BY <3>1, <3>2, WaitsAlive DEF Alive
  <2>7. c \in Cameras
    <3>1. c # None
      BY <2>6 DEF UserInv, FormInv
    <3> QED
      BY <2>1, <3>1 DEF Sources
  <2>8. /\ has_start' \in [Cameras \cup Mics \cup Previews -> BOOLEAN]
        /\ \A o : o \in Previews /\ o # v => has_start'[o] = has_start[o]
    BY <2>3 DEF UserInv, FormInv
  <2>9. TaskOf(v, "Stop", r)
    <3>1. \A t \in Tasks(r) : \E cam \in Cameras : t \in {AddOf(cam, v), RemoveOf(cam, v)}
      <4>1. Tasks(<< >>) = {} /\ \A t : Tasks(<<t>>) = {t}
        BY ListedTasks
      <4> QED
        BY <2>7, <4>1
    <3> HIDE DEF r, c
    <3> QED
      BY <2>2, <2>3, <2>4, <2>5, <2>8, <3>1 DEF TaskOf, StopOf
  <2>10. r \in {<< >>, <<RemoveOf(source[v].cam, v)>>}
    OBVIOUS
  <2>11. ASSUME NEW cam \in Cameras, Linked(cam, v) PROVE r # << >>
    <3>1. LinkOK(cam, v)
      BY <2>1 DEF UserInv
    <3>2. has_start[v]
      BY <2>6, <2>11, <3>1 DEF LinkOK
    <3> QED
      BY <3>2
  <2>12. ASSUME NEW mic \in Mics PROVE ~Listed(mic, v)'
    <3>1. MicOK(mic, v)
      BY <2>1 DEF UserInv
    <3>2. v \notin chained
      BY <2>1 DEF SessionInv, SinkInv, ObjectInv
    <3> QED
      BY <2>5, <3>1, <3>2 DEF MicOK
  <2> HIDE DEF r, c
  <2> QED
    BY <2>1, <2>9, <2>10, <2>11, <2>12, UserStop
<1> QED
  BY <1>1, <1>2

\* The preview is deleted.
LEMMA UserDestroyPreview ==
  ASSUME SessionInv, UserInv, NEW v \in Previews, DestroyPreview(v)
  PROVE  UserInv'
<1>1. /\ ApiTask("Destroy") /\ Subject = v /\ apiQueue' = Tail(apiQueue)
      /\ life' \in {[life EXCEPT ![v] = e] : e \in {"dying", "dead"}}
      /\ UNCHANGED <<has_start, consumer_list, form, source, videoInit, audioInit, chained>>
  BY DEF DestroyPreview, sessionVars
<1> QED
  BY <1>1, Classes, UserDestroy

-----------------------------------------------------------------------------
(* The tasks of devices.                                                   *)

\* A step in which the api thread takes a task of a device.
DeviceStep ==
  /\ Takes(<< >>)
  /\ Head(apiQueue)[2] \in Cameras \cup Mics
  /\ UNCHANGED <<form, source, chained>>
  /\ \A o \in Consumers : life'[o] = life[o]
  /\ has_start' \in [Cameras \cup Mics \cup Previews -> BOOLEAN]
  /\ \A v \in Previews : has_start'[v] = has_start[v]
  /\ videoInit' = videoInit \/ \E cam \in Cameras : Head(apiQueue) = StartOf(cam)
  /\ audioInit' = audioInit \/ \E mic \in Mics : Head(apiQueue) = StartOf(mic)

\* It keeps what the invariant says of the consumers.
LEMMA DeviceStepOf ==
  ASSUME UserInv, IsQueue(apiQueue), DeviceStep
  PROVE  /\ FormInv'
         /\ \A o \in Consumers : OrderOK(o)' /\ (Waits(o)' <=> Waits(o)) /\ Grows(o)
         /\ \A cam \in Cameras, o \in Consumers :
              /\ Head(apiQueue) # AddOf(cam, o) /\ Head(apiQueue) # RemoveOf(cam, o)
              /\ Listed(cam, o)' <=> Listed(cam, o)
              => LinkOK(cam, o)'
         /\ \A mic \in Mics, o \in Consumers :
              (Listed(mic, o)' <=> Listed(mic, o)) => MicOK(mic, o)'
<1>1. Takes(<< >>) /\ Tasks(<< >>) = {}
  BY ListedTasks DEF DeviceStep
<1>2. FormInv'
  <2>1. \A v \in Previews : life'[v] # "none" => life[v] # "none"
    BY Classes DEF DeviceStep
  <2>2. /\ has_start' \in [Cameras \cup Mics \cup Previews -> BOOLEAN]
        /\ UNCHANGED <<form, source>>
        /\ videoInit' = videoInit \/ \E cam \in Cameras : Head(apiQueue) = StartOf(cam)
        /\ audioInit' = audioInit \/ \E mic \in Mics : Head(apiQueue) = StartOf(mic)
    BY Zenon DEF DeviceStep
  <2>3. FormInv /\ \A t \in Tasks(<< >>) : IsTask(t) /\ t[1] # "Start"
    BY <1>1 DEF UserInv
  <2> QED
    BY <1>1, <2>1, <2>2, <2>3, FormTake
<1>3. ASSUME NEW o \in Consumers
      PROVE OrderOK(o)' /\ (Waits(o)' <=> Waits(o)) /\ Grows(o)
  <2>1. OrderOK(o)
    BY DEF UserInv
  <2>2. Head(apiQueue) # StopOf(o)
    BY Classes, TaskNames DEF DeviceStep
  <2>3. form' = form /\ chained' = chained /\ (Alive(o)' <=> Alive(o))
    BY DEF DeviceStep, Alive
  <2>4. Grows(o)
    BY DEF DeviceStep, Grows
  <2> QED
    BY <1>1, <2>1, <2>2, <2>3, <2>4, OrderTake
<1>4. ASSUME NEW cam \in Cameras, NEW o \in Consumers,
             Head(apiQueue) # AddOf(cam, o), Head(apiQueue) # RemoveOf(cam, o),
             Listed(cam, o)' <=> Listed(cam, o)
      PROVE  LinkOK(cam, o)'
  <2>1. LinkOK(cam, o)
    BY DEF UserInv
  <2> QED
    BY <1>1, <1>3, <1>4, <2>1, LinkTake
<1>5. ASSUME NEW mic \in Mics, NEW o \in Consumers, Listed(mic, o)' <=> Listed(mic, o)
      PROVE  MicOK(mic, o)'
  <2>1. MicOK(mic, o)
    BY DEF UserInv
  <2>2. source' = source /\ chained' = chained
    BY DEF DeviceStep
  <2> QED
    BY <1>3, <1>5, <2>1, <2>2 DEF MicOK
<1> QED
  BY <1>2, <1>3, <1>4, <1>5

\* One that changes no list.
LEMMA DeviceQuiet ==
  ASSUME UserInv, IsQueue(apiQueue), DeviceStep, UNCHANGED consumer_list,
         Head(apiQueue)[1] \notin {"Add", "Remove"}
  PROVE  UserInv'
<1>1. ListsOK' /\ \A d, o : Listed(d, o)' <=> Listed(d, o)
  BY ListsFrame DEF UserInv
<1>2. \A cam, o : Head(apiQueue) # AddOf(cam, o) /\ Head(apiQueue) # RemoveOf(cam, o)
  BY TaskNames DEF AddOf, RemoveOf
<1> QED
  BY <1>1, <1>2, DeviceStepOf DEF UserInv

\* One that adds a consumer to the list of a camera, or removes it.
LEMMA DeviceChanges ==
  ASSUME UserInv, IsQueue(apiQueue), DeviceStep, Head(apiQueue)[1] \in {"Add", "Remove"},
         ChangeConsumers(Head(apiQueue))
  PROVE  UserInv'
<1> DEFINE h == Head(apiQueue)
<1>1. PICK cam \in Cameras, c \in Consumers : h \in {AddOf(cam, c), RemoveOf(cam, c)}
  <2>1. apiQueue # << >>
    BY DEF DeviceStep, Takes
  <2>2. h \in Tasks(apiQueue)
    BY <2>1, TasksAfter
  <2>3. IsTask(h)
    BY <2>2 DEF UserInv, FormInv
  <2> QED
    BY <2>3 DEF IsTask
<1>2. /\ FormInv'
      /\ \A o \in Consumers : OrderOK(o)' /\ (Waits(o)' <=> Waits(o)) /\ Grows(o)
      /\ \A d \in Cameras, o \in Consumers :
           /\ h # AddOf(d, o) /\ h # RemoveOf(d, o)
           /\ Listed(d, o)' <=> Listed(d, o)
           => LinkOK(d, o)'
      /\ \A mic \in Mics, o \in Consumers :
           (Listed(mic, o)' <=> Listed(mic, o)) => MicOK(mic, o)'
  BY DeviceStepOf
<1>3. Takes(<< >>) /\ LinkOK(cam, c) /\ ListsOK
  BY DEF DeviceStep, UserInv
<1>4. \A d \in Mics : d # cam
  BY Classes
<1>5. \A d, o : d # cam \/ o # c => h # AddOf(d, o) /\ h # RemoveOf(d, o)
  BY <1>1, LinkNames
<1>6. CASE h = AddOf(cam, c)
  <2>1. consumer_list' = Added(cam, c)
    BY <1>6, TaskNames DEF ChangeConsumers, AddOf
  <2>2. LinkOK(cam, c)' /\ ~Listed(cam, c)
    BY <1>2, <1>3, <1>6, LinkAdd
  <2>3. /\ ListsOK'
        /\ \A e \in Cameras \cup Mics : \A o : Listed(e, o)' <=> Listed(e, o) \/ (e = cam /\ o = c)
    BY <1>3, <2>1, <2>2, ListsAdd
  <2> HIDE DEF h
  <2>4. \A d \in Cameras, o \in Consumers : LinkOK(d, o)'
    BY <1>2, <1>5, <2>2, <2>3
  <2> QED
    BY <1>2, <1>4, <2>3, <2>4 DEF UserInv
<1>7. CASE h = RemoveOf(cam, c)
  <2>1. consumer_list' = Removed(cam, c)
    BY <1>7, TaskNames DEF ChangeConsumers, RemoveOf
  <2>2. /\ ListsOK'
        /\ \A e \in Cameras \cup Mics : \A o : Listed(e, o)' <=> Listed(e, o) /\ ~(e = cam /\ o = c)
    BY <1>3, <2>1, ListsRemove
  <2>3. LinkOK(cam, c)'
    BY <1>2, <1>3, <1>7, <2>2, LinkRemove
  <2> HIDE DEF h
  <2>4. \A d \in Cameras, o \in Consumers : LinkOK(d, o)'
    BY <1>2, <1>5, <2>2, <2>3
  <2> QED
    BY <1>2, <1>4, <2>2, <2>4 DEF UserInv
<1> QED
  BY <1>1, <1>6, <1>7

\* Start, Stop and Destroy of a device, and changes of a camera's list.
LEMMA UserDeviceTask ==
  ASSUME SessionInv, UserInv, DeviceTask
  PROVE  UserInv'
<1>1. CASE Crash("device")
  BY <1>1, UserCrash
<1>2. CASE ~Crash("device")
  <2> DEFINE d == Head(apiQueue)[2]
  <2>1. /\ IsQueue(apiQueue) /\ apiQueue # << >> /\ apiQueue' = Tail(apiQueue)
        /\ d \in Cameras \cup Mics
        /\ UNCHANGED <<form, source, chained>>
    BY <1>2 DEF SessionInv, StartInv, DeviceTask, sessionVars, Subject
  <2>2. \/ ApiTask("Start") /\ d \in Cameras /\ StartCamera(d)
        \/ ApiTask("Start") /\ d \in Mics /\ StartMic(d)
        \/ ApiTask("Stop") /\ (StopCamera(d) \/ StopMic(d))
        \/ ApiTask("Destroy") /\ DestroyDevice(d)
        \/ Head(apiQueue)[1] \in {"Add", "Remove"} /\ ChangeConsumers(Head(apiQueue))
    BY <1>2 DEF DeviceTask, Subject
  <2>3. Takes(<< >>) /\ IsTask(Head(apiQueue))
    <3>1. Head(apiQueue) \in Tasks(apiQueue)
      BY <2>1, TasksAfter
    <3> QED
      BY <2>1, <3>1, TakesOne DEF UserInv, FormInv
  <2>4. ASSUME ApiTask("Start") PROVE Head(apiQueue) = StartOf(d)
    <3>1. Head(apiQueue)[1] = "Start"
      BY <2>4 DEF ApiTask
    <3> QED
      BY <2>3, <3>1, TaskNames DEF IsTask, AddOf, RemoveOf, StartOf
  <2>5. \A o \in Consumers : o # d
    BY <2>1, Classes
  <2>6. /\ has_start \in [Cameras \cup Mics \cup Previews -> BOOLEAN]
        /\ life \in [Objects -> {"none", "alive", "dying", "dead"}]
    BY DEF UserInv, FormInv, SessionInv, SinkInv, LifeOK
  <2> HIDE DEF d
  <2>7. /\ has_start' \in [Cameras \cup Mics \cup Previews -> BOOLEAN]
        /\ \A v \in Previews : has_start'[v] = has_start[v]
    <3>1. \/ UNCHANGED has_start
          \/ has_start' = [has_start EXCEPT ![d] = TRUE]
          \/ has_start' = [has_start EXCEPT ![d] = FALSE]
      BY <2>2 DEF StartCamera, StartMic, StopCamera, StopMic, DestroyDevice, ChangeConsumers
    <3>2. \A v \in Previews : v # d
      BY <2>5, Classes
    <3> QED
      BY <2>6, <3>1, <3>2
  <2>8. \A o \in Consumers : life'[o] = life[o]
    <3>1. UNCHANGED life \/ life' = [life EXCEPT ![d] = "dead"]
      BY <2>2 DEF StartCamera, StartMic, StopCamera, StopMic, DestroyDevice, ChangeConsumers
    <3> QED
      BY <2>5, <2>6, <3>1, Classes
  <2>9. /\ videoInit' = videoInit \/ \E cam \in Cameras : Head(apiQueue) = StartOf(cam)
        /\ audioInit' = audioInit \/ \E mic \in Mics : Head(apiQueue) = StartOf(mic)
    <3>1. ASSUME ApiTask("Start"), d \in Cameras, StartCamera(d)
          PROVE  audioInit' = audioInit /\ \E cam \in Cameras : Head(apiQueue) = StartOf(cam)
      BY <2>4, <3>1 DEF StartCamera
    <3>2. ASSUME ApiTask("Start"), d \in Mics, StartMic(d)
          PROVE  videoInit' = videoInit /\ \E mic \in Mics : Head(apiQueue) = StartOf(mic)
      BY <2>4, <3>2 DEF StartMic
    <3>3. StopCamera(d) \/ StopMic(d) \/ DestroyDevice(d) \/ ChangeConsumers(Head(apiQueue))
            => videoInit' = videoInit /\ audioInit' = audioInit
      BY DEF StopCamera, StopMic, DestroyDevice, ChangeConsumers
    <3> QED
      BY <2>2, <3>1, <3>2, <3>3
  <2>10. DeviceStep
    BY <2>1, <2>3, <2>7, <2>8, <2>9 DEF DeviceStep, d
  <2>11. CASE Head(apiQueue)[1] \in {"Add", "Remove"} /\ ChangeConsumers(Head(apiQueue))
    BY <2>1, <2>10, <2>11, DeviceChanges
  <2>12. CASE ~(Head(apiQueue)[1] \in {"Add", "Remove"} /\ ChangeConsumers(Head(apiQueue)))
    <3>1. UNCHANGED consumer_list /\ Head(apiQueue)[1] \notin {"Add", "Remove"}
      BY <2>2, <2>12 DEF ApiTask, StartCamera, StartMic, StopCamera, StopMic, DestroyDevice
    <3> QED
      BY <2>1, <2>10, <3>1, DeviceQuiet
  <2> QED
    BY <2>11, <2>12
<1> QED
  BY <1>1, <1>2

\* A frame is delivered.
LEMMA UserDeliverVideo ==
  ASSUME SessionInv, UserInv, DeliverVideo
  PROVE  UserInv'
<1>1. ASSUME Deliver(Subject), apiQueue' = Tail(apiQueue) PROVE UserInv'
  <2>1. /\ IsQueue(apiQueue) /\ apiQueue # << >> /\ Head(apiQueue)[1] = "Frame"
    BY DEF SessionInv, StartInv, DeliverVideo, ApiTask
  <2>2. Head(apiQueue)[2] \in Cameras
    <3>1. Head(apiQueue) \in Tasks(apiQueue)
      BY <2>1, TasksAfter
    <3>2. IsTask(Head(apiQueue))
      BY <3>1 DEF UserInv, FormInv
    <3> QED
      BY <2>1, <3>2, TaskNames DEF IsTask, AddOf, RemoveOf
  <2>3. Takes(<< >>)
    BY <1>1, <2>1, TakesOne
  <2>4. UNCHANGED <<life, has_start, consumer_list, videoInit, audioInit, form, source, chained>>
    BY <1>1 DEF Deliver
  <2>5. DeviceStep
    BY <2>2, <2>3, <2>4 DEF DeviceStep, UserInv, FormInv
  <2> QED
    BY <2>1, <2>4, <2>5, DeviceQuiet
<1> QED
  BY <1>1, UserCrash DEF DeliverVideo

-----------------------------------------------------------------------------
(* The steps of the user and of the capture threads.                       *)

\* A step that posts tasks, which are no tasks of a consumer's start and
\* change no list.
Posts(r) ==
  /\ IsQueue(r) /\ apiQueue' = apiQueue \o r
  /\ \A o : StartOf(o) \in Tasks(r) => o \in Cameras \cup Mics
  /\ \A t \in Tasks(r) : t[1] \notin {"Add", "Remove"}
  /\ UNCHANGED <<source, chained, has_start, consumer_list>>
  /\ \A o \in Consumers : life'[o] = life[o]

\* Such a step keeps the links of a consumer whose order is kept.
LEMMA PostStepOf ==
  ASSUME UserInv, IsQueue(apiQueue), NEW r, Posts(r), NEW o \in Consumers,
         OrderOK(o)', Waits(o)' <=> Waits(o)
  PROVE  /\ \A cam \in Cameras : LinkOK(cam, o)'
         /\ \A mic \in Mics : MicOK(mic, o)'
<1>1. \A d, c : Listed(d, c)' <=> Listed(d, c)
  BY ListsFrame DEF Posts
<1>2. ASSUME NEW cam \in Cameras PROVE LinkOK(cam, o)'
  <2>1. LinkOK(cam, o) /\ IsQueue(r) /\ apiQueue' = apiQueue \o r
    BY DEF UserInv, Posts
  <2>2. /\ AddOf(cam, o) \notin Tasks(r) /\ RemoveOf(cam, o) \notin Tasks(r)
        /\ StartOf(o) \notin Tasks(r)
    BY Classes, TaskNames DEF Posts, AddOf, RemoveOf
  <2>3. Grows(o)
    BY DEF Posts, Grows
  <2> QED
    BY <1>1, <2>1, <2>2, <2>3, LinkKeep
<1>3. ASSUME NEW mic \in Mics PROVE MicOK(mic, o)'
  <2>1. MicOK(mic, o) /\ source' = source /\ chained' = chained
    BY DEF UserInv, Posts
  <2> QED
    BY <1>1, <2>1 DEF MicOK
<1> QED
  BY <1>2, <1>3

\* Tasks of devices, or frames of cameras.
LEMMA PostOfDevices ==
  ASSUME UserInv, IsQueue(apiQueue), NEW r, Posts(r), \A t \in Tasks(r) : t[2] \in Cameras \cup Mics,
         form'.pusher = form.pusher, form'.preview = form.preview
  PROVE  /\ \A o \in Consumers : OrderOK(o)'
         /\ \A cam \in Cameras, o \in Consumers : LinkOK(cam, o)'
         /\ \A mic \in Mics, o \in Consumers : MicOK(mic, o)'
         /\ ListsOK'
<1>1. ASSUME NEW o \in Consumers PROVE OrderOK(o)' /\ (Waits(o)' <=> Waits(o))
  <2>1. OrderOK(o) /\ IsQueue(r) /\ apiQueue' = apiQueue \o r
    BY DEF UserInv, Posts
  <2>2. StartOf(o) \notin Tasks(r) /\ StopOf(o) \notin Tasks(r) /\ DestroyOf(o) \notin Tasks(r)
    BY Classes, TaskNames
  <2>3. (Held(o)' <=> Held(o)) /\ (Alive(o) => Alive(o)') /\ chained' = chained
    BY DEF Posts, Held, Alive
  <2> QED
    BY <2>1, <2>2, <2>3, OrderKeep
<1>2. ListsOK'
  BY ListsFrame DEF Posts, UserInv
<1> QED
  BY <1>1, <1>2, PostStepOf

\* A picture is captured.
LEMMA UserCaptureCamera ==
  ASSUME SessionInv, UserInv, NEW cam \in Cameras, CaptureCamera(cam)
  PROVE  UserInv'
<1> DEFINE t == <<"Frame", cam>>
<1>1. /\ IsQueue(apiQueue) /\ apiQueue' = Append(apiQueue, t)
      /\ UNCHANGED <<life, has_start, consumer_list, videoInit, audioInit, form, source, chained>>
  BY DEF SessionInv, StartInv, CaptureCamera, CaptureVideo, sessionVars
<1>2. apiQueue' = apiQueue \o <<t>> /\ IsQueue(<<t>>) /\ Tasks(<<t>>) = {t}
  BY <1>1, AppendIsPost, ListedTasks
<1>3. t[1] = "Frame" /\ t[2] = cam
  OBVIOUS
<1> HIDE DEF t
<1>4. Posts(<<t>>)
  BY <1>1, <1>2, <1>3, TaskNames DEF Posts
<1>5. /\ \A o \in Consumers : OrderOK(o)'
      /\ \A c \in Cameras, o \in Consumers : LinkOK(c, o)'
      /\ \A mic \in Mics, o \in Consumers : MicOK(mic, o)'
      /\ ListsOK'
  BY <1>1, <1>2, <1>3, <1>4, PostOfDevices
<1>6. FormInv'
  <2>1. Tasks(apiQueue') = Tasks(apiQueue) \cup {t}
    BY <1>1, TasksAfter
  <2>2. IsTask(t)
    BY DEF IsTask, t
  <2>3. \A d : StartOf(d) # t
    BY <1>3, TaskNames
  <2>4. ASSUME NEW d \in Cameras \cup Mics PROVE Once(apiQueue', StartOf(d))
    <3>1. Once(apiQueue, StartOf(d))
      BY DEF UserInv, FormInv, DeviceOK
    <3>2. Once(<<t>>, StartOf(d)) /\ StartOf(d) \notin Tasks(<<t>>)
      BY <1>2, <2>3, Short
    <3> QED
      BY <1>1, <1>2, <3>1, <3>2, OrderPost
  <2>5. DeviceOK'
    BY <1>1, <2>1, <2>3, <2>4 DEF UserInv, FormInv, DeviceOK
  <2> QED
    BY <1>1, <2>1, <2>2, <2>5 DEF UserInv, FormInv
<1> QED
  BY <1>5, <1>6 DEF UserInv

\* The devices are stopped and destroyed.
LEMMA UserStopDevices ==
  ASSUME SessionInv, UserInv, ClickStopDevices
  PROVE  UserInv'
<1> DEFINE a == StopOf(form.cam)
           b == DestroyOf(form.cam)
           c == StopOf(form.mic)
           e == DestroyOf(form.mic)
           r == <<a, b, c, e>>
<1>1. /\ IsQueue(apiQueue) /\ apiQueue' = apiQueue \o r
      /\ form' = [form EXCEPT !.cam = None, !.mic = None]
      /\ ~videoInit' /\ ~audioInit'
      /\ UNCHANGED <<life, has_start, consumer_list, source, chained>>
  BY DEF SessionInv, StartInv, ClickStopDevices, StopOf, DestroyOf
<1>2. IsQueue(r) /\ Tasks(r) = {a, b, c, e}
  BY ListedTasks
<1>3. form.cam \in Cameras /\ form.mic \in Mics /\ videoInit /\ audioInit
  <2>1. form.cam # None /\ form.mic # None /\ videoInit /\ audioInit
    BY DEF ClickStopDevices, UserInv, FormInv, DeviceOK
  <2> QED
    BY <2>1 DEF UserInv, FormInv, Forms
<1>4. \A t \in {a, b, c, e} : /\ t[1] \in {"Stop", "Destroy"} /\ t[2] \in Cameras \cup Mics
                              /\ IsTask(t)
  <2>1. {a, b, c, e} \subseteq {<<op, o>> : op \in {"Stop", "Destroy"}, o \in Cameras \cup Mics}
    BY <1>3 DEF StopOf, DestroyOf
  <2>2. Cameras \cup Mics \subseteq Objects
    BY DEF Objects
  <2> HIDE DEF a, b, c, e
  <2> QED
    BY <2>1, <2>2 DEF IsTask
<1> HIDE DEF a, b, c, e, r
<1>5. \A d : StartOf(d) \notin Tasks(r)
  BY <1>2, <1>4, TaskNames
<1>6. Posts(r)
  BY <1>1, <1>2, <1>4, <1>5 DEF Posts
<1>7. form' \in Forms /\ form'.pusher = form.pusher /\ form'.preview = form.preview
  BY <1>1 DEF UserInv, FormInv, Forms
<1>8. /\ \A o \in Consumers : OrderOK(o)'
      /\ \A cam \in Cameras, o \in Consumers : LinkOK(cam, o)'
      /\ \A mic \in Mics, o \in Consumers : MicOK(mic, o)'
      /\ ListsOK'
  BY <1>1, <1>2, <1>4, <1>6, <1>7, PostOfDevices
<1>9. FormInv'
  <2>1. Tasks(apiQueue') = Tasks(apiQueue) \cup Tasks(r)
    BY <1>1, <1>2, TasksAfter
  <2>2. ASSUME NEW d \in Cameras \cup Mics
        PROVE  Once(apiQueue', StartOf(d)) /\ StartOf(d) \notin Tasks(apiQueue')
    <3>1. Once(apiQueue, StartOf(d)) /\ StartOf(d) \notin Tasks(apiQueue)
      <4>1. FormInv /\ DeviceOK
        BY DEF UserInv, FormInv
      <4>2. \A cam \in Cameras : StartOf(cam) \notin Tasks(apiQueue)
        BY <1>3, <4>1 DEF DeviceOK
      <4>3. \A mic \in Mics : StartOf(mic) \notin Tasks(apiQueue)
        BY <1>3, <4>1 DEF DeviceOK
      <4> QED
        BY <4>1, <4>2, <4>3 DEF DeviceOK
    <3>2. StartOf(d) \notin Tasks(apiQueue')
      BY <1>5, <2>1, <3>1
    <3> QED
      BY <3>2 DEF Once, Tasks
  <2>3. DeviceOK'
    BY <1>1, <2>2 DEF DeviceOK
  <2> QED
    BY <1>1, <1>2, <1>4, <1>7, <2>1, <2>3 DEF UserInv, FormInv
<1> QED
  BY <1>8, <1>9 DEF UserInv

\* The devices are created, and their starts posted.
LEMMA UserStartDevices ==
  ASSUME SessionInv, UserInv, ClickStartDevices
  PROVE  UserInv'
<1>1. PICK cam \in Cameras \cup {form.cam}, mic \in Mics \cup {form.mic} :
        /\ IF videoInit THEN cam = form.cam ELSE cam # None /\ life[cam] = "none"
        /\ IF audioInit THEN mic = form.mic ELSE mic # None /\ life[mic] = "none"
        /\ form' = [form EXCEPT !.cam = cam, !.mic = mic]
        /\ CreateDevices({cam, mic} \ {form.cam, form.mic})
  BY DEF ClickStartDevices
<1> DEFINE devices == {cam, mic} \ {form.cam, form.mic}
           starts == {<<"Start", d>> : d \in devices}
           r == SetToSeq(starts)
<1>2. /\ IsQueue(apiQueue) /\ apiQueue = << >>
      /\ apiQueue' = apiQueue \o r
      /\ life' = [o \in DOMAIN life |-> IF o \in devices THEN "alive" ELSE life[o]]
      /\ UNCHANGED <<has_start, consumer_list, videoInit, audioInit, source, chained>>
  BY <1>1 DEF SessionInv, StartInv, ClickStartDevices, ApiIdle, CreateDevices
<1>3. form \in Forms /\ (videoInit => form.cam # None) /\ (audioInit => form.mic # None)
  BY DEF UserInv, FormInv, DeviceOK
<1>4. /\ cam \in Cameras \/ (cam = form.cam /\ videoInit)
      /\ mic \in Mics \/ (mic = form.mic /\ audioInit)
  BY <1>1, <1>3 DEF Forms
<1>5. cam \in Cameras /\ mic \in Mics
  BY <1>3, <1>4 DEF Forms
<1>6. devices \subseteq {cam, mic} /\ (cam \in devices => ~videoInit) /\ (mic \in devices => ~audioInit)
  BY <1>1
<1>7. IsFiniteSet(starts)
  <2>1. IsFiniteSet({cam, mic})
    <3>1. IsFiniteSet({cam}) /\ {cam, mic} = {cam} \cup {mic}
      BY FS_Singleton
    <3> QED
      BY <3>1, FS_AddElement
  <2>2. IsFiniteSet(devices)
    BY <2>1, FS_Subset
  <2> DEFINE start == [d \in devices |-> <<"Start", d>>]
  <2>3. start \in [devices -> starts] /\ \A t \in starts : \E d \in devices : start[d] = t
    OBVIOUS
  <2> HIDE DEF start, starts, devices
  <2> QED
    BY <2>2, <2>3, ImageFinite
<1>8. IsQueue(r) /\ Tasks(r) \subseteq starts /\ \A t : Once(r, t)
  <2> HIDE DEF starts
  <2>1. IsQueue(r) /\ Tasks(r) \subseteq starts
    BY <1>7, SetToSeqFacts
  <2> QED
    BY <1>7, <2>1, SetToSeqOnce
<1>9. \A t \in starts : \E d \in devices : t = StartOf(d)
  BY DEF StartOf
<1> HIDE DEF devices, starts, r
<1>10. \A t \in Tasks(r) : /\ \E d \in devices : t = StartOf(d)
                           /\ t[1] = "Start" /\ t[2] \in Cameras \cup Mics
  BY <1>5, <1>6, <1>8, <1>9, TaskNames
<1>11. Posts(r)
  <2>1. \A o \in Consumers : life'[o] = life[o]
    <3>1. \A o \in Consumers : o \in Objects /\ o \notin devices
      BY <1>5, <1>6, Classes
    <3> QED
      BY <1>2, <3>1 DEF SessionInv, SinkInv, LifeOK
  <2>2. \A o : StartOf(o) \in Tasks(r) => o \in Cameras \cup Mics
    BY <1>10, TaskNames
  <2> QED
    BY <1>2, <1>8, <1>10, <2>1, <2>2 DEF Posts
<1>12. /\ form' \in Forms /\ form'.pusher = form.pusher /\ form'.preview = form.preview
       /\ form'.cam = cam /\ form'.mic = mic
  BY <1>1, <1>3, <1>5 DEF Forms
<1>13. /\ \A o \in Consumers : OrderOK(o)'
       /\ \A c \in Cameras, o \in Consumers : LinkOK(c, o)'
       /\ \A m \in Mics, o \in Consumers : MicOK(m, o)'
       /\ ListsOK'
  BY <1>2, <1>10, <1>11, <1>12, PostOfDevices
<1>14. FormInv'
  <2>1. Tasks(apiQueue') = Tasks(r) /\ \A t : Once(apiQueue', t)
    <3>1. apiQueue' = r
      <4>1. << >> \o r = r
        <5>1. PICK S : r \in Seq(S)
          BY <1>8 DEF IsQueue
        <5> QED
          BY <5>1, ConcatEmptySeq
      <4> QED
        BY <1>2, <4>1
    <3> QED
      BY <1>8, <3>1
  <2>2. \A t \in Tasks(r) : IsTask(t)
    <3> SUFFICES ASSUME NEW t \in Tasks(r) PROVE IsTask(t)
      OBVIOUS
    <3>1. PICK d \in devices : t = StartOf(d)
      BY <1>10
    <3>2. d \in Objects
      BY <1>5, <1>6 DEF Objects
    <3> QED
      BY <3>1, <3>2 DEF IsTask, StartOf
  <2>3. ASSUME NEW d, StartOf(d) \in Tasks(r) PROVE d \in devices
    BY <1>10, <2>3, TaskNames
  <2>4. /\ \A c \in Cameras : c \in devices => c = cam /\ ~videoInit
        /\ \A m \in Mics : m \in devices => m = mic /\ ~audioInit
    <3>1. \A c \in Cameras : c # mic
      BY <1>5, Classes
    <3>2. \A m \in Mics : m # cam
      BY <1>5, Classes
    <3> QED
      BY <1>6, <3>1, <3>2
  <2>5. form'.cam # None /\ form'.mic # None
    BY <1>5, <1>12, Classes
  <2>6. DeviceOK'
    <3>1. videoInit' = videoInit /\ audioInit' = audioInit
      BY <1>2
    <3>2. /\ \A c \in Cameras : StartOf(c) \in Tasks(apiQueue') => form'.cam = c /\ ~videoInit
          /\ \A m \in Mics : StartOf(m) \in Tasks(apiQueue') => form'.mic = m /\ ~audioInit
      BY <1>12, <2>1, <2>3, <2>4
    <3>3. \A d : Once(apiQueue', StartOf(d))
      BY <2>1
    <3>4. \A c \in Cameras : StartOf(c) \in Tasks(apiQueue') => form'.cam = c /\ ~videoInit'
      BY <3>1, <3>2
    <3>5. \A m \in Mics : StartOf(m) \in Tasks(apiQueue') => form'.mic = m /\ ~audioInit'
      BY <3>1, <3>2
    <3> QED
      BY <2>5, <3>3, <3>4, <3>5, Zenon DEF DeviceOK
  <2>7. \A v \in Previews : life'[v] = life[v]
    BY <1>11, Classes DEF Posts
  <2> QED
    BY <1>2, <1>12, <2>1, <2>2, <2>6, <2>7 DEF UserInv, FormInv
<1> QED
  BY <1>13, <1>14 DEF UserInv

\* A push or a preview is released: Stop and Destroy are posted.
LEMMA UserRelease ==
  ASSUME SessionInv, UserInv, NEW handle \in {"pusher", "preview"}, ClickRelease(handle)
  PROVE  UserInv'
<1>0. PICK x : x = form[handle]
  OBVIOUS
<1> DEFINE r == <<StopOf(x), DestroyOf(x)>>
<1>1. /\ IsQueue(apiQueue) /\ apiQueue' = apiQueue \o r /\ x # None
      /\ form' = [form EXCEPT ![handle] = None]
      /\ UNCHANGED <<life, has_start, consumer_list, videoInit, audioInit, source, chained>>
  BY <1>0 DEF SessionInv, StartInv, ClickRelease, StopOf, DestroyOf
<1>2. form \in Forms /\ form' \in Forms /\ x \in Consumers /\ x = form[handle]
      /\ form'.cam = form.cam /\ form'.mic = form.mic
  BY <1>0, <1>1 DEF UserInv, FormInv, Forms, Consumers
<1>3. Held(x) /\ ~Held(x)' /\ \A o \in Consumers : o # x => (Held(o)' <=> Held(o))
  BY <1>1, <1>2, SessionAssumption DEF Forms, Held, Consumers
<1>4. IsQueue(r) /\ Tasks(r) = {StopOf(x), DestroyOf(x)}
  BY ListedTasks
<1>5. Once(r, StopOf(x)) /\ Once(r, DestroyOf(x)) /\ Ahead(r, StopOf(x), DestroyOf(x))
  <2>1. Len(r) = 2 /\ r[1] = StopOf(x) /\ r[2] = DestroyOf(x) /\ 1..2 = {1, 2}
    OBVIOUS
  <2>2. StopOf(x) # DestroyOf(x)
    BY TaskNames
  <2> HIDE DEF r
  <2> QED
    BY <2>1, <2>2 DEF Once, Ahead
<1> HIDE DEF r
<1>6. Posts(r)
  <2>1. \A o : StartOf(o) \notin Tasks(r)
    BY <1>4, TaskNames
  <2>2. \A t \in Tasks(r) : t[1] \notin {"Add", "Remove"}
    BY <1>4, TaskNames
  <2> QED
    BY <1>1, <1>4, <2>1, <2>2 DEF Posts
<1>7. Tasks(apiQueue') = Tasks(apiQueue) \cup {StopOf(x), DestroyOf(x)}
  BY <1>1, <1>4, TasksAfter
<1>8. ASSUME NEW o \in Consumers PROVE OrderOK(o)' /\ (Waits(o)' <=> Waits(o))
  <2>1. OrderOK(o)
    BY DEF UserInv
  <2>2. CASE o # x
    <3>1. StartOf(o) \notin Tasks(r) /\ StopOf(o) \notin Tasks(r) /\ DestroyOf(o) \notin Tasks(r)
      BY <1>4, <2>2, TaskNames
    <3>2. (Held(o)' <=> Held(o)) /\ (Alive(o) => Alive(o)') /\ chained' = chained
      BY <1>1, <1>3, <2>2 DEF Alive
    <3> QED
      BY <1>1, <1>4, <2>1, <3>1, <3>2, OrderKeep
  <2>3. CASE o = x
    <3> DEFINE start == StartOf(x)
               stop == StopOf(x)
               destroy == DestroyOf(x)
    <3>1. /\ Alive(x) /\ stop \notin Tasks(apiQueue) /\ destroy \notin Tasks(apiQueue)
          /\ start \in Tasks(apiQueue) => x \notin chained
          /\ Once(apiQueue, start) /\ Once(apiQueue, stop) /\ Once(apiQueue, destroy)
          /\ Ahead(apiQueue, start, stop) /\ Ahead(apiQueue, stop, destroy)
      BY <1>3, <2>1, <2>3 DEF OrderOK
    <3>2. start # stop /\ start # destroy
      BY TaskNames
    <3>3. Once(r, start) /\ Ahead(r, start, stop) /\ start \notin Tasks(r)
      BY <1>4, <3>2 DEF Once, Ahead, Tasks
    <3>4. /\ Once(apiQueue', start) /\ Once(apiQueue', stop) /\ Once(apiQueue', destroy)
          /\ Ahead(apiQueue', start, stop) /\ Ahead(apiQueue', stop, destroy)
      <4>1. IsQueue(apiQueue) /\ IsQueue(r) /\ apiQueue' = apiQueue \o r
        BY <1>1, <1>4
      <4> HIDE DEF start, stop, destroy
      <4>2. Once(r, stop) /\ Once(r, destroy) /\ Ahead(r, stop, destroy)
        BY <1>5 DEF stop, destroy
      <4> QED
        BY <3>1, <3>3, <4>1, <4>2, OrderPost
    <3>5. stop \in Tasks(apiQueue') /\ destroy \in Tasks(apiQueue')
          /\ (start \in Tasks(apiQueue') => start \in Tasks(apiQueue))
      BY <1>7, <3>2
    <3>6. Waits(x) /\ Waits(x)' /\ Alive(x)' /\ chained' = chained
      BY <1>1, <1>3, <3>1, <3>5 DEF Waits, Alive
    <3> HIDE DEF start, stop, destroy
    <3> QED
      BY <1>3, <2>3, <3>1, <3>4, <3>5, <3>6 DEF OrderOK, start, stop, destroy
  <2> QED
    BY <2>2, <2>3
<1>9. ListsOK'
  BY <1>1, ListsFrame DEF UserInv
<1>10. FormInv'
  <2>1. \A d \in Cameras \cup Mics : Once(r, StartOf(d)) /\ StartOf(d) \notin Tasks(r)
    <3>1. \A d : StartOf(d) \notin Tasks(r)
      BY <1>4, TaskNames
    <3> QED
      BY <3>1 DEF Once, Tasks
  <2>2. \A d \in Cameras \cup Mics : Once(apiQueue', StartOf(d))
    BY <1>1, <1>4, <2>1, OrderPost DEF UserInv, FormInv, DeviceOK
  <2>3. \A d \in Cameras \cup Mics : StartOf(d) \in Tasks(apiQueue') => StartOf(d) \in Tasks(apiQueue)
    BY <1>4, <1>7, <2>1
  <2>4. DeviceOK'
    BY <1>1, <1>2, <2>2, <2>3 DEF UserInv, FormInv, DeviceOK
  <2>5. IsTask(StopOf(x)) /\ IsTask(DestroyOf(x))
    BY <1>2, Classes DEF IsTask, StopOf, DestroyOf
  <2> QED
    BY <1>1, <1>2, <1>7, <2>4, <2>5 DEF UserInv, FormInv
<1>11. /\ \A cam \in Cameras, o \in Consumers : LinkOK(cam, o)'
       /\ \A mic \in Mics, o \in Consumers : MicOK(mic, o)'
  BY <1>1, <1>6, <1>8, PostStepOf
<1> QED
  BY <1>8, <1>9, <1>10, <1>11 DEF UserInv

\* A push or a preview is created, and its start posted to an empty queue.
LEMMA UserCreate ==
  ASSUME SessionInv, UserInv, NEW x \in Consumers, NEW handle \in {"pusher", "preview"},
         x \in (IF handle = "pusher" THEN Pushers ELSE Previews),
         form[handle] = None, x \in Previews => form.cam # None, Create(x, handle)
  PROVE  UserInv'
<1>1. /\ apiQueue = << >> /\ apiQueue' = <<StartOf(x)>> /\ life[x] = "none"
      /\ life' = [life EXCEPT ![x] = "alive"]
      /\ source' = [source EXCEPT ![x] = [cam |-> form.cam, mic |-> form.mic]]
      /\ form' = [form EXCEPT ![handle] = x]
      /\ UNCHANGED <<has_start, consumer_list, videoInit, audioInit, chained>>
  BY DEF Create, ApiIdle, StartOf
<1>2. /\ form \in Forms /\ form' \in Forms
      /\ form'.cam = form.cam /\ form'.mic = form.mic
      /\ source \in [Consumers -> Sources] /\ source' \in [Consumers -> Sources]
      /\ source'[x] = [cam |-> form.cam, mic |-> form.mic]
      /\ \A o \in Consumers : o # x => source'[o] = source[o]
  BY <1>1 DEF UserInv, FormInv, Forms, Sources
<1>3. /\ life'[x] = "alive" /\ x \in Objects
      /\ \A o \in Consumers : o # x => life'[o] = life[o]
  BY <1>1, Classes DEF SessionInv, SinkInv, LifeOK
<1>4. Held(x)' /\ \A o \in Consumers : o # x => (Held(o)' <=> Held(o))
  BY <1>1, <1>2, SessionAssumption DEF Forms, Held, Consumers
<1>5. Tasks(apiQueue) = {} /\ Tasks(apiQueue') = {StartOf(x)}
  BY <1>1, ListedTasks
<1>6. /\ \A t : Once(apiQueue', t)
      /\ \A s, t : s # StartOf(x) \/ t # StartOf(x) => Ahead(apiQueue', s, t)
  BY <1>1, Short
<1>7. /\ \A o : StopOf(o) # StartOf(x) /\ DestroyOf(o) # StartOf(x)
      /\ \A o : o # x => StartOf(o) # StartOf(x)
      /\ \A d, o : AddOf(d, o) # StartOf(x) /\ RemoveOf(d, o) # StartOf(x)
  BY TaskNames DEF AddOf, RemoveOf
<1>8. x \notin chained /\ chained' = chained
  BY <1>1 DEF SessionInv, SinkInv, ObjectInv
<1>9. \A o \in Consumers : o # x => (Waits(o)' <=> Waits(o))
  BY <1>4, <1>5, <1>7 DEF Waits
<1>10. ListsOK' /\ \A d, o : Listed(d, o)' <=> Listed(d, o)
  BY <1>1, ListsFrame DEF UserInv
<1>11. ASSUME NEW o \in Consumers PROVE OrderOK(o)'
  <2>1. /\ Once(apiQueue', StartOf(o)) /\ Once(apiQueue', StopOf(o)) /\ Once(apiQueue', DestroyOf(o))
        /\ Ahead(apiQueue', StartOf(o), StopOf(o)) /\ Ahead(apiQueue', StopOf(o), DestroyOf(o))
        /\ StopOf(o) \notin Tasks(apiQueue') /\ DestroyOf(o) \notin Tasks(apiQueue')
        /\ StartOf(o) \in Tasks(apiQueue') => o = x
    BY <1>5, <1>6, <1>7
  <2>2. Held(o)' => Alive(o)'
    <3>1. OrderOK(o)
      BY DEF UserInv
    <3> QED
      BY <1>3, <1>4, <3>1 DEF OrderOK, Alive
  <2>3. o = x => Waits(o)'
    BY <1>4 DEF Waits
  <2> QED
    BY <1>8, <2>1, <2>2, <2>3 DEF OrderOK
<1>12. ASSUME NEW cam \in Cameras, NEW o \in Consumers PROVE LinkOK(cam, o)'
  <2>1. LinkOK(cam, o)
    BY DEF UserInv
  <2>2. /\ Once(apiQueue', AddOf(cam, o)) /\ Once(apiQueue', RemoveOf(cam, o))
        /\ Ahead(apiQueue', AddOf(cam, o), RemoveOf(cam, o))
        /\ AddOf(cam, o) \notin Tasks(apiQueue') /\ RemoveOf(cam, o) \notin Tasks(apiQueue')
        /\ RemoveOf(cam, o) \notin Tasks(apiQueue)
        /\ StartOf(o) \in Tasks(apiQueue') => o = x
    BY <1>5, <1>6, <1>7
  <2>3. ~Linked(cam, x)
    <3>1. LinkOK(cam, x)
      BY DEF UserInv
    <3> QED
      BY <1>1, <3>1 DEF LinkOK
  <2>4. Linked(cam, o)' => Linked(cam, o) /\ o # x
    BY <1>10, <2>2, <2>3 DEF Linked
  <2>5. ASSUME o # x
        PROVE  /\ life'[o] = life[o] /\ source'[o] = source[o] /\ (Waits(o)' <=> Waits(o))
    BY <1>2, <1>3, <1>9, <2>5
  <2>6. has_start' = has_start /\ chained' = chained
    BY <1>1
  <2> QED
    BY <2>1, <2>2, <2>4, <2>5, <2>6 DEF LinkOK
<1>13. ASSUME NEW mic \in Mics, NEW o \in Consumers PROVE MicOK(mic, o)'
  <2>1. MicOK(mic, o)
    BY DEF UserInv
  <2>2. o # x \/ ~Listed(mic, o)
    BY <1>8, <2>1 DEF MicOK
  <2> QED
    BY <1>2, <1>8, <1>9, <1>10, <2>1, <2>2 DEF MicOK
<1>14. FormInv'
  <2>1. \A v \in Previews : life'[v] # "none" => source'[v].cam # None
    <3> SUFFICES ASSUME NEW v \in Previews, life'[v] # "none" PROVE source'[v].cam # None
      OBVIOUS
    <3>1. v \in Consumers /\ (life[v] # "none" => source[v].cam # None)
      BY Classes DEF UserInv, FormInv
    <3> QED
      BY <1>2, <1>3, <3>1
  <2>2. IsTask(StartOf(x))
    BY <1>3 DEF IsTask, StartOf
  <2>3. DeviceOK'
    <3>1. \A d \in Cameras \cup Mics : StartOf(d) \notin Tasks(apiQueue') /\ Once(apiQueue', StartOf(d))
      BY <1>5, <1>6, <1>7, Classes
    <3> QED
      BY <1>1, <1>2, <3>1 DEF UserInv, FormInv, DeviceOK
  <2> QED
    BY <1>1, <1>2, <1>5, <2>1, <2>2, <2>3 DEF UserInv, FormInv
<1> QED
  BY <1>10, <1>11, <1>12, <1>13, <1>14 DEF UserInv

\* The end of a push that was dying.
LEMMA UserFinishDestroy ==
  ASSUME SessionInv, UserInv, NEW p \in Pushers, FinishDestroy(p)
  PROVE  UserInv'
<1>1. /\ UNCHANGED <<has_start, consumer_list, apiQueue, videoInit, audioInit, form, source,
                     chained>>
      /\ apiAt = <<"destroyed", p>> /\ life' = [life EXCEPT ![p] = "dead"]
  BY DEF FinishDestroy
<1>2. Gone(p)
  BY <1>1 DEF SessionInv, SinkInv, ApiOK
<1>3. /\ life'[p] = "dead" /\ life[p] # "none" /\ ~Alive(p)
      /\ \A o \in Consumers : o # p => life'[o] = life[o]
  BY <1>1, <1>2, Classes DEF SessionInv, SinkInv, LifeOK, Gone, Alive
<1>4. \A o \in Consumers : /\ Alive(o)' <=> Alive(o)
                           /\ life'[o] = "none" <=> life[o] = "none"
  BY <1>3 DEF Alive
<1>5. \A o : (Held(o)' <=> Held(o)) /\ (Waits(o)' <=> Waits(o))
  BY <1>1 DEF Held, Waits
<1>6. \A d, o : (Listed(d, o)' <=> Listed(d, o)) /\ (Linked(d, o)' <=> Linked(d, o))
  BY <1>1 DEF Listed, Linked
<1>7. FormInv'
  <2>1. \A v \in Previews : life'[v] # "none" => life[v] # "none"
    BY <1>4, Classes
  <2>2. DeviceOK'
    BY <1>1 DEF UserInv, FormInv, DeviceOK
  <2> QED
    BY <1>1, <2>1, <2>2 DEF UserInv, FormInv
<1>8. ListsOK'
  BY <1>1 DEF UserInv, ListsOK
<1>9. ASSUME NEW o \in Consumers PROVE OrderOK(o)'
  <2>1. OrderOK(o)
    BY DEF UserInv
  <2> QED
    BY <1>1, <1>4, <1>5, <2>1 DEF OrderOK
<1>10. ASSUME NEW cam \in Cameras, NEW o \in Consumers PROVE LinkOK(cam, o)'
  <2>1. LinkOK(cam, o)
    BY DEF UserInv
  <2> QED
    BY <1>1, <1>4, <1>5, <1>6, <2>1 DEF LinkOK
<1>11. ASSUME NEW mic \in Mics, NEW o \in Consumers PROVE MicOK(mic, o)'
  <2>1. MicOK(mic, o)
    BY DEF UserInv
  <2> QED
    BY <1>1, <1>5, <1>6, <2>1 DEF MicOK
<1> QED
  BY <1>7, <1>8, <1>9, <1>10, <1>11 DEF UserInv

\* Nothing is there at first.
LEMMA UserInit == Init => UserInv
<1> SUFFICES ASSUME Init PROVE UserInv
  OBVIOUS
<1>1. /\ apiQueue = << >> /\ Tasks(apiQueue) = {} /\ chained = {}
      /\ form = [cam |-> None, mic |-> None, preview |-> None, pusher |-> None]
      /\ consumer_list = [d \in Cameras \cup Mics |-> << >>]
      /\ \A o \in Objects : life[o] = "none"
      /\ ~videoInit /\ ~audioInit
  BY ListedTasks DEF Init, Objects
<1>2. FormInv
  <2>1. form \in Forms
    BY <1>1 DEF Forms
  <2>2. source \in [Consumers -> Sources]
    BY DEF Init, Consumers, Sources
  <2>3. has_start \in [Cameras \cup Mics \cup Previews -> BOOLEAN]
    BY DEF Init
  <2>4. \A v \in Previews : life[v] = "none"
    BY <1>1 DEF Objects
  <2>5. DeviceOK
    BY <1>1, Short DEF DeviceOK
  <2> QED
    BY <1>1, <2>1, <2>2, <2>3, <2>4, <2>5 DEF FormInv
<1>3. ListsOK /\ \A d \in Cameras \cup Mics : \A o : ~Listed(d, o)
  <2>1. << >> \in Seq(Consumers) /\ Tasks(<< >>) = {}
    BY EmptySeq, ListedTasks
  <2>2. NoTwins(<< >>)
    BY DEF NoTwins
  <2> QED
    BY <1>1, <2>1, <2>2 DEF ListsOK, Listed
<1>4. \A o : ~Held(o) \/ o = None
  BY <1>1 DEF Held
<1>5. \A o \in Consumers : OrderOK(o)
  BY <1>1, <1>4, Classes, Short DEF OrderOK
<1>6. \A cam \in Cameras, o \in Consumers : LinkOK(cam, o)
  BY <1>1, <1>3, Short DEF LinkOK, Linked
<1>7. \A mic \in Mics, o \in Consumers : MicOK(mic, o)
  BY <1>3 DEF MicOK
<1> QED
  BY <1>2, <1>3, <1>5, <1>6, <1>7 DEF UserInv

\* The other threads touch nothing of it.
LEMMA UserOthers ==
  ASSUME UserInv,
         \/ \E p \in Pushers : PostOffer(p) \/ Encode(p) \/ SendAnswer(p)
         \/ \E p \in Pushers, state \in IceStates : IceState(p, state)
         \/ WorkerChangesObjects \/ DeliverReply \/ Render \/ HttpThread \/ NetworkTask
         \/ \E mic \in Mics : CaptureAudio(mic)
  PROVE  UserInv'
<1>1. UNCHANGED userVars
  <2>1. ASSUME NEW p \in Pushers, PostOffer(p) \/ Encode(p) \/ SendAnswer(p) PROVE UNCHANGED userVars
    BY <2>1 DEF PostOffer, Encode, SendAnswer, Crash, deviceVars, sessionVars, userVars
  <2>2. ASSUME NEW p \in Pushers, NEW state \in IceStates, IceState(p, state)
        PROVE  UNCHANGED userVars
    BY <2>2 DEF IceState, deviceVars, userVars
  <2>3. CASE WorkerChangesObjects \/ HttpThread
    BY <2>3 DEF WorkerChangesObjects, HttpThread, deviceVars, sessionVars, userVars
  <2>4. CASE DeliverReply \/ Render \/ NetworkTask
    BY <2>4 DEF DeliverReply, Render, NetworkTask, Crash, deviceVars, sessionVars, userVars
  <2>5. ASSUME NEW mic \in Mics, CaptureAudio(mic) PROVE UNCHANGED userVars
    BY <2>5 DEF CaptureAudio, Deliver, Crash, sessionVars, userVars
  <2> QED
    BY <2>1, <2>2, <2>3, <2>4, <2>5
<1> QED
  BY <1>1, UserFrame

\* Every step keeps the invariant.
LEMMA UserStep == SessionInv /\ UserInv /\ [Next]_vars => UserInv'
<1> SUFFICES ASSUME SessionInv, UserInv, [Next]_vars PROVE UserInv'
  OBVIOUS
<1>1. CASE Application
  <2>1. ASSUME NEW p \in Pushers, ClickPush(p) PROVE UserInv'
    BY <2>1, Classes, UserCreate DEF ClickPush
  <2>2. ASSUME NEW v \in Previews, ClickPreview(v) PROVE UserInv'
    BY <2>2, Classes, UserCreate DEF ClickPreview
  <2> QED
    BY <1>1, <2>1, <2>2, UserStartDevices, UserStopDevices, UserRelease DEF Application
<1>2. CASE ApiThread
  BY <1>2, UserStartPush, UserOthers, UserStopPush, UserDestroyPusher, UserFinishDestroy,
     UserStartPreview, UserStopPreview, UserDestroyPreview, UserDeviceTask, UserDeliverVideo
     DEF ApiThread
<1>3. CASE WorkerThread
  BY <1>3, UserOthers DEF WorkerThread
<1>4. CASE \/ NetworkTask \/ HttpThread
           \/ \E mic \in Mics : CaptureAudio(mic)
           \/ \E p \in Pushers : Encode(p)
           \/ \E p \in Pushers, state \in IceStates : IceState(p, state)
  BY <1>4, UserOthers
<1>5. CASE \E cam \in Cameras : CaptureCamera(cam)
  BY <1>5, UserCaptureCamera
<1>6. CASE UNCHANGED vars
  BY <1>6, UserFrame DEF vars, deviceVars, sessionVars, userVars
<1> QED
  BY <1>1, <1>2, <1>3, <1>4, <1>5, <1>6 DEF Next

\* What it says of the lists.
LEMMA UserImplies == SessionInv /\ UserInv => MicConsumersAlive /\ UnlinkedAfterStop
<1> SUFFICES ASSUME SessionInv, UserInv PROVE MicConsumersAlive /\ UnlinkedAfterStop
  OBVIOUS
<1>1. ASSUME NEW d \in Cameras \cup Mics
      PROVE  Listeners(d) = Tasks(consumer_list[d]) /\ Listeners(d) \subseteq Consumers
  <2>1. consumer_list[d] \in Seq(Consumers) /\ IsQueue(consumer_list[d])
    BY DEF UserInv, ListsOK, IsQueue
  <2>2. Tasks(consumer_list[d]) \subseteq Consumers
    BY <2>1, ElementOfSeq DEF Tasks
  <2> QED
    BY <2>1, <2>2, ToSetIsTasks DEF Listeners
<1>2. MicConsumersAlive
  <2> SUFFICES ASSUME NEW mic \in Mics, NEW o \in Listeners(mic) PROVE Alive(o)
    BY DEF MicConsumersAlive
  <2>1. o \in Consumers /\ Listed(mic, o)
    BY <1>1 DEF Listed
  <2>2. MicOK(mic, o) /\ OrderOK(o)
    BY <2>1 DEF UserInv
  <2> QED
    BY <2>1, <2>2, WaitsAlive DEF MicOK
<1>3. UnlinkedAfterStop
  <2> SUFFICES ASSUME NEW cam \in Cameras, NEW o \in Consumers, Gone(o)
               PROVE  LET Pending(task) == {i \in DOMAIN apiQueue : apiQueue[i] = task}
                          removals == Pending(RemoveConsumerTask(cam, o))
                      IN  /\ o \in Listeners(cam) /\ Alive(cam) => removals # {}
                          /\ \A i \in Pending(AddConsumerTask(cam, o)) : \E j \in removals : i < j
    BY DEF UnlinkedAfterStop, Gone, Consumers
  <2>1. OrderOK(o) /\ LinkOK(cam, o)
    BY DEF UserInv
  <2>2. ~Waits(o)
    BY <2>1, WaitsAlive DEF Gone, Alive
  <2>3. DOMAIN apiQueue = 1..Len(apiQueue)
    BY QueueBasics DEF SessionInv, StartInv
  <2>4. ASSUME Linked(cam, o) PROVE \E j \in 1..Len(apiQueue) : apiQueue[j] = RemoveOf(cam, o)
    BY <2>1, <2>2, <2>4 DEF LinkOK, Tasks
  <2>5. ASSUME o \in Listeners(cam)
        PROVE  {j \in DOMAIN apiQueue : apiQueue[j] = RemoveConsumerTask(cam, o)} # {}
    <3>1. Linked(cam, o)
      BY <1>1, <2>5 DEF Linked, Listed
    <3> QED
      BY <2>3, <2>4, <3>1 DEF RemoveOf
  <2>6. ASSUME NEW i \in DOMAIN apiQueue, apiQueue[i] = AddConsumerTask(cam, o)
        PROVE  \E j \in {k \in DOMAIN apiQueue : apiQueue[k] = RemoveConsumerTask(cam, o)} : i < j
    <3>1. Linked(cam, o)
      BY <2>3, <2>6 DEF Linked, AddOf, Tasks
    <3>2. PICK j \in 1..Len(apiQueue) : apiQueue[j] = RemoveOf(cam, o)
      BY <2>4, <3>1
    <3>3. i < j
      BY <2>1, <2>3, <2>6, <3>2 DEF LinkOK, Ahead, AddOf
    <3> QED
      BY <2>3, <3>2, <3>3 DEF RemoveOf
  <2> QED
    BY <2>5, <2>6
<1> QED
  BY <1>2, <1>3

-----------------------------------------------------------------------------
(* The offer of a push is in one place at a time: with curl, in its queue  *)
(* of finished transfers, with the http thread or in a reply.  While it is *)
(* there the application has been told nothing of the push and ICE has not *)
(* begun; what ends the attempt then is the last that is told.             *)

Asks == Pushers \X {"offer", "answer"}

Arrivals == {m \in Asks \X (Outcomes["offer"] \cup Outcomes["answer"]) :
                m[2] \in Outcomes[m[1][2]]}

AskInv ==
  /\ transfers \subseteq Asks
  /\ IsQueue(messages) /\ Tasks(messages) \subseteq Arrivals
  /\ reading \in Arrivals \cup {<< >>}
  /\ \A task \in Tasks(workerQueue) :
        task.op = "Reply" => \E m \in Arrivals : task = ReplyTask(m)

Offer(p) == <<p, "offer">>
OfferMessages(p) == {m \in Arrivals : m[1] = Offer(p)}
OfferReplies(p) == {ReplyTask(m) : m \in OfferMessages(p)}

\* How often the offer is in each of the places.
WithCurl(p) == IF Offer(p) \in transfers THEN 1 ELSE 0
Read(p) == IF reading \in OfferMessages(p) THEN 1 ELSE 0
Offers(p) == WithCurl(p) + HowMany(messages, OfferMessages(p)) + Read(p)
                + HowMany(workerQueue, OfferReplies(p))

\* The offer was accepted.
Active(p) ==
  \/ workerAt \in {<<"create", p>>, <<"created", p>>}
  \/ pc[p].gathering
  \/ \E task \in Tasks(networkQueue) : task[1] = "create" /\ task[2] = p

Failures == {"invalid url", "chain connect", "chain start", "offer"}
Failed(p) == Tasks(outcomes[p]) \cap Failures # {}

Unstarted(p) == life[p] = "none" \/ StartOf(p) \in Tasks(apiQueue)

OfferOK(p) ==
  /\ Offers(p) \in 0..1
  /\ Offers(p) = 1 => ~Active(p) /\ outcomes[p] = << >>
  /\ apiAt = <<"post", p>> => Offers(p) = 0 /\ ~Active(p) /\ outcomes[p] = << >>
  /\ p \notin chained => Offers(p) = 0 /\ ~Active(p)
  /\ Unstarted(p) => outcomes[p] = << >>
  /\ Active(p) => ~Failed(p)
  /\ Failed(p) => Len(outcomes[p]) = 1

Words == Failures \cup {"success", "ice"}
ToldOK == outcomes \in [Pushers -> Seq(Words)]

OfferInv == AskInv /\ ToldOK /\ \A p \in Pushers : OfferOK(p)

\* The four places are counted in numbers.
LEMMA OfferTypes ==
  ASSUME AskInv, IsQueue(workerQueue), NEW p
  PROVE  /\ WithCurl(p) \in 0..1 /\ Read(p) \in 0..1
         /\ HowMany(messages, OfferMessages(p)) \in Nat
         /\ HowMany(workerQueue, OfferReplies(p)) \in Nat
         /\ Offers(p) \in Nat
<1>1. /\ WithCurl(p) \in 0..1 /\ Read(p) \in 0..1
  BY DEF WithCurl, Read
<1>2. /\ HowMany(messages, OfferMessages(p)) \in Nat
      /\ HowMany(workerQueue, OfferReplies(p)) \in Nat
  BY HowManyType DEF AskInv
<1> QED
  BY <1>1, <1>2 DEF Offers

\* A reply says that it is one.
LEMMA RepliesAre == \A p : \A task \in OfferReplies(p) : task.op = "Reply"
BY DEF OfferReplies, ReplyTask

\* The worker thread is given other tasks, or takes one.
OtherTasks ==
  \/ \E r : /\ IsQueue(r) /\ \A task \in Tasks(r) : task.op # "Reply"
            /\ workerQueue' = workerQueue \o r
  \/ /\ workerQueue # << >> /\ Head(workerQueue).op # "Reply"
     /\ workerQueue' = Tail(workerQueue)

\* The replies to an offer, and how many there are, stay the same.
LEMMA OtherTasksFacts ==
  ASSUME AskInv, IsQueue(workerQueue), OtherTasks
  PROVE  /\ \A p : HowMany(workerQueue', OfferReplies(p)) = HowMany(workerQueue, OfferReplies(p))
         /\ \A task \in Tasks(workerQueue') :
              task.op = "Reply" => \E m \in Arrivals : task = ReplyTask(m)
<1>1. ASSUME NEW r, IsQueue(r), \A task \in Tasks(r) : task.op # "Reply",
             workerQueue' = workerQueue \o r
      PROVE  /\ \A p : HowMany(workerQueue', OfferReplies(p)) = HowMany(workerQueue, OfferReplies(p))
             /\ \A task \in Tasks(workerQueue') :
                  task.op = "Reply" => \E m \in Arrivals : task = ReplyTask(m)
  <2>1. \A p : Tasks(r) \cap OfferReplies(p) = {}
    BY <1>1, RepliesAre
  <2>2. Tasks(workerQueue') = Tasks(workerQueue) \cup Tasks(r)
    BY <1>1, TasksAfter
  <2> QED
    BY <1>1, <2>1, <2>2, HowManyPost DEF AskInv
<1>2. ASSUME workerQueue # << >>, Head(workerQueue).op # "Reply",
             workerQueue' = Tail(workerQueue)
      PROVE  /\ \A p : HowMany(workerQueue', OfferReplies(p)) = HowMany(workerQueue, OfferReplies(p))
             /\ \A task \in Tasks(workerQueue') :
                  task.op = "Reply" => \E m \in Arrivals : task = ReplyTask(m)
  <2>1. \A p : Head(workerQueue) \notin OfferReplies(p)
    BY <1>2, RepliesAre
  <2>2. Tasks(workerQueue) = Tasks(workerQueue') \cup {Head(workerQueue)}
    BY <1>2, TasksAfter
  <2>3. IsQueue(Tail(workerQueue))
    BY <1>2, TailFacts
  <2>4. ASSUME NEW p PROVE HowMany(workerQueue', OfferReplies(p)) = HowMany(workerQueue, OfferReplies(p))
    <3>1. HowMany(Tail(workerQueue), OfferReplies(p)) \in Nat
      BY <2>3, HowManyType
    <3>2. HowMany(workerQueue, OfferReplies(p)) = HowMany(Tail(workerQueue), OfferReplies(p)) + 0
      BY <1>2, <2>1, HowManyTail
    <3> QED
      BY <1>2, <3>1, <3>2
  <2> QED
    BY <2>2, <2>4 DEF AskInv
<1> QED
  BY <1>1, <1>2 DEF OtherTasks

\* A push about which nothing new is said.
LEMMA OfferKeep ==
  ASSUME NEW p \in Pushers, OfferOK(p), Offers(p)' \in Nat, Offers(p)' <= Offers(p),
         Active(p)' => Active(p), outcomes'[p] = outcomes[p],
         apiAt' = <<"post", p>> => apiAt = <<"post", p>>,
         p \in chained => p \in chained', Unstarted(p)' => Unstarted(p)
  PROVE  OfferOK(p)'
<1>1. Failed(p)' <=> Failed(p)
  BY DEF Failed
<1>2. Offers(p) \in 0..1 /\ Offers(p)' \in 0..1 /\ (Offers(p)' = 1 => Offers(p) = 1)
      /\ (Offers(p) = 0 => Offers(p)' = 0)
  BY DEF OfferOK
<1> QED
  BY <1>1, <1>2 DEF OfferOK

\* A step that says nothing new.
Quiet ==
  /\ UNCHANGED <<transfers, messages, reading, outcomes>>
  /\ UNCHANGED workerQueue \/ OtherTasks
  /\ \A p \in Pushers : /\ Active(p)' => Active(p)
                        /\ apiAt' = <<"post", p>> => apiAt = <<"post", p>>
                        /\ Unstarted(p)' => Unstarted(p)
  /\ chained \subseteq chained'

\* They keep the invariant.
LEMMA QuietStep ==
  ASSUME SessionInv, OfferInv, Quiet
  PROVE  OfferInv'
<1>1. IsQueue(workerQueue) /\ AskInv
  BY DEF SessionInv, SinkInv, ObjectInv, OfferInv
<1>2. /\ \A p : HowMany(workerQueue', OfferReplies(p)) = HowMany(workerQueue, OfferReplies(p))
      /\ \A task \in Tasks(workerQueue') :
           task.op = "Reply" => \E m \in Arrivals : task = ReplyTask(m)
  <2>1. CASE UNCHANGED workerQueue
    BY <1>1, <2>1 DEF AskInv
  <2> QED
    BY <1>1, <2>1, OtherTasksFacts DEF Quiet
<1>3. AskInv'
  BY <1>1, <1>2 DEF AskInv, Quiet, Tasks
<1>4. ToldOK'
  BY DEF OfferInv, ToldOK, Quiet
<1>5. ASSUME NEW p \in Pushers PROVE OfferOK(p)'
  <2>1. Offers(p)' = Offers(p)
    BY <1>2 DEF Quiet, Offers, WithCurl, Read
  <2>2. OfferOK(p) /\ Offers(p) \in Nat
    BY <1>1, OfferTypes DEF OfferInv
  <2>3. Offers(p)' \in Nat /\ Offers(p)' <= Offers(p)
    BY <2>1, <2>2
  <2>4. outcomes'[p] = outcomes[p] /\ (p \in chained => p \in chained')
    BY DEF Quiet
  <2>5. /\ Active(p)' => Active(p)
        /\ apiAt' = <<"post", p>> => apiAt = <<"post", p>>
        /\ Unstarted(p)' => Unstarted(p)
    BY DEF Quiet
  <2> QED
    BY <2>2, <2>3, <2>4, <2>5, OfferKeep
<1> QED
  BY <1>3, <1>4, <1>5 DEF OfferInv

\* Tasks are posted or one is taken, and none of them starts a push.
NoneStarts ==
  \/ UNCHANGED apiQueue
  \/ \E r : IsQueue(r) /\ NoStarts(r) /\ apiQueue' = apiQueue \o r
  \/ /\ apiQueue # << >>
     /\ \/ apiQueue' = Tail(apiQueue)
        \/ \E task : ~IsStart(task) /\ apiQueue' = Append(Tail(apiQueue), task)

\* No object is taken back.
NoneUnmade == UNCHANGED life \/ \E o, s : s # "none" /\ life' = [life EXCEPT ![o] = s]

\* A pusher is not started by them: whoever is unstarted was so before.
LEMMA UnstartedFacts ==
  ASSUME SessionInv, NoneStarts, NoneUnmade, NEW p \in Pushers, Unstarted(p)'
  PROVE  Unstarted(p)
<1>1. IsQueue(apiQueue) /\ IsStart(StartOf(p)) /\ LifeOK
  BY DEF SessionInv, SinkInv, StartInv, StartOf, IsStart
<1>2. StartOf(p) \in Tasks(apiQueue') => StartOf(p) \in Tasks(apiQueue)
  <2>1. ASSUME NEW r, IsQueue(r), NoStarts(r), apiQueue' = apiQueue \o r,
               StartOf(p) \in Tasks(apiQueue')
        PROVE  StartOf(p) \in Tasks(apiQueue)
    BY <1>1, <2>1, TasksAfter DEF NoStarts
  <2>2. ASSUME apiQueue # << >>,
               \/ apiQueue' = Tail(apiQueue)
               \/ \E task : ~IsStart(task) /\ apiQueue' = Append(Tail(apiQueue), task),
               StartOf(p) \in Tasks(apiQueue')
        PROVE  StartOf(p) \in Tasks(apiQueue)
    <3>1. IsQueue(Tail(apiQueue)) /\ Tasks(apiQueue) = Tasks(Tail(apiQueue)) \cup {Head(apiQueue)}
      BY <1>1, <2>2, TailFacts, TasksAfter
    <3>2. \A task : Tasks(Append(Tail(apiQueue), task)) = Tasks(Tail(apiQueue)) \cup {task}
      BY <3>1, TasksAfter
    <3> QED
      BY <1>1, <2>2, <3>1, <3>2
  <2> QED
    BY <2>1, <2>2 DEF NoneStarts
<1>3. life'[p] = "none" => life[p] = "none"
  BY <1>1 DEF NoneUnmade, LifeOK, Objects
<1> QED
  BY <1>2, <1>3 DEF Unstarted

\* A push that has started is never to start again.
LEMMA UnstartedStep ==
  ASSUME SessionInv, Next, NEW p \in Pushers, Unstarted(p)'
  PROVE  Unstarted(p)
<1>1. CASE ClickStartDevices
  <2>1. PICK devices : /\ devices \subseteq Cameras \cup Mics
                       /\ IsFiniteSet(devices)
                       /\ CreateDevices(devices)
    <3>1. PICK cam \in Cameras \cup {form.cam}, mic \in Mics \cup {form.mic} :
            CreateDevices({cam, mic} \ {form.cam, form.mic})
      BY <1>1 DEF ClickStartDevices
    <3>2. IsFiniteSet({cam, mic})
      <4>1. IsFiniteSet({cam}) /\ {cam, mic} = {cam} \cup {mic}
        BY FS_Singleton
      <4> QED
        BY <4>1, FS_AddElement
    <3>3. IsFiniteSet({cam, mic} \ {form.cam, form.mic})
      BY <3>2, FS_Subset
    <3> QED
      BY <3>1, <3>3
  <2> DEFINE starts == {<<"Start", d>> : d \in devices}
  <2>2. IsQueue(SetToSeq(starts)) /\ NoStarts(SetToSeq(starts))
    <3>1. IsFiniteSet(starts)
      <4> DEFINE start == [d \in devices |-> <<"Start", d>>]
      <4>1. start \in [devices -> starts] /\ \A t \in starts : \E d \in devices : start[d] = t
        OBVIOUS
      <4> HIDE DEF start, starts
      <4> QED
        BY <2>1, <4>1, ImageFinite
    <3>2. \A task \in starts : ~IsStart(task)
      BY <2>1, SessionAssumption DEF IsStart
    <3> HIDE DEF starts
    <3> QED
      BY <3>1, <3>2, SetToSeqFacts DEF NoStarts
  <2>3. apiQueue' = apiQueue \o SetToSeq(starts)
    BY <2>1 DEF CreateDevices
  <2> HIDE DEF starts
  <2>4. IsStart(StartOf(p)) /\ IsQueue(apiQueue)
    BY DEF StartOf, IsStart, SessionInv, StartInv
  <2>5. Tasks(apiQueue') = Tasks(apiQueue) \cup Tasks(SetToSeq(starts))
    BY <2>2, <2>3, <2>4, TasksAfter
  <2>6. p \in DOMAIN life /\ p \notin devices
    BY <2>1, SessionAssumption DEF SessionInv, SinkInv, LifeOK, Objects
  <2>7. life'[p] = life[p]
    BY <2>1, <2>6 DEF CreateDevices
  <2> QED
    BY <2>2, <2>4, <2>5, <2>7 DEF Unstarted, NoStarts
<1>2. ASSUME ClickStopDevices \/ \E handle \in {"pusher", "preview"} : ClickRelease(handle)
      PROVE  NoneStarts /\ NoneUnmade
  <2>1. PICK r : IsQueue(r) /\ NoStarts(r) /\ apiQueue' = apiQueue \o r
    <3>1. CASE ClickStopDevices
      <4> DEFINE r == << <<"Stop", form.cam>>, <<"Destroy", form.cam>>,
                         <<"Stop", form.mic>>, <<"Destroy", form.mic>> >>
      <4>1. IsQueue(r) /\ NoStarts(r)
        BY ListedTasks DEF NoStarts, IsStart
      <4> QED
        BY <3>1, <4>1 DEF ClickStopDevices
    <3>2. ASSUME NEW handle \in {"pusher", "preview"}, ClickRelease(handle)
          PROVE  \E r : IsQueue(r) /\ NoStarts(r) /\ apiQueue' = apiQueue \o r
      <4> DEFINE r == << <<"Stop", form[handle]>>, <<"Destroy", form[handle]>> >>
      <4>1. IsQueue(r) /\ NoStarts(r)
        BY ListedTasks DEF NoStarts, IsStart
      <4> QED
        BY <3>2, <4>1 DEF ClickRelease
    <3> QED
      BY <1>2, <3>1, <3>2
  <2> QED
    BY <1>2, <2>1 DEF NoneStarts, NoneUnmade, ClickStopDevices, ClickRelease
<1>3. ASSUME NEW o \in Consumers, NEW handle, Create(o, handle) PROVE Unstarted(p)
  <2>1. Tasks(apiQueue') = {StartOf(o)} /\ life[o] = "none" /\ life' = [life EXCEPT ![o] = "alive"]
    BY <1>3, ListedTasks DEF Create, StartOf
  <2>2. \A d : StartOf(d) = StartOf(o) => d = o
    BY TaskNames
  <2>3. p # o => life'[p] = life[p]
    BY <2>1 DEF SessionInv, SinkInv, LifeOK
  <2> QED
    BY <2>1, <2>2, <2>3 DEF Unstarted
<1>4. CASE ApiThread
  <2>1. ASSUME NEW x \in Pushers,
               StartPush(x) \/ PostOffer(x) \/ StopPush(x) \/ DestroyPusher(x) \/ FinishDestroy(x)
        PROVE  NoneStarts /\ NoneUnmade
    <3>1. CASE StartPush(x)
      BY <3>1, ConsumerTasks DEF StartPush, ApiTask, StartStream, NoneStarts, NoneUnmade
    <3>2. CASE PostOffer(x) \/ FinishDestroy(x)
      BY <3>2 DEF PostOffer, FinishDestroy, deviceVars, NoneStarts, NoneUnmade
    <3>3. CASE StopPush(x)
      BY <3>3, ConsumerTasks DEF StopPush, ApiTask, Crash, NoneStarts, NoneUnmade
    <3>4. CASE DestroyPusher(x)
      BY <3>4 DEF DestroyPusher, ApiTask, NoneStarts, NoneUnmade
    <3> QED
      BY <2>1, <3>1, <3>2, <3>3, <3>4
  <2>2. ASSUME NEW v \in Previews, StartPreview(v) \/ StopPreview(v) \/ DestroyPreview(v)
        PROVE  NoneStarts /\ NoneUnmade
    BY <2>2, ConsumerTasks DEF StartPreview, StopPreview, DestroyPreview, ApiTask, Crash,
                               NoneStarts, NoneUnmade
  <2>3. ASSUME DeviceTask PROVE NoneStarts /\ NoneUnmade
    BY <2>3 DEF DeviceTask, Crash, StartCamera, StartMic, StopCamera, StopMic, DestroyDevice,
                ChangeConsumers, NoneStarts, NoneUnmade
  <2>4. ASSUME DeliverVideo PROVE NoneStarts /\ NoneUnmade
    BY <2>4 DEF DeliverVideo, ApiTask, Crash, Deliver, NoneStarts, NoneUnmade
  <2> QED
    BY <1>4, <2>1, <2>2, <2>3, <2>4, UnstartedFacts DEF ApiThread
<1>5. ASSUME \/ WorkerThread \/ NetworkTask \/ HttpThread
             \/ \E mic \in Mics : CaptureAudio(mic)
             \/ \E x \in Pushers : Encode(x)
             \/ \E x \in Pushers, state \in IceStates : IceState(x, state)
      PROVE  NoneStarts /\ NoneUnmade
  <2>1. UNCHANGED <<apiQueue, life>>
    <3>1. CASE WorkerThread
      BY <3>1 DEF WorkerThread, WorkerChangesObjects, DeliverReply, SendAnswer, Render, Crash,
                  deviceVars
    <3>2. CASE NetworkTask \/ HttpThread \/ \E x \in Pushers : Encode(x)
      BY <3>2 DEF NetworkTask, HttpThread, Encode, Crash, deviceVars
    <3>3. CASE \E mic \in Mics : CaptureAudio(mic)
      BY <3>3 DEF CaptureAudio, Deliver, Crash
    <3>4. CASE \E x \in Pushers, state \in IceStates : IceState(x, state)
      BY <3>4 DEF IceState, deviceVars
    <3> QED
      BY <1>5, <3>1, <3>2, <3>3, <3>4
  <2> QED
    BY <2>1 DEF NoneStarts, NoneUnmade
<1>6. ASSUME NEW cam \in Cameras, CaptureCamera(cam) PROVE NoneStarts /\ NoneUnmade
  <2>1. apiQueue' = apiQueue \o <<<<"Frame", cam>>>> /\ UNCHANGED life
    BY <1>6, AppendIsPost DEF CaptureCamera, CaptureVideo, SessionInv, StartInv
  <2>2. IsQueue(<<<<"Frame", cam>>>>) /\ NoStarts(<<<<"Frame", cam>>>>)
    BY ListedTasks DEF NoStarts, IsStart
  <2> QED
    BY <2>1, <2>2 DEF NoneStarts, NoneUnmade
<1>7. CASE Application
  BY <1>1, <1>2, <1>3, <1>7, UnstartedFacts
     DEF Application, ClickPush, ClickPreview, Consumers
<1> QED
  BY <1>4, <1>5, <1>6, <1>7, UnstartedFacts DEF Next

\* The connection, the replies and what was told stay as they are.
OfferRest == UNCHANGED <<transfers, messages, reading, outcomes, pc, workerAt, networkQueue>>

\* Steps that have nothing to do with an offer.
LEMMA QuietCases ==
  ASSUME SessionInv, Next,
         \/ Application \/ DeviceTask \/ DeliverVideo \/ Render \/ WorkerChangesObjects
         \/ NetworkTask
         \/ \E p \in Pushers : StopPush(p) \/ DestroyPusher(p) \/ FinishDestroy(p) \/ Encode(p)
         \/ \E v \in Previews : StartPreview(v) \/ StopPreview(v) \/ DestroyPreview(v)
         \/ \E mic \in Mics : CaptureAudio(mic)
         \/ \E cam \in Cameras : CaptureCamera(cam)
  PROVE  Quiet
<1>1. \A p \in Pushers : Unstarted(p)' => Unstarted(p)
  BY UnstartedStep
<1>2. ASSUME OfferRest, UNCHANGED workerQueue \/ OtherTasks,
             \A p : apiAt' = <<"post", p>> => apiAt = <<"post", p>>, UNCHANGED chained
      PROVE  Quiet
  <2>1. \A p : Active(p)' <=> Active(p)
    BY <1>2 DEF OfferRest, Active
  <2> QED
    BY <1>1, <1>2, <2>1 DEF Quiet, OfferRest
<1>3. IsQueue(workerQueue) /\ IsQueue(networkQueue)
  BY DEF SessionInv, SinkInv, ObjectInv, NetworkOK
<1>4. ASSUME NEW what, Crash(what) PROVE Quiet
  BY <1>2, <1>4 DEF Crash, httpVars, sessionVars, OfferRest
<1>5. CASE Application
  <2>1. UNCHANGED <<httpVars, outcomes, pc, workerAt, networkQueue, apiAt, chained>>
    BY <1>5 DEF Application, ClickStartDevices, ClickStopDevices, ClickPush, ClickPreview,
                Create, ClickRelease
  <2> QED
    BY <1>2, <2>1 DEF OfferRest, httpVars
<1>6. CASE DeviceTask
  BY <1>2, <1>4, <1>6 DEF DeviceTask, httpVars, sessionVars, OfferRest
<1>7. ASSUME NEW d, Deliver(d) PROVE Quiet
  <2> DEFINE views == Listeners(d) \cap Previews
             tasks == {[op |-> "Render", obj |-> v] : v \in views}
  <2>1. IsFiniteSet(tasks)
    <3>1. IsFiniteSet(views)
      BY SessionAssumption, FS_Subset
    <3> DEFINE draw == [v \in views |-> [op |-> "Render", obj |-> v]]
    <3>2. draw \in [views -> tasks] /\ \A t \in tasks : \E v \in views : draw[v] = t
      OBVIOUS
    <3> HIDE DEF views, tasks, draw
    <3> QED
      BY <3>1, <3>2, ImageFinite
  <2>2. \A task \in tasks : task.op # "Reply"
    OBVIOUS
  <2>3. workerQueue' = workerQueue \o SetToSeq(tasks)
    BY <1>7 DEF Deliver
  <2> HIDE DEF tasks
  <2>4. OtherTasks
    BY <2>1, <2>2, <2>3, SetToSeqFacts DEF OtherTasks
  <2>5. OfferRest /\ UNCHANGED <<apiAt, chained>>
    BY <1>7 DEF Deliver, OfferRest
  <2> QED
    BY <1>2, <2>4, <2>5
<1>8. CASE DeliverVideo \/ \E mic \in Mics : CaptureAudio(mic)
  BY <1>4, <1>7, <1>8 DEF DeliverVideo, CaptureAudio
<1>9. CASE Render \/ WorkerChangesObjects
  <2>1. CASE ~Crash("render")
    <3>1. OtherTasks
      BY <1>9, <2>1 DEF Render, WorkerChangesObjects, WorkerTask, ChangeObjects, OtherTasks
    <3>2. OfferRest /\ UNCHANGED <<apiAt, chained>>
      BY <1>9, <2>1 DEF Render, WorkerChangesObjects, ChangeObjects, sessionVars, OfferRest
    <3> QED
      BY <1>2, <3>1, <3>2
  <2> QED
    BY <1>4, <2>1
<1>10. CASE NetworkTask
  <2> DEFINE op == Head(networkQueue)[1]
             p == Head(networkQueue)[2]
  <2>1. CASE ~Crash("frame")
    <3>1. /\ UNCHANGED <<transfers, messages, reading, outcomes, workerQueue, chained>>
          /\ networkQueue # << >> /\ networkQueue' = Tail(networkQueue)
          /\ pc' = IF op = "frame" THEN pc ELSE [pc EXCEPT ![p].streams = (op = "create")]
          /\ workerAt' = IF op = "create" THEN <<"created", p>> ELSE workerAt
          /\ apiAt' = IF op = "delete" THEN <<"destroyed", p>> ELSE apiAt
      BY <1>10, <2>1 DEF NetworkTask, httpVars
    <3>2. /\ Tasks(networkQueue) = Tasks(networkQueue') \cup {Head(networkQueue)}
          /\ op \in {"frame", "create", "delete"}
          /\ op # "frame" => p \in Pushers
          /\ op = "create" =>
                \E task \in Tasks(networkQueue) : task[1] = "create" /\ task[2] = p
      <4>1. Tasks(networkQueue) = Tasks(networkQueue') \cup {Head(networkQueue)}
        BY <1>3, <3>1, TasksAfter
      <4>2. /\ op \in {"frame", "create", "delete"}
            /\ op # "frame" => p \in Pushers
        BY <4>1 DEF SessionInv, SinkInv, NetworkOK, ObjectInv
      <4> QED
        BY <4>1, <4>2
    <3> HIDE DEF op, p
    <3>3. \A x \in Pushers : pc'[x].gathering = pc[x].gathering
      <4> DEFINE made == (op = "create")
      <4>1. pc \in Connections
        BY DEF SessionInv, SinkInv, StreamInv
      <4>2. pc' = pc \/ (p \in Pushers /\ pc' = [pc EXCEPT ![p].streams = made])
        BY <3>1, <3>2
      <4> HIDE DEF made
      <4> QED
        BY <4>1, <4>2 DEF Connections
    <3>4. ASSUME NEW x \in Pushers, Active(x)' PROVE Active(x)
      BY <3>1, <3>2, <3>3, <3>4 DEF Active
    <3>5. \A x : apiAt' = <<"post", x>> => apiAt = <<"post", x>>
      BY <3>1
    <3> QED
      BY <1>1, <3>1, <3>4, <3>5 DEF Quiet
  <2> QED
    BY <1>4, <2>1
<1>11. ASSUME NEW p \in Pushers,
              StopPush(p) \/ DestroyPusher(p) \/ FinishDestroy(p) \/ Encode(p)
       PROVE  Quiet
  <2>1. CASE StopPush(p)
    BY <1>2, <1>4, <2>1 DEF StopPush, httpVars, sessionVars, OfferRest
  <2>2. CASE FinishDestroy(p)
    BY <1>2, <2>2 DEF FinishDestroy, httpVars, OfferRest
  <2>3. CASE DestroyPusher(p)
    <3>1. UNCHANGED workerQueue \/ OtherTasks
      <4>1. workerQueue' = workerQueue \/ workerQueue' = Append(workerQueue, RemoveObjectTask(p))
        BY <2>3 DEF DestroyPusher, WithdrawSink
      <4>2. Append(workerQueue, RemoveObjectTask(p)) = workerQueue \o <<RemoveObjectTask(p)>>
        BY <1>3, AppendIsPost
      <4>3. IsQueue(<<RemoveObjectTask(p)>>)
              /\ \A t \in Tasks(<<RemoveObjectTask(p)>>) : t.op # "Reply"
        BY ListedTasks, TaskFacts
      <4> QED
        BY <4>1, <4>2, <4>3 DEF OtherTasks
    <3>2. /\ UNCHANGED <<transfers, messages, reading, outcomes, pc, workerAt, chained>>
          /\ \A x : apiAt' = <<"post", x>> => apiAt = <<"post", x>>
          /\ networkQueue' = networkQueue \/ networkQueue' = Append(networkQueue, <<"delete", p>>)
      BY <2>3 DEF DestroyPusher, DeleteStreams
    <3>3. Tasks(networkQueue') \subseteq Tasks(networkQueue) \cup {<<"delete", p>>}
      <4>1. Tasks(Append(networkQueue, <<"delete", p>>)) = Tasks(networkQueue) \cup {<<"delete", p>>}
        BY <1>3, TasksAfter
      <4>2. CASE networkQueue' = networkQueue
        BY <4>2
      <4>3. CASE networkQueue' = Append(networkQueue, <<"delete", p>>)
        BY <4>1, <4>3
      <4> QED
        BY <3>2, <4>2, <4>3
    <3>4. \A x : Active(x)' => Active(x)
      BY <3>2, <3>3 DEF Active
    <3> QED
      BY <1>1, <3>1, <3>2, <3>4 DEF Quiet
  <2>4. CASE Encode(p)
    <3>1. CASE ~Crash("encoder")
      <4>1. /\ UNCHANGED <<transfers, messages, reading, outcomes, pc, workerAt, chained,
                           workerQueue, apiAt>>
            /\ networkQueue' = Append(networkQueue, <<"frame", p>>)
        BY <2>4, <3>1 DEF Encode, httpVars
      <4>2. Tasks(networkQueue') \subseteq Tasks(networkQueue) \cup {<<"frame", p>>}
        BY <1>3, <4>1, TasksAfter
      <4>3. \A x : Active(x)' => Active(x)
        BY <4>1, <4>2 DEF Active
      <4> QED
        BY <1>1, <4>1, <4>3 DEF Quiet
    <3> QED
      BY <1>4, <3>1
  <2> QED
    BY <1>11, <2>1, <2>2, <2>3, <2>4
<1>12. ASSUME NEW v \in Previews, StartPreview(v) \/ StopPreview(v) \/ DestroyPreview(v)
       PROVE  Quiet
  BY <1>2, <1>4, <1>12 DEF StartPreview, StopPreview, DestroyPreview, httpVars, sessionVars,
                           OfferRest
<1>13. ASSUME NEW cam \in Cameras, CaptureCamera(cam) PROVE Quiet
  BY <1>2, <1>13 DEF CaptureCamera, httpVars, sessionVars, OfferRest
<1> QED
  BY <1>5, <1>6, <1>8, <1>9, <1>10, <1>11, <1>12, <1>13

\* Something is told of one push.
LEMMA ToldFacts ==
  ASSUME ToldOK, NEW p \in Pushers, NEW what \in Words, outcomes' = Told(p, what)
  PROVE  /\ ToldOK'
         /\ outcomes'[p] = Append(outcomes[p], what)
         /\ \A x \in Pushers : x # p => outcomes'[x] = outcomes[x]
         /\ Tasks(outcomes'[p]) = Tasks(outcomes[p]) \cup {what}
         /\ outcomes[p] = << >> => Len(outcomes'[p]) = 1
<1>1. outcomes[p] \in Seq(Words) /\ IsQueue(outcomes[p])
  BY DEF ToldOK, IsQueue
<1>2. Append(outcomes[p], what) \in Seq(Words)
  BY <1>1, AppendProperties
<1>3. ToldOK' /\ outcomes'[p] = Append(outcomes[p], what)
  BY <1>2 DEF ToldOK, Told
<1>4. \A x \in Pushers : x # p => outcomes'[x] = outcomes[x]
  BY DEF ToldOK, Told
<1>5. Tasks(outcomes'[p]) = Tasks(outcomes[p]) \cup {what}
  <2>1. Tasks(Append(outcomes[p], what)) = Tasks(outcomes[p]) \cup {what}
    BY <1>1, TasksAfter
  <2> QED
    BY <1>3, <2>1
<1>6. outcomes[p] = << >> => Len(outcomes'[p]) = 1
  BY <1>1, <1>3, AppendFacts, EmptySeq
<1> QED
  BY <1>3, <1>4, <1>5, <1>6

\* The push starts: it may fail at once, or ask.
LEMMA OfferStartPush ==
  ASSUME SessionInv, UserInv, OfferInv, UserInv', NEW p \in Pushers, Next, StartPush(p)
  PROVE  OfferInv'
<1>1. /\ IsQueue(workerQueue) /\ IsQueue(apiQueue) /\ AskInv /\ ToldOK /\ p \in Consumers
  BY DEF SessionInv, SinkInv, StartInv, ObjectInv, OfferInv, Consumers
<1>2. /\ apiAt = << >>
      /\ UNCHANGED <<life, transfers, messages, reading, pc, workerAt, networkQueue>>
      /\ workerQueue' = workerQueue \/ workerQueue' = Append(workerQueue, AddObjectTask(p))
      /\ chained' = chained \/ chained' = chained \cup {p}
      /\ \/ UNCHANGED <<outcomes, apiAt>>
         \/ UNCHANGED outcomes /\ apiAt' = <<"post", p>>
         \/ /\ UNCHANGED apiAt
            /\ \E what \in Failures : outcomes' = Told(p, what)
  BY DEF StartPush, ApiTask, CreateChain, StartStream, StartSink, Failures
<1>3. UNCHANGED workerQueue \/ OtherTasks
  <2>1. Append(workerQueue, AddObjectTask(p)) = workerQueue \o <<AddObjectTask(p)>>
    BY <1>1, AppendIsPost
  <2>2. IsQueue(<<AddObjectTask(p)>>) /\ \A t \in Tasks(<<AddObjectTask(p)>>) : t.op # "Reply"
    BY ListedTasks, TaskFacts
  <2> QED
    BY <1>2, <2>1, <2>2 DEF OtherTasks
<1>4. /\ \A x : HowMany(workerQueue', OfferReplies(x)) = HowMany(workerQueue, OfferReplies(x))
      /\ \A task \in Tasks(workerQueue') :
           task.op = "Reply" => \E m \in Arrivals : task = ReplyTask(m)
  <2>1. CASE UNCHANGED workerQueue
    BY <1>1, <2>1 DEF AskInv
  <2> QED
    BY <1>1, <1>3, <2>1, OtherTasksFacts
<1>5. AskInv'
  BY <1>1, <1>2, <1>4 DEF AskInv, Tasks
<1>6. \A x : Offers(x)' = Offers(x) /\ (Active(x)' <=> Active(x))
  BY <1>2, <1>4 DEF Offers, WithCurl, Read, Active
<1>7. \A x \in Pushers : OfferOK(x) /\ Offers(x) \in Nat
  BY <1>1, OfferTypes DEF OfferInv
<1>9. p \notin chained /\ outcomes[p] = << >> /\ Offers(p) = 0 /\ ~Active(p)
  <2>1. StartOf(p) \in Tasks(apiQueue)
    <3>1. ApiTask("Start") /\ Subject = p
      BY DEF StartPush
    <3> QED
      BY <1>1, <3>1, HeadOf DEF StartOf
  <2>2. OrderOK(p)
    BY <1>1 DEF UserInv
  <2> QED
    BY <1>7, <2>1, <2>2 DEF OrderOK, OfferOK, Unstarted
<1>10. ~Unstarted(p)'
  <2>1. ApiTask("Start") /\ Subject = p /\ apiQueue # << >>
    BY DEF StartPush, ApiTask
  <2>2. Head(apiQueue) = StartOf(p) /\ StartOf(p) \in Tasks(apiQueue)
    BY <1>1, <2>1, HeadOf DEF StartOf
  <2>3. OrderOK(p)
    BY <1>1 DEF UserInv
  <2>4. StartOf(p) \notin Tasks(Tail(apiQueue))
    BY <1>1, <2>1, <2>2, <2>3, OrderTail DEF OrderOK
  <2>5. life'[p] # "none"
    <3>1. Waits(p)
      BY <2>2, <2>3 DEF OrderOK
    <3> QED
      BY <1>2, <2>3, <3>1, WaitsAlive DEF Alive
  <2>6. StartOf(p) \notin Tasks(apiQueue')
    <3>1. IsQueue(Tail(apiQueue))
      BY <1>1, <2>1, TailFacts
    <3>2. apiQueue' = Tail(apiQueue) \/ \E cam : apiQueue' = Append(Tail(apiQueue), AddOf(cam, p))
      BY DEF StartPush, StartStream, AddOf
    <3>3. \A cam : Tasks(Append(Tail(apiQueue), AddOf(cam, p)))
                     = Tasks(Tail(apiQueue)) \cup {AddOf(cam, p)}
      BY <3>1, TasksAfter
    <3>4. \A cam : AddOf(cam, p) # StartOf(p)
      BY TaskNames DEF AddOf
    <3> QED
      BY <2>4, <3>2, <3>3, <3>4
  <2> QED
    BY <2>5, <2>6 DEF Unstarted
<1>11. ToldOK' /\ \A x \in Pushers : x # p => outcomes'[x] = outcomes[x]
  <2>1. CASE UNCHANGED outcomes
    BY <1>1, <2>1 DEF ToldOK
  <2>2. ASSUME NEW what \in Failures, outcomes' = Told(p, what)
        PROVE  ToldOK' /\ \A x \in Pushers : x # p => outcomes'[x] = outcomes[x]
    <3>1. what \in Words
      BY DEF Words
    <3> QED
      BY <1>1, <2>2, <3>1, ToldFacts
  <2> QED
    BY <1>2, <2>1, <2>2
<1>12. ASSUME NEW x \in Pushers, x # p PROVE OfferOK(x)'
  <2>1. /\ OfferOK(x) /\ Offers(x)' \in Nat /\ Offers(x)' <= Offers(x)
        /\ Active(x)' => Active(x)
    BY <1>6, <1>7
  <2>2. /\ outcomes'[x] = outcomes[x]
        /\ apiAt' = <<"post", x>> => apiAt = <<"post", x>>
        /\ x \in chained => x \in chained'
    BY <1>2, <1>11, <1>12
  <2>3. Unstarted(x)' => Unstarted(x)
    BY UnstartedStep
  <2> QED
    BY <2>1, <2>2, <2>3, OfferKeep
<1>13. OfferOK(p)'
  <2>1. Offers(p)' = 0 /\ ~Active(p)'
    BY <1>6, <1>9
  <2>2. CASE UNCHANGED outcomes
    <3>1. ~Failed(p)' /\ outcomes'[p] = << >>
      BY <1>9, <2>2, ListedTasks DEF Failed
    <3> QED
      BY <1>10, <2>1, <3>1 DEF OfferOK
  <2>3. ASSUME UNCHANGED apiAt, NEW what \in Failures, outcomes' = Told(p, what)
        PROVE  OfferOK(p)'
    <3>1. Len(outcomes'[p]) = 1
      <4>1. what \in Words
        BY DEF Words
      <4> QED
        BY <1>1, <1>9, <2>3, <4>1, ToldFacts
    <3>2. apiAt' # <<"post", p>>
      BY <1>2, <2>3
    <3> QED
      BY <1>10, <2>1, <3>1, <3>2 DEF OfferOK
  <2> QED
    BY <1>2, <2>2, <2>3
<1> QED
  BY <1>5, <1>11, <1>12, <1>13 DEF OfferInv

\* A push with its chain has started.
LEMMA ChainedStarted ==
  ASSUME SessionInv, UserInv, NEW p \in chained
  PROVE  p \in Pushers /\ ~Unstarted(p)
<1>1. p \in Pushers /\ life[p] # "none"
  BY DEF SessionInv, SinkInv, ObjectInv
<1>2. OrderOK(p)
  BY <1>1 DEF UserInv, Consumers
<1> QED
  BY <1>1, <1>2 DEF OrderOK, Unstarted

\* ICE reports: of a push that was accepted, whose offer is nowhere any more.
LEMMA OfferIceState ==
  ASSUME SessionInv, UserInv, OfferInv, NEW p \in Pushers, NEW state \in IceStates, IceState(p, state)
  PROVE  OfferInv'
<1>1. /\ UNCHANGED <<life, apiQueue, transfers, messages, reading, workerQueue, chained,
                     networkQueue, apiAt, workerAt>>
      /\ pc[p].gathering /\ pc' = [pc EXCEPT ![p].state = state]
      /\ \/ UNCHANGED outcomes
         \/ \E what \in {"success", "ice"} : outcomes' = Told(p, what)
  BY DEF IceState, deviceVars, httpVars
<1>2. AskInv' /\ ToldOK /\ \A x \in Pushers : OfferOK(x)
  BY <1>1 DEF OfferInv, AskInv, Tasks
<1>3. \A x \in Pushers : pc'[x].gathering = pc[x].gathering
  <2>1. pc \in Connections
    BY DEF SessionInv, SinkInv, StreamInv
  <2> QED
    BY <1>1, <2>1 DEF Connections
<1>4. \A x \in Pushers : /\ Offers(x)' = Offers(x) /\ (Active(x)' <=> Active(x))
                         /\ Unstarted(x)' <=> Unstarted(x)
  BY <1>1, <1>3 DEF Offers, WithCurl, Read, Active, Unstarted
<1>5. CASE UNCHANGED outcomes
  <2>1. ToldOK' /\ \A x : Failed(x)' <=> Failed(x)
    BY <1>2, <1>5 DEF ToldOK, Failed
  <2> QED
    BY <1>1, <1>2, <1>4, <1>5, <2>1 DEF OfferInv, OfferOK
<1>6. ASSUME NEW what \in {"success", "ice"}, outcomes' = Told(p, what) PROVE OfferInv'
  <2>1. what \in Words /\ what \notin Failures
    BY DEF Words, Failures
  <2>2. /\ ToldOK'
        /\ \A x \in Pushers : x # p => outcomes'[x] = outcomes[x]
        /\ Tasks(outcomes'[p]) = Tasks(outcomes[p]) \cup {what}
    BY <1>2, <1>6, <2>1, ToldFacts
  <2>3. Active(p) /\ OfferOK(p)
    BY <1>1, <1>2 DEF Active
  <2>4. /\ Offers(p) = 0 /\ apiAt # <<"post", p>> /\ p \in chained
        /\ ~Failed(p) /\ ~Unstarted(p)
    <3>1. /\ Offers(p) = 0 /\ apiAt # <<"post", p>> /\ p \in chained /\ ~Failed(p)
      BY <2>3 DEF OfferOK
    <3> QED
      BY <3>1, ChainedStarted
  <2>5. ~Failed(p)'
    BY <2>1, <2>2, <2>4 DEF Failed
  <2>6. OfferOK(p)'
    BY <1>1, <1>4, <2>4, <2>5 DEF OfferOK
  <2>7. ASSUME NEW x \in Pushers, x # p PROVE OfferOK(x)'
    <3>1. outcomes'[x] = outcomes[x] /\ OfferOK(x) /\ (Failed(x)' <=> Failed(x))
      BY <1>2, <2>2, <2>7 DEF Failed
    <3> QED
      BY <1>1, <1>4, <3>1 DEF OfferOK
  <2> QED
    BY <1>2, <2>2, <2>6, <2>7 DEF OfferInv
<1> QED
  BY <1>1, <1>5, <1>6

\* The offer is posted: curl has it.
LEMMA OfferPostOffer ==
  ASSUME SessionInv, OfferInv, NEW p \in Pushers, Next, PostOffer(p)
  PROVE  OfferInv'
<1>1. /\ UNCHANGED <<life, apiQueue, messages, reading, workerQueue, chained,
                     networkQueue, workerAt, pc, outcomes>>
      /\ \/ apiAt = <<"post", p>> /\ apiAt' = <<"posted", p>> /\ transfers' = transfers \cup {Offer(p)}
         \/ apiAt = <<"posted", p>> /\ apiAt' = << >> /\ UNCHANGED transfers
  BY DEF PostOffer, AddHandle, Remember, deviceVars, Offer
<1>2. AskInv /\ ToldOK' /\ IsQueue(workerQueue) /\ \A x \in Pushers : OfferOK(x)
  BY <1>1 DEF OfferInv, ToldOK, SessionInv, SinkInv, ObjectInv
<1>3. AskInv'
  <2>1. transfers' \subseteq Asks
    BY <1>1, <1>2 DEF AskInv, Asks, Offer
  <2> QED
    BY <1>1, <1>2, <2>1 DEF AskInv, Tasks
<1>4. \A x \in Pushers : /\ Active(x)' <=> Active(x)
                         /\ Unstarted(x)' <=> Unstarted(x)
                         /\ Failed(x)' <=> Failed(x)
                         /\ Read(x)' = Read(x)
                         /\ HowMany(messages, OfferMessages(x))' = HowMany(messages, OfferMessages(x))
                         /\ HowMany(workerQueue, OfferReplies(x))' = HowMany(workerQueue, OfferReplies(x))
                         /\ x # p => WithCurl(x)' = WithCurl(x)
  BY <1>1 DEF Active, Unstarted, Failed, Read, WithCurl, Offer
<1>5. ASSUME NEW x \in Pushers, x # p \/ UNCHANGED transfers PROVE OfferOK(x)'
  <2>1. Offers(x)' = Offers(x)
    BY <1>4, <1>5 DEF Offers, WithCurl
  <2>2. OfferOK(x) /\ Offers(x)' \in Nat /\ Offers(x)' <= Offers(x)
    BY <1>2, <2>1, OfferTypes
  <2>3. /\ outcomes'[x] = outcomes[x] /\ (x \in chained => x \in chained')
        /\ apiAt' = <<"post", x>> => apiAt = <<"post", x>>
    BY <1>1
  <2>4. (Active(x)' => Active(x)) /\ (Unstarted(x)' => Unstarted(x))
    BY <1>4
  <2> QED
    BY <2>2, <2>3, <2>4, OfferKeep
<1>6. ASSUME apiAt = <<"post", p>>, apiAt' = <<"posted", p>>,
             transfers' = transfers \cup {Offer(p)}
      PROVE  OfferOK(p)'
  <2>1. /\ Offers(p) = 0 /\ ~Active(p) /\ outcomes[p] = << >> /\ p \in chained
    <3>1. p \in chained
      BY <1>6 DEF SessionInv, SinkInv, ApiOK
    <3>2. OfferOK(p)
      BY <1>2
    <3> QED
      BY <1>6, <3>1, <3>2 DEF OfferOK
  <2>2. /\ WithCurl(p) \in 0..1 /\ Read(p) \in 0..1
        /\ HowMany(messages, OfferMessages(p)) \in Nat
        /\ HowMany(workerQueue, OfferReplies(p)) \in Nat
    BY <1>2, OfferTypes
  <2>3. WithCurl(p)' = 1
    BY <1>6 DEF WithCurl, Offer
  <2>4. Offers(p)' = 1
    BY <1>4, <2>1, <2>2, <2>3 DEF Offers
  <2>5. ~Failed(p)' /\ outcomes'[p] = << >>
    BY <1>1, <2>1, ListedTasks DEF Failed
  <2>6. apiAt' # <<"post", p>>
    BY <1>6
  <2> QED
    BY <1>1, <1>4, <2>1, <2>4, <2>5, <2>6 DEF OfferOK
<1> QED
  BY <1>1, <1>2, <1>3, <1>5, <1>6 DEF OfferInv

\* The answer is posted, and ICE begins: the offer was accepted before.
LEMMA OfferSendAnswer ==
  ASSUME SessionInv, OfferInv, NEW p \in Pushers, Next, SendAnswer(p)
  PROVE  OfferInv'
<1>1. CASE Crash("reply")
  <2>1. UNCHANGED <<life, apiQueue, transfers, messages, reading, workerQueue, chained,
                    networkQueue, workerAt, pc, outcomes, apiAt>>
    BY <1>1 DEF Crash, httpVars, sessionVars
  <2> QED
    BY <2>1, QuietStep DEF Quiet, Active, Unstarted
<1>2. CASE ~Crash("reply")
  <2>1. /\ UNCHANGED <<life, apiQueue, messages, reading, workerQueue, chained,
                       networkQueue, apiAt, outcomes>>
        /\ \/ /\ workerAt = <<"created", p>> /\ workerAt' = <<"posted", p>>
              /\ transfers' = transfers \cup {<<p, "answer">>}
              /\ pc' = [pc EXCEPT ![p].gathering = TRUE]
           \/ workerAt = <<"posted", p>> /\ workerAt' = << >> /\ UNCHANGED <<transfers, pc>>
    BY <1>2 DEF SendAnswer, AddHandle, Remember, deviceVars
  <2>2. AskInv /\ ToldOK' /\ IsQueue(workerQueue) /\ \A x \in Pushers : OfferOK(x)
    BY <2>1 DEF OfferInv, ToldOK, SessionInv, SinkInv, ObjectInv
  <2>3. AskInv'
    <3>1. transfers' \subseteq Asks
      BY <2>1, <2>2 DEF AskInv, Asks
    <3> QED
      BY <2>1, <2>2, <3>1 DEF AskInv, Tasks
  <2>4. ASSUME NEW x \in Pushers PROVE OfferOK(x)'
    <3>1. WithCurl(x)' = WithCurl(x)
      BY <2>1 DEF WithCurl, Offer
    <3>2. Offers(x)' = Offers(x)
      BY <2>1, <3>1 DEF Offers, Read
    <3>3. Active(x)' => Active(x)
      <4>1. pc \in Connections
        BY DEF SessionInv, SinkInv, StreamInv
      <4>2. CASE /\ workerAt = <<"created", p>> /\ workerAt' = <<"posted", p>>
                 /\ pc' = [pc EXCEPT ![p].gathering = TRUE]
        <5>1. x # p => pc'[x].gathering = pc[x].gathering
          BY <4>1, <4>2 DEF Connections
        <5>2. x = p => Active(x)
          BY <4>2 DEF Active
        <5> QED
          BY <2>1, <4>2, <5>1, <5>2 DEF Active
      <4>3. CASE workerAt = <<"posted", p>> /\ workerAt' = << >> /\ UNCHANGED pc
        BY <2>1, <4>3 DEF Active
      <4> QED
        BY <2>1, <4>2, <4>3
    <3>4. Unstarted(x)' => Unstarted(x)
      BY <2>1 DEF Unstarted
    <3>5. OfferOK(x) /\ Offers(x)' \in Nat /\ Offers(x)' <= Offers(x)
      BY <2>2, <3>2, OfferTypes
    <3>6. /\ outcomes'[x] = outcomes[x] /\ (x \in chained => x \in chained')
          /\ apiAt' = <<"post", x>> => apiAt = <<"post", x>>
      BY <2>1
    <3> QED
      BY <3>3, <3>4, <3>5, <3>6, OfferKeep
  <2> QED
    BY <2>2, <2>3, <2>4 DEF OfferInv
<1> QED
  BY <1>1, <1>2

\* A reply is of the offer as its message is.
LEMMA ReplyOf ==
  ASSUME NEW m \in Arrivals, NEW p
  PROVE  /\ ReplyTask(m) \in OfferReplies(p) <=> m \in OfferMessages(p)
         /\ m \in OfferMessages(p) <=> m[1] = Offer(p)
         /\ << >> \notin OfferMessages(p)
         /\ m[1] \in Asks /\ m[2] \in Outcomes[m[1][2]]
<1>1. m \in OfferMessages(p) <=> m[1] = Offer(p)
  BY DEF OfferMessages
<1>2. ASSUME ReplyTask(m) \in OfferReplies(p) PROVE m \in OfferMessages(p)
  <2>1. PICK n \in OfferMessages(p) : ReplyTask(m) = ReplyTask(n)
    BY <1>2 DEF OfferReplies
  <2>2. ReplyTask(m).request = m[1] /\ ReplyTask(n).request = n[1]
    BY DEF ReplyTask
  <2> QED
    BY <1>1, <2>1, <2>2 DEF OfferMessages
<1>3. << >> \notin OfferMessages(p)
  BY DEF OfferMessages, Arrivals, Asks
<1> QED
  BY <1>1, <1>2, <1>3 DEF OfferReplies, Arrivals

\* The http thread and curl pass the offer on, or drop it.
LEMMA OfferHttpThread ==
  ASSUME SessionInv, OfferInv, Next, HttpThread
  PROVE  OfferInv'
<1>1. UNCHANGED <<life, apiQueue, chained, networkQueue, workerAt, pc, outcomes, apiAt>>
  BY DEF HttpThread, deviceVars, sessionVars
<1>2. AskInv /\ ToldOK' /\ IsQueue(workerQueue) /\ IsQueue(messages)
      /\ \A x \in Pushers : OfferOK(x)
  BY <1>1 DEF OfferInv, AskInv, ToldOK, SessionInv, SinkInv, ObjectInv
<1>3. ASSUME AskInv', \A x \in Pushers : Offers(x)' <= Offers(x) PROVE OfferInv'
  <2>1. ASSUME NEW x \in Pushers PROVE OfferOK(x)'
    <3>1. IsQueue(workerQueue')
      BY HttpThreadStep DEF SessionInv, SinkInv, ObjectInv
    <3>2. Offers(x)' \in Nat
      <4>1. HowMany(messages', OfferMessages(x)) \in Nat
        BY <1>3, HowManyType DEF AskInv
      <4>2. HowMany(workerQueue', OfferReplies(x)) \in Nat
        BY <3>1, HowManyType
      <4>3. WithCurl(x)' \in 0..1 /\ Read(x)' \in 0..1
        BY DEF WithCurl, Read
      <4> QED
        BY <4>1, <4>2, <4>3 DEF Offers
    <3>3. (Active(x)' => Active(x)) /\ (Unstarted(x)' => Unstarted(x))
      BY <1>1 DEF Active, Unstarted
    <3>4. /\ outcomes'[x] = outcomes[x] /\ (x \in chained => x \in chained')
          /\ apiAt' = <<"post", x>> => apiAt = <<"post", x>>
      BY <1>1
    <3> QED
      BY <1>2, <1>3, <3>2, <3>3, <3>4, OfferKeep
  <2> QED
    BY <1>2, <1>3, <2>1 DEF OfferInv
<1>4. CASE ReadMessage
  <2>1. /\ reading = << >> /\ messages # << >> /\ reading' = Head(messages)
        /\ messages' = Tail(messages) /\ UNCHANGED <<transfers, workerQueue>>
    BY <1>4 DEF ReadMessage
  <2>2. /\ IsQueue(messages') /\ Tasks(messages) = Tasks(messages') \cup {reading'}
    BY <1>2, <2>1, TailFacts, TasksAfter
  <2>3. AskInv'
    BY <1>2, <2>1, <2>2 DEF AskInv, Tasks
  <2>4. ASSUME NEW x \in Pushers PROVE Offers(x)' <= Offers(x)
    <3>1. HowMany(messages, OfferMessages(x))
             = HowMany(messages', OfferMessages(x)) + Read(x)'
      BY <1>2, <2>1, HowManyTail DEF Read
    <3>2. Read(x) = 0
      BY <2>1 DEF Read, OfferMessages, Arrivals, Asks
    <3>3. HowMany(messages', OfferMessages(x)) \in Nat /\ HowMany(workerQueue, OfferReplies(x)) \in Nat
      BY <1>2, <2>2, HowManyType
    <3>4. WithCurl(x)' = WithCurl(x) /\ WithCurl(x) \in 0..1 /\ Read(x)' \in 0..1
      BY <2>1 DEF WithCurl, Read
    <3> QED
      BY <2>1, <3>1, <3>2, <3>3, <3>4 DEF Offers
  <2> QED
    BY <1>3, <2>3, <2>4
<1>5. CASE PostReply
  <2>1. /\ reading # << >> /\ reading' = << >> /\ UNCHANGED <<transfers, messages>>
        /\ workerQueue' = workerQueue \/ workerQueue' = Append(workerQueue, ReplyTask(reading))
    BY <1>5 DEF PostReply
  <2>2. reading \in Arrivals
    BY <1>2, <2>1 DEF AskInv
  <2>3. Tasks(workerQueue') \subseteq Tasks(workerQueue) \cup {ReplyTask(reading)}
    <3>1. Tasks(Append(workerQueue, ReplyTask(reading)))
             = Tasks(workerQueue) \cup {ReplyTask(reading)}
      BY <1>2, TasksAfter
    <3> QED
      BY <2>1, <3>1
  <2>4. AskInv'
    BY <1>2, <2>1, <2>2, <2>3 DEF AskInv, Tasks
  <2>5. ASSUME NEW x \in Pushers PROVE Offers(x)' <= Offers(x)
    <3>1. HowMany(workerQueue', OfferReplies(x)) <= HowMany(workerQueue, OfferReplies(x)) + Read(x)
      <4>1. HowMany(Append(workerQueue, ReplyTask(reading)), OfferReplies(x))
              = HowMany(workerQueue, OfferReplies(x)) + Read(x)
        <5>1. ReplyTask(reading) \in OfferReplies(x) <=> reading \in OfferMessages(x)
          BY <2>2, ReplyOf
        <5>2. HowMany(Append(workerQueue, ReplyTask(reading)), OfferReplies(x))
                = HowMany(workerQueue, OfferReplies(x))
                    + (IF ReplyTask(reading) \in OfferReplies(x) THEN 1 ELSE 0)
          BY <1>2, HowManyPost
        <5> QED
          BY <5>1, <5>2 DEF Read
      <4>2. HowMany(workerQueue, OfferReplies(x)) \in Nat /\ Read(x) \in 0..1
        BY <1>2, HowManyType DEF Read
      <4>3. CASE workerQueue' = workerQueue
        BY <4>2, <4>3
      <4>4. CASE workerQueue' = Append(workerQueue, ReplyTask(reading))
        BY <4>1, <4>2, <4>4
      <4> QED
        BY <2>1, <4>3, <4>4
    <3>2. Read(x)' = 0
      <4>1. << >> \notin OfferMessages(x)
        BY <2>2, ReplyOf
      <4>2. reading' = << >>
        BY <2>1
      <4> QED
        BY <4>1, <4>2 DEF Read
    <3>3. /\ HowMany(messages, OfferMessages(x)) \in Nat
          /\ HowMany(workerQueue, OfferReplies(x)) \in Nat
          /\ HowMany(workerQueue', OfferReplies(x)) \in Nat
      <4>1. IsQueue(workerQueue')
        BY HttpThreadStep DEF SessionInv, SinkInv, ObjectInv
      <4> QED
        BY <1>2, <4>1, HowManyType
    <3>4. WithCurl(x)' = WithCurl(x) /\ WithCurl(x) \in 0..1 /\ Read(x) \in 0..1
      BY <2>1 DEF WithCurl, Read
    <3> QED
      BY <2>1, <3>1, <3>2, <3>3, <3>4 DEF Offers
  <2> QED
    BY <1>3, <2>4, <2>5
<1>6. ASSUME NEW r, TransferEnds(r) PROVE OfferInv'
  <2>1. PICK o \in Outcomes[r[2]] : messages' = Append(messages, <<r, o>>)
    BY <1>6 DEF TransferEnds
  <2>2. /\ r \in transfers /\ transfers' = transfers \ {r} /\ UNCHANGED <<reading, workerQueue>>
    BY <1>6 DEF TransferEnds
  <2>3. r \in Asks /\ <<r, o>> \in Arrivals
    <3>1. r \in Asks
      BY <1>2, <2>2 DEF AskInv
    <3> QED
      BY <2>1, <3>1 DEF Arrivals, Asks
  <2>4. IsQueue(messages') /\ Tasks(messages') = Tasks(messages) \cup {<<r, o>>}
    BY <1>2, <2>1, AppendFacts, TasksAfter
  <2>5. AskInv'
    BY <1>2, <2>2, <2>3, <2>4 DEF AskInv, Tasks
  <2>6. ASSUME NEW x \in Pushers PROVE Offers(x)' <= Offers(x)
    <3>1. <<r, o>> \in OfferMessages(x) <=> r = Offer(x)
      BY <2>3, ReplyOf
    <3>2. HowMany(messages', OfferMessages(x))
            = HowMany(messages, OfferMessages(x)) + (IF r = Offer(x) THEN 1 ELSE 0)
      BY <1>2, <2>1, <3>1, HowManyPost
    <3>3. WithCurl(x) = WithCurl(x)' + (IF r = Offer(x) THEN 1 ELSE 0) /\ WithCurl(x)' \in 0..1
      BY <2>2 DEF WithCurl, Offer
    <3>4. /\ HowMany(messages, OfferMessages(x)) \in Nat
          /\ HowMany(workerQueue, OfferReplies(x)) \in Nat
          /\ Read(x)' = Read(x) /\ Read(x) \in 0..1
      BY <1>2, <2>2, HowManyType DEF Read
    <3> QED
      BY <2>2, <3>2, <3>3, <3>4 DEF Offers
  <2> QED
    BY <1>3, <2>5, <2>6
<1> QED
  BY <1>4, <1>5, <1>6 DEF HttpThread, HttpNext

\* A reply is handled: of the two outcomes that say something, one ends the
\* attempt and the other lets it go on.
LEMMA OfferDeliverReply ==
  ASSUME SessionInv, UserInv, OfferInv, Next, DeliverReply
  PROVE  OfferInv'
<1>4. PICK task : task = Head(workerQueue)
  OBVIOUS
<1>5. PICK p : p = task.obj
  OBVIOUS
<1>1. /\ IsQueue(workerQueue) /\ IsQueue(networkQueue) /\ AskInv /\ ToldOK
      /\ \A x \in Pushers : OfferOK(x) /\ Offers(x) \in Nat
  <2>1. IsQueue(workerQueue) /\ IsQueue(networkQueue) /\ AskInv /\ ToldOK
    BY DEF SessionInv, SinkInv, ObjectInv, NetworkOK, OfferInv
  <2>2. \A x \in Pushers : OfferOK(x)
    BY DEF OfferInv
  <2> QED
    BY <2>1, <2>2, OfferTypes
<1>2. CASE Crash("reply")
  <2>1. UNCHANGED <<life, apiQueue, transfers, messages, reading, workerQueue, chained,
                    networkQueue, workerAt, pc, outcomes, apiAt>>
    BY <1>2 DEF Crash, httpVars, sessionVars
  <2> QED
    BY <2>1, QuietStep DEF Quiet, Active, Unstarted
<1>3. CASE ~Crash("reply")
  <2>1. /\ UNCHANGED <<life, apiQueue, transfers, messages, reading, chained, apiAt, pc>>
        /\ workerQueue # << >> /\ workerQueue' = Tail(workerQueue) /\ task.op = "Reply"
        /\ \/ UNCHANGED <<outcomes, workerAt, networkQueue>>
           \/ /\ p \in async_objs
              /\ outcomes' = IF task.outcome = "error" THEN Told(p, "offer") ELSE outcomes
              /\ IF task.outcome = "accepted" THEN CreateStreams(p)
                                              ELSE UNCHANGED <<workerAt, networkQueue>>
    BY <1>3, <1>4, <1>5 DEF DeliverReply, WorkerTask, HandleReply, ParseReply, deviceVars
  <2>2. Tasks(workerQueue) = Tasks(workerQueue') \cup {task} /\ IsQueue(workerQueue')
    BY <1>1, <1>4, <2>1, TailFacts, TasksAfter
  <2>3. PICK m \in Arrivals : task = ReplyTask(m)
    BY <1>1, <2>1, <2>2 DEF AskInv
  <2>4. /\ p = m[1][1] /\ task.outcome = m[2]
        /\ m[1] \in Asks /\ m[2] \in Outcomes[m[1][2]]
    <3>1. task.obj = m[1][1] /\ task.outcome = m[2]
      BY <2>3 DEF ReplyTask, Owner
    <3>2. m[1] \in Asks /\ m[2] \in Outcomes[m[1][2]]
      BY <2>3, ReplyOf
    <3> QED
      BY <1>5, <3>1, <3>2
  <2>5. p \in Pushers /\ m[1] = <<p, m[1][2]>> /\ m[1][2] \in {"offer", "answer"}
    BY <2>4 DEF Asks
  <2>6. AskInv'
    BY <1>1, <2>1, <2>2 DEF AskInv, Tasks
  <2>7. \A x : task \in OfferReplies(x) <=> x = p /\ m[1][2] = "offer"
    <3>1. \A x : task \in OfferReplies(x) <=> m[1] = Offer(x)
      BY <2>3, ReplyOf
    <3> QED
      BY <2>5, <3>1 DEF Offer
  <2>8. \A x \in Pushers :
           /\ Offers(x)' \in Nat
           /\ Offers(x) = Offers(x)' + (IF x = p /\ m[1][2] = "offer" THEN 1 ELSE 0)
    <3> SUFFICES ASSUME NEW x \in Pushers
                 PROVE  /\ Offers(x)' \in Nat
                        /\ Offers(x) = Offers(x)' + (IF x = p /\ m[1][2] = "offer" THEN 1 ELSE 0)
      OBVIOUS
    <3>1. HowMany(workerQueue, OfferReplies(x)) = HowMany(workerQueue', OfferReplies(x))
             + (IF x = p /\ m[1][2] = "offer" THEN 1 ELSE 0)
      <4>1. HowMany(workerQueue, OfferReplies(x)) = HowMany(Tail(workerQueue), OfferReplies(x))
               + (IF task \in OfferReplies(x) THEN 1 ELSE 0)
        BY <1>1, <1>4, <2>1, HowManyTail
      <4> QED
        BY <2>1, <2>7, <4>1
    <3>2. HowMany(workerQueue', OfferReplies(x)) \in Nat /\ HowMany(messages, OfferMessages(x)) \in Nat
      BY <1>1, <2>2, HowManyType DEF AskInv
    <3>3. /\ WithCurl(x)' = WithCurl(x) /\ WithCurl(x) \in 0..1
          /\ Read(x)' = Read(x) /\ Read(x) \in 0..1
      BY <2>1 DEF WithCurl, Read
    <3> QED
      BY <2>1, <3>1, <3>2, <3>3 DEF Offers
  <2>9. ASSUME NEW x \in Pushers, outcomes'[x] = outcomes[x], Active(x)' => Active(x)
        PROVE  OfferOK(x)'
    <3>1. OfferOK(x) /\ Offers(x)' \in Nat /\ Offers(x)' <= Offers(x)
      BY <1>1, <2>8
    <3>2. /\ apiAt' = <<"post", x>> => apiAt = <<"post", x>>
          /\ x \in chained => x \in chained'
          /\ Unstarted(x)' => Unstarted(x)
      BY <2>1 DEF Unstarted
    <3> QED
      BY <2>9, <3>1, <3>2, OfferKeep
  <2>10. ASSUME UNCHANGED <<outcomes, workerAt, networkQueue>> PROVE OfferInv'
    <3>1. \A x : Active(x)' <=> Active(x)
      BY <2>1, <2>10 DEF Active
    <3>2. ToldOK'
      BY <1>1, <2>10 DEF ToldOK
    <3> QED
      BY <2>6, <2>9, <2>10, <3>1, <3>2 DEF OfferInv
  <2>11. ASSUME m[1][2] = "offer", p \in async_objs
         PROVE  /\ Offers(p)' = 0 /\ ~Active(p) /\ outcomes[p] = << >> /\ p \in chained
                /\ ~Unstarted(p)' /\ apiAt' # <<"post", p>>
    <3>1. Offers(p) = 1
      <4>1. Offers(p) \in 0..1
        BY <1>1, <2>5 DEF OfferOK
      <4> QED
        BY <2>5, <2>8, <2>11, <4>1
    <3>2. ~Active(p) /\ outcomes[p] = << >> /\ apiAt # <<"post", p>>
      BY <1>1, <2>5, <3>1 DEF OfferOK
    <3>3. p \in chained /\ ~Unstarted(p)
      BY <2>11, ChainedStarted DEF SessionInv, SinkInv, ObjectInv
    <3>4. Offers(p)' = 0
      BY <2>5, <2>8, <2>11, <3>1
    <3> QED
      BY <2>1, <3>2, <3>3, <3>4 DEF Unstarted
  <2>12. m[2] \in {"error", "accepted"} => m[1][2] = "offer"
    BY <2>4, <2>5, OutcomesAssumption
  <2>13. ASSUME p \in async_objs, m[2] = "error", outcomes' = Told(p, "offer"),
                UNCHANGED <<workerAt, networkQueue>>
         PROVE  OfferInv'
    <3>1. "offer" \in Words
      BY DEF Words, Failures
    <3>2. /\ Offers(p)' = 0 /\ ~Active(p) /\ outcomes[p] = << >> /\ p \in chained
          /\ ~Unstarted(p)' /\ apiAt' # <<"post", p>>
      BY <2>11, <2>12, <2>13
    <3>3. /\ ToldOK' /\ Len(outcomes'[p]) = 1
          /\ \A x \in Pushers : x # p => outcomes'[x] = outcomes[x]
      BY <1>1, <2>5, <2>13, <3>1, <3>2, ToldFacts
    <3>4. \A x : Active(x)' <=> Active(x)
      BY <2>1, <2>13 DEF Active
    <3>5. OfferOK(p)'
      BY <3>2, <3>3, <3>4 DEF OfferOK
    <3> QED
      BY <2>6, <2>9, <3>3, <3>4, <3>5 DEF OfferInv
  <2>14. ASSUME p \in async_objs, m[2] = "accepted", UNCHANGED outcomes, CreateStreams(p)
         PROVE  OfferInv'
    <3>1. /\ Offers(p)' = 0 /\ ~Active(p) /\ outcomes[p] = << >> /\ p \in chained
          /\ ~Unstarted(p)' /\ apiAt' # <<"post", p>>
      BY <2>11, <2>12, <2>14
    <3>2. Tasks(networkQueue') = Tasks(networkQueue) \cup {<<"create", p>>}
          /\ workerAt' = <<"create", p>>
      BY <1>1, <2>14, TasksAfter DEF CreateStreams
    <3>3. ASSUME NEW x \in Pushers, x # p PROVE Active(x)' => Active(x)
      BY <2>1, <3>2, <3>3 DEF Active
    <3>4. ToldOK' /\ outcomes'[p] = << >> /\ ~Failed(p)'
      BY <1>1, <2>14, <3>1, ListedTasks DEF ToldOK, Failed
    <3>5. p \in chained'
      BY <2>1, <3>1
    <3>6. OfferOK(p)'
      BY <3>1, <3>4, <3>5 DEF OfferOK
    <3> QED
      BY <2>6, <2>9, <2>14, <3>3, <3>4, <3>6 DEF OfferInv
  <2> QED
    BY <2>1, <2>4, <2>10, <2>13, <2>14
<1> QED
  BY <1>2, <1>3

\* Before anything is asked.
LEMMA OfferInit == Init => OfferInv
<1> SUFFICES ASSUME Init PROVE OfferInv
  OBVIOUS
<1>1. /\ transfers = {} /\ messages = << >> /\ reading = << >> /\ workerQueue = << >>
      /\ networkQueue = << >> /\ apiAt = << >> /\ workerAt = << >>
      /\ \A p \in Pushers : outcomes[p] = << >> /\ ~pc[p].gathering
  BY DEF Init, HttpInit
<1>2. AskInv
  BY <1>1, ListedTasks DEF AskInv
<1>3. ToldOK
  BY EmptySeq DEF Init, ToldOK
<1>4. ASSUME NEW p \in Pushers PROVE OfferOK(p)
  <2>1. \A S : HowMany(<< >>, S) = 0
    <3>1. \A S : PlacesOf(<< >>, S) = {}
      BY EmptySeq DEF PlacesOf
    <3> QED
      BY <3>1, FS_EmptySet DEF HowMany
  <2>2. WithCurl(p) = 0 /\ Read(p) = 0
    BY <1>1 DEF WithCurl, Read, OfferMessages, Arrivals, Asks
  <2>3. Offers(p) = 0
    BY <1>1, <2>1, <2>2 DEF Offers
  <2>4. ~Active(p) /\ ~Failed(p) /\ outcomes[p] = << >>
    BY <1>1, ListedTasks DEF Active, Failed
  <2> QED
    BY <2>3, <2>4 DEF OfferOK
<1> QED
  BY <1>2, <1>3, <1>4 DEF OfferInv

\* Every step keeps it.
LEMMA OfferStep == SessionInv /\ UserInv /\ OfferInv /\ [Next]_vars => OfferInv'
<1> SUFFICES ASSUME SessionInv, UserInv, OfferInv, [Next]_vars PROVE OfferInv'
  OBVIOUS
<1>1. UserInv'
  BY UserStep
<1>2. CASE UNCHANGED vars
  <2>1. UNCHANGED <<life, apiQueue, transfers, messages, reading, workerQueue, chained,
                    networkQueue, workerAt, pc, outcomes, apiAt>>
    BY <1>2 DEF vars, deviceVars, httpVars, sessionVars
  <2> QED
    BY <2>1, QuietStep DEF Quiet, Active, Unstarted
<1>3. CASE Next
  <2>1. ASSUME Quiet PROVE OfferInv'
    BY <2>1, QuietStep
  <2>2. CASE Application \/ NetworkTask
    BY <1>3, <2>1, <2>2, QuietCases
  <2>3. CASE ApiThread
    BY <1>1, <1>3, <2>1, <2>3, QuietCases, OfferStartPush, OfferPostOffer DEF ApiThread
  <2>4. CASE WorkerThread
    BY <1>3, <2>1, <2>4, QuietCases, OfferDeliverReply, OfferSendAnswer DEF WorkerThread
  <2>5. CASE HttpThread \/ \E p \in Pushers, state \in IceStates : IceState(p, state)
    BY <1>3, <2>5, OfferHttpThread, OfferIceState
  <2>6. CASE \/ \E mic \in Mics : CaptureAudio(mic)
             \/ \E cam \in Cameras : CaptureCamera(cam)
             \/ \E p \in Pushers : Encode(p)
    BY <1>3, <2>1, <2>6, QuietCases
  <2> QED
    BY <1>3, <2>2, <2>3, <2>4, <2>5, <2>6 DEF Next
<1> QED
  BY <1>2, <1>3

\* The application is told of a failure once, and never of a success after
\* it, whatever the server, curl and ICE answer and in which order.
THEOREM FailureStaysFinal == Spec => []FailureIsFinal
<1>1. OfferInv => FailureIsFinal
  <2> SUFFICES ASSUME OfferInv, NEW p \in Pushers, ToSet(outcomes[p]) \cap Failures # {}
               PROVE  Len(outcomes[p]) = 1
    BY DEF FailureIsFinal, Failures
  <2>1. IsQueue(outcomes[p]) /\ OfferOK(p)
    BY DEF OfferInv, ToldOK, IsQueue
  <2>2. Failed(p)
    BY <2>1, ToSetIsTasks DEF Failed
  <2> QED
    BY <2>1, <2>2 DEF OfferOK
<1> QED
  BY InitInv, UserInit, OfferInit, StepInv, UserStep, OfferStep, <1>1, PTL DEF Spec

\* The microphone never calls a chain that is gone, whenever the push that
\* listens is stopped and destroyed.
THEOREM MicConsumersStayAlive == Spec => []MicConsumersAlive
<1>1. SessionInv /\ UserInv => MicConsumersAlive
  BY UserImplies
<1> QED
  BY InitInv, UserInit, StepInv, UserStep, <1>1, PTL DEF Spec

\* A chain or preview that is gone is in a camera's list only while its
\* removal is queued, behind its addition.
THEOREM GoneAreUnlinked == Spec => []UnlinkedAfterStop
<1>1. SessionInv /\ UserInv => UnlinkedAfterStop
  BY UserImplies
<1> QED
  BY InitInv, UserInit, StepInv, UserStep, <1>1, PTL DEF Spec

-----------------------------------------------------------------------------
(* The end of a push: the api thread waits until the network thread has    *)
(* deleted the streams, the last that it is asked of this push.            *)

CreateOf(p) == <<"create", p>>
DeleteOf(p) == <<"delete", p>>

Destroying(p) == apiAt \in {<<"destroy", p>>, <<"destroyed", p>>}

EndOK(p) ==
  /\ Once(networkQueue, DeleteOf(p)) /\ Ahead(networkQueue, CreateOf(p), DeleteOf(p))
  /\ pc[p].streams => p \in chained
  /\ Destroying(p) => life[p] = "dying"
  /\ DeleteOf(p) \in Tasks(networkQueue) => apiAt = <<"destroy", p>>
  /\ Gone(p) /\ apiAt # <<"destroy", p>> =>
        CreateOf(p) \notin Tasks(networkQueue) /\ ~pc[p].streams

NetworkTasks ==
  \A task \in Tasks(networkQueue) :
     \E op \in {"frame", "create", "delete"}, p \in Pushers : task = <<op, p>>

EndInv == NetworkTasks /\ \A p \in Pushers : EndOK(p)

\* A task is posted to the network thread, behind those it must follow.
LEMMA EndPost ==
  ASSUME SessionInv, NEW t, networkQueue' = Append(networkQueue, t), NEW p
  PROVE  /\ Tasks(networkQueue') = Tasks(networkQueue) \cup {t}
         /\ Once(networkQueue, DeleteOf(p)) /\ (t # DeleteOf(p) \/ DeleteOf(p) \notin Tasks(networkQueue))
              => Once(networkQueue', DeleteOf(p))
         /\ Ahead(networkQueue, CreateOf(p), DeleteOf(p))
                /\ (t # CreateOf(p) \/ DeleteOf(p) \notin Tasks(networkQueue))
              => Ahead(networkQueue', CreateOf(p), DeleteOf(p))
<1>1. /\ IsQueue(networkQueue) /\ IsQueue(<<t>>) /\ Tasks(<<t>>) = {t}
      /\ networkQueue' = networkQueue \o <<t>>
  BY ListedTasks, AppendIsPost DEF SessionInv, SinkInv, NetworkOK
<1>2. Tasks(networkQueue') = Tasks(networkQueue) \cup {t}
  BY <1>1, TasksAfter
<1>3. Once(<<t>>, DeleteOf(p)) /\ Ahead(<<t>>, CreateOf(p), DeleteOf(p))
  <2>1. CreateOf(p) # DeleteOf(p)
    BY DEF CreateOf, DeleteOf
  <2> QED
    BY <2>1, Short
<1> QED
  BY <1>1, <1>2, <1>3, OrderPost

\* Steps that leave the end of every push as it is.
EndQuiet ==
  /\ networkQueue' = networkQueue \/ \E p \in Pushers : networkQueue' = Append(networkQueue, <<"frame", p>>)
  /\ chained \subseteq chained'
  /\ \A p \in Pushers :
        /\ pc'[p].streams = pc[p].streams
        /\ life'[p] = life[p] \/ (~Gone(p) /\ ~Gone(p)')
        /\ apiAt' = apiAt \/ (~Destroying(p) /\ ~Destroying(p)')

\* They keep the invariant.
LEMMA EndQuietStep ==
  ASSUME SessionInv, EndInv, EndQuiet
  PROVE  EndInv'
<1>1. IsQueue(networkQueue)
  BY DEF SessionInv, SinkInv, NetworkOK
<1>2. ASSUME NEW p \in Pushers
      PROVE  /\ Once(networkQueue', DeleteOf(p)) /\ Ahead(networkQueue', CreateOf(p), DeleteOf(p))
             /\ DeleteOf(p) \in Tasks(networkQueue') <=> DeleteOf(p) \in Tasks(networkQueue)
             /\ CreateOf(p) \in Tasks(networkQueue') <=> CreateOf(p) \in Tasks(networkQueue)
             /\ NetworkTasks'
  <2>1. EndOK(p) /\ NetworkTasks
    BY DEF EndInv
  <2>2. CASE networkQueue' = networkQueue
    BY <2>1, <2>2 DEF EndOK, NetworkTasks
  <2>3. ASSUME NEW x \in Pushers, networkQueue' = Append(networkQueue, <<"frame", x>>)
        PROVE  /\ Once(networkQueue', DeleteOf(p)) /\ Ahead(networkQueue', CreateOf(p), DeleteOf(p))
               /\ DeleteOf(p) \in Tasks(networkQueue') <=> DeleteOf(p) \in Tasks(networkQueue)
               /\ CreateOf(p) \in Tasks(networkQueue') <=> CreateOf(p) \in Tasks(networkQueue)
               /\ NetworkTasks'
    <3>1. <<"frame", x>> # DeleteOf(p) /\ <<"frame", x>> # CreateOf(p)
      BY DEF DeleteOf, CreateOf
    <3>2. Once(networkQueue, DeleteOf(p)) /\ Ahead(networkQueue, CreateOf(p), DeleteOf(p))
      BY <2>1 DEF EndOK
    <3>3. /\ Tasks(networkQueue') = Tasks(networkQueue) \cup {<<"frame", x>>}
          /\ Once(networkQueue', DeleteOf(p)) /\ Ahead(networkQueue', CreateOf(p), DeleteOf(p))
      BY <2>3, <3>1, <3>2, EndPost
    <3>4. NetworkTasks'
      BY <2>1, <3>3 DEF NetworkTasks
    <3> QED
      BY <3>1, <3>3, <3>4
  <2> QED
    BY <2>2, <2>3 DEF EndQuiet
<1>3. ASSUME NEW p \in Pushers PROVE EndOK(p)'
  <2>1. EndOK(p)
    BY DEF EndInv
  <2>2. /\ pc'[p].streams = pc[p].streams
        /\ life'[p] = life[p] \/ (~Gone(p) /\ ~Gone(p)')
        /\ apiAt' = apiAt \/ (~Destroying(p) /\ ~Destroying(p)')
        /\ p \in chained => p \in chained'
    BY DEF EndQuiet
  <2>3. pc'[p].streams => p \in chained'
    BY <2>1, <2>2 DEF EndOK
  <2>4. Destroying(p)' => life'[p] = "dying"
    BY <2>1, <2>2 DEF EndOK, Destroying, Gone
  <2>5. DeleteOf(p) \in Tasks(networkQueue') => apiAt' = <<"destroy", p>>
    BY <1>2, <2>1, <2>2 DEF EndOK, Destroying
  <2>6. Gone(p)' /\ apiAt' # <<"destroy", p>> =>
          CreateOf(p) \notin Tasks(networkQueue') /\ ~pc'[p].streams
    BY <1>2, <2>1, <2>2 DEF EndOK, Destroying, Gone
  <2> QED
    BY <1>2, <2>3, <2>4, <2>5, <2>6 DEF EndOK
<1>4. NetworkTasks'
  <2>1. CASE networkQueue' = networkQueue
    BY <2>1 DEF EndInv, NetworkTasks
  <2>2. ASSUME NEW x \in Pushers, networkQueue' = Append(networkQueue, <<"frame", x>>)
        PROVE  NetworkTasks'
    BY <1>2
  <2> QED
    BY <2>1, <2>2 DEF EndQuiet
<1> QED
  BY <1>3, <1>4 DEF EndInv

\* The chain is destroyed, when the push has one.
LEMMA EndDestroyPusher ==
  ASSUME SessionInv, EndInv, NEW p \in Pushers, DestroyPusher(p)
  PROVE  EndInv'
<1>1. /\ apiAt = << >> /\ UNCHANGED <<chained, pc>>
      /\ \/ /\ p \in chained /\ life' = [life EXCEPT ![p] = "dying"]
            /\ networkQueue' = Append(networkQueue, DeleteOf(p)) /\ apiAt' = <<"destroy", p>>
         \/ /\ p \notin chained /\ life' = [life EXCEPT ![p] = "dead"]
            /\ UNCHANGED <<networkQueue, apiAt>>
  BY DEF DestroyPusher, ApiTask, DeleteStreams, DeleteOf
<1>2. LifeOK /\ \A x \in Pushers : EndOK(x) /\ DeleteOf(x) \notin Tasks(networkQueue)
  BY <1>1 DEF SessionInv, SinkInv, EndInv, EndOK
<1>3. \A x \in Pushers : x # p => life'[x] = life[x]
  BY <1>1, <1>2 DEF LifeOK, Objects
<1>4. CASE /\ p \in chained /\ life' = [life EXCEPT ![p] = "dying"]
           /\ networkQueue' = Append(networkQueue, DeleteOf(p)) /\ apiAt' = <<"destroy", p>>
  <2>1. life'[p] = "dying"
    BY <1>2, <1>4 DEF LifeOK, Objects
  <2>2. ASSUME NEW x \in Pushers
        PROVE  /\ Tasks(networkQueue') = Tasks(networkQueue) \cup {DeleteOf(p)}
               /\ Once(networkQueue', DeleteOf(x)) /\ Ahead(networkQueue', CreateOf(x), DeleteOf(x))
    <3>1. Once(networkQueue, DeleteOf(x)) /\ Ahead(networkQueue, CreateOf(x), DeleteOf(x))
      BY <1>2 DEF EndOK
    <3>2. DeleteOf(x) \notin Tasks(networkQueue)
      BY <1>2
    <3> QED
      BY <1>4, <3>1, <3>2, EndPost
  <2>3. ASSUME NEW x \in Pushers PROVE EndOK(x)'
    <3>1. DeleteOf(x) \in Tasks(networkQueue') => x = p
      BY <1>2, <2>2 DEF DeleteOf
    <3>2. CreateOf(x) \in Tasks(networkQueue') => CreateOf(x) \in Tasks(networkQueue)
      <4>1. CreateOf(x) # DeleteOf(p)
        BY DEF CreateOf, DeleteOf
      <4> QED
        BY <2>2, <4>1
    <3>3. EndOK(x)
      BY <1>2
    <3>4. CASE x = p
      BY <1>1, <1>4, <2>1, <2>2, <3>3, <3>4 DEF EndOK, Destroying
    <3>5. CASE x # p
      <4>1. ~Destroying(x)' /\ DeleteOf(x) \notin Tasks(networkQueue')
        BY <1>4, <3>1, <3>5 DEF Destroying
      <4>2. Gone(x)' => CreateOf(x) \notin Tasks(networkQueue') /\ ~pc'[x].streams
        BY <1>1, <1>3, <3>2, <3>3, <3>5 DEF EndOK, Gone
      <4>3. pc'[x].streams => x \in chained'
        BY <1>1, <3>3 DEF EndOK
      <4> QED
        BY <2>2, <4>1, <4>2, <4>3 DEF EndOK
    <3> QED
      BY <3>4, <3>5
  <2>4. NetworkTasks'
    BY <2>2 DEF EndInv, NetworkTasks, DeleteOf
  <2> QED
    BY <2>3, <2>4 DEF EndInv
<1>5. CASE /\ p \notin chained /\ life' = [life EXCEPT ![p] = "dead"]
           /\ UNCHANGED <<networkQueue, apiAt>>
  <2>1. NetworkTasks'
    BY <1>5 DEF EndInv, NetworkTasks
  <2>2. ASSUME NEW x \in Pushers PROVE EndOK(x)'
    <3>1. EndOK(x)
      BY <1>2
    <3>2. ~Destroying(x)'
      BY <1>1, <1>5 DEF Destroying
    <3>3. x = p => CreateOf(x) \notin Tasks(networkQueue) /\ ~pc[x].streams
      <4>1. CreateOf(p) \notin Tasks(networkQueue)
        BY <1>5 DEF SessionInv, SinkInv, NetworkOK, CreateOf
      <4> QED
        BY <1>5, <3>1, <4>1 DEF EndOK
    <3>4. Gone(x)' => CreateOf(x) \notin Tasks(networkQueue') /\ ~pc'[x].streams
      BY <1>1, <1>3, <1>5, <3>1, <3>3 DEF EndOK, Gone
    <3>5. DeleteOf(x) \notin Tasks(networkQueue')
      BY <1>2, <1>5
    <3>6. pc'[x].streams => x \in chained'
      BY <1>1, <3>1 DEF EndOK
    <3>7. Once(networkQueue', DeleteOf(x)) /\ Ahead(networkQueue', CreateOf(x), DeleteOf(x))
      BY <1>5, <3>1 DEF EndOK
    <3> QED
      BY <3>2, <3>4, <3>5, <3>6, <3>7 DEF EndOK
  <2> QED
    BY <2>1, <2>2 DEF EndInv
<1> QED
  BY <1>1, <1>4, <1>5

\* The chain is gone: its streams are.
LEMMA EndFinishDestroy ==
  ASSUME SessionInv, EndInv, NEW p \in Pushers, FinishDestroy(p)
  PROVE  EndInv'
<1>1. /\ apiAt = <<"destroyed", p>> /\ apiAt' = << >> /\ life' = [life EXCEPT ![p] = "dead"]
      /\ UNCHANGED <<chained, pc, networkQueue>>
  BY DEF FinishDestroy
<1>2. LifeOK
  BY DEF SessionInv, SinkInv
<1>3. ASSUME NEW x \in Pushers PROVE EndOK(x)'
  <2>1. EndOK(x) /\ EndOK(p)
    BY DEF EndInv
  <2>2. ~Destroying(x)' /\ DeleteOf(x) \notin Tasks(networkQueue')
    BY <1>1, <2>1 DEF EndOK, Destroying
  <2>3. Gone(x)' => Gone(x)
    <3>1. x # p => life'[x] = life[x]
      BY <1>1, <1>2 DEF LifeOK, Objects
    <3>2. Gone(p)
      BY <1>1, <2>1 DEF EndOK, Destroying, Gone
    <3> QED
      BY <3>1, <3>2 DEF Gone
  <2>4. Gone(x)' => CreateOf(x) \notin Tasks(networkQueue') /\ ~pc'[x].streams
    BY <1>1, <2>1, <2>3 DEF EndOK
  <2>5. pc'[x].streams => x \in chained'
    BY <1>1, <2>1 DEF EndOK
  <2>6. Once(networkQueue', DeleteOf(x)) /\ Ahead(networkQueue', CreateOf(x), DeleteOf(x))
    BY <1>1, <2>1 DEF EndOK
  <2> QED
    BY <2>2, <2>4, <2>5, <2>6 DEF EndOK
<1>4. NetworkTasks'
  BY <1>1 DEF EndInv, NetworkTasks
<1> QED
  BY <1>3, <1>4 DEF EndInv

\* The network thread takes a task: the streams go with the last of them.
LEMMA EndNetworkTask ==
  ASSUME SessionInv, EndInv, NetworkTask
  PROVE  EndInv'
<1>1. IsQueue(networkQueue) /\ LifeOK /\ NetworkTasks
  BY DEF SessionInv, SinkInv, NetworkOK, EndInv
<1>2. CASE Crash("frame")
  BY <1>2, EndQuietStep DEF Crash, sessionVars, EndQuiet
<1>3. CASE ~Crash("frame")
  <2>1. /\ UNCHANGED <<life, chained>>
        /\ networkQueue # << >> /\ networkQueue' = Tail(networkQueue)
    BY <1>3 DEF NetworkTask, deviceVars
  <2>2. Tasks(networkQueue) = Tasks(networkQueue') \cup {Head(networkQueue)}
    BY <1>1, <2>1, TasksAfter
  <2>3. PICK op \in {"frame", "create", "delete"}, p \in Pushers : Head(networkQueue) = <<op, p>>
    BY <1>1, <2>2 DEF NetworkTasks
  <2>4. /\ pc' = IF op = "frame" THEN pc ELSE [pc EXCEPT ![p].streams = (op = "create")]
        /\ apiAt' = IF op = "delete" THEN <<"destroyed", p>> ELSE apiAt
    BY <1>3, <2>3 DEF NetworkTask
  <2>5. ASSUME NEW x \in Pushers
        PROVE  /\ EndOK(x)
               /\ Once(networkQueue', DeleteOf(x)) /\ Ahead(networkQueue', CreateOf(x), DeleteOf(x))
               /\ Head(networkQueue) = DeleteOf(x) =>
                     /\ DeleteOf(x) \notin Tasks(networkQueue')
                     /\ CreateOf(x) \notin Tasks(networkQueue)
    <3>1. EndOK(x)
      BY DEF EndInv
    <3> QED
      BY <1>1, <2>1, <3>1, OrderTail DEF EndOK
  <2>6. NetworkTasks'
    BY <1>1, <2>2 DEF NetworkTasks
  <2>7. \A x : Gone(x)' <=> Gone(x)
    BY <2>1 DEF Gone
  <2>8. /\ \A x \in Pushers : x # p => pc'[x].streams = pc[x].streams
        /\ op # "frame" => pc'[p].streams = (op = "create")
    <3> DEFINE made == (op = "create")
    <3>1. pc \in Connections
      BY DEF SessionInv, SinkInv, StreamInv
    <3>2. CASE op = "frame"
      BY <2>4, <3>2
    <3>3. CASE op # "frame"
      <4>1. pc' = [pc EXCEPT ![p].streams = made]
        BY <2>4, <3>3
      <4> HIDE DEF made
      <4>2. pc'[p].streams = made /\ \A x \in Pushers : x # p => pc'[x].streams = pc[x].streams
        BY <3>1, <4>1 DEF Connections
      <4> QED
        BY <4>2 DEF made
    <3> QED
      BY <3>2, <3>3
  <2>9. ASSUME NEW x \in Pushers, x # p \/ op = "frame", op # "delete" PROVE EndOK(x)'
    <3>1. pc'[x].streams = pc[x].streams /\ apiAt' = apiAt
      BY <2>4, <2>8, <2>9
    <3> QED
      BY <2>1, <2>2, <2>5, <2>7, <3>1 DEF EndOK, Destroying
  <2>10. CASE op = "frame"
    BY <2>6, <2>9, <2>10 DEF EndInv
  <2>11. CASE op = "create"
    <3>1. p \in chained /\ apiAt' = apiAt /\ CreateOf(p) \in Tasks(networkQueue)
      BY <2>2, <2>3, <2>4, <2>11 DEF CreateOf, SessionInv, SinkInv, NetworkOK
    <3>2. ~Gone(p) \/ apiAt = <<"destroy", p>>
      BY <2>5, <3>1 DEF EndOK
    <3>3. EndOK(p)'
      BY <2>1, <2>2, <2>5, <2>7, <3>1, <3>2 DEF EndOK, Destroying
    <3> QED
      BY <2>6, <2>9, <2>11, <3>3 DEF EndInv
  <2>12. CASE op = "delete"
    <3>1. Head(networkQueue) = DeleteOf(p) /\ DeleteOf(p) \in Tasks(networkQueue)
      BY <2>2, <2>3, <2>12 DEF DeleteOf
    <3>2. apiAt = <<"destroy", p>> /\ apiAt' = <<"destroyed", p>>
      BY <2>4, <2>5, <2>12, <3>1 DEF EndOK
    <3>3. ASSUME NEW x \in Pushers PROVE EndOK(x)'
      <4>1. EndOK(x)
        BY <2>5
      <4>2. DeleteOf(x) \notin Tasks(networkQueue')
        <5>1. x = p => DeleteOf(x) \notin Tasks(networkQueue')
          BY <2>5, <3>1
        <5>2. x # p => DeleteOf(x) \notin Tasks(networkQueue)
          BY <3>2, <4>1 DEF EndOK
        <5> QED
          BY <2>2, <5>1, <5>2
      <4>3. ~pc'[p].streams
        BY <2>8, <2>12
      <4>4. Gone(x)' => CreateOf(x) \notin Tasks(networkQueue') /\ ~pc'[x].streams
        <5>1. CASE x = p
          BY <2>2, <2>5, <3>1, <4>3, <5>1
        <5>2. CASE x # p
          BY <2>2, <2>7, <2>8, <3>2, <4>1, <5>2 DEF EndOK
        <5> QED
          BY <5>1, <5>2
      <4>5. pc'[x].streams => x \in chained'
        BY <2>1, <2>8, <4>1, <4>3 DEF EndOK
      <4>6. Destroying(x)' => life'[x] = "dying"
        BY <2>1, <3>2, <4>1 DEF EndOK, Destroying
      <4> QED
        BY <2>5, <4>2, <4>4, <4>5, <4>6 DEF EndOK
    <3> QED
      BY <2>6, <3>3 DEF EndInv
  <2> QED
    BY <2>3, <2>10, <2>11, <2>12
<1> QED
  BY <1>2, <1>3

\* Streams are asked for, for a push that lives.
LEMMA EndDeliverReply ==
  ASSUME SessionInv, EndInv, DeliverReply
  PROVE  EndInv'
<1>1. CASE Crash("reply")
  BY <1>1, EndQuietStep DEF Crash, sessionVars, EndQuiet
<1>2. CASE ~Crash("reply") /\ networkQueue' = networkQueue
  BY <1>2, EndQuietStep DEF DeliverReply, HandleReply, deviceVars, EndQuiet
<1>3. CASE ~Crash("reply") /\ networkQueue' # networkQueue
  <2>1. PICK p : p = Head(workerQueue).obj
    OBVIOUS
  <2>2. /\ p \in async_objs /\ Alive(p) /\ UNCHANGED <<life, chained, apiAt, pc>>
        /\ networkQueue' = Append(networkQueue, CreateOf(p))
    BY <1>3, <2>1 DEF DeliverReply, HandleReply, CreateStreams, deviceVars, CreateOf
  <2>3. p \in Pushers /\ ~Gone(p)
    BY <2>2 DEF SessionInv, SinkInv, ObjectInv, Alive, Gone
  <2>4. NetworkTasks /\ \A x \in Pushers : EndOK(x)
    BY DEF EndInv
  <2>5. DeleteOf(p) \notin Tasks(networkQueue)
    BY <2>3, <2>4 DEF EndOK, Destroying, Gone
  <2>6. ASSUME NEW x \in Pushers PROVE EndOK(x)' /\ NetworkTasks'
    <3>1. /\ CreateOf(p) # DeleteOf(x)
          /\ CreateOf(p) # CreateOf(x) \/ x = p
      BY DEF CreateOf, DeleteOf
    <3>2. EndOK(x) /\ Once(networkQueue, DeleteOf(x)) /\ Ahead(networkQueue, CreateOf(x), DeleteOf(x))
      BY <2>4 DEF EndOK
    <3>3. CreateOf(p) # CreateOf(x) \/ DeleteOf(x) \notin Tasks(networkQueue)
      BY <2>5, <3>1
    <3>4. /\ Tasks(networkQueue') = Tasks(networkQueue) \cup {CreateOf(p)}
          /\ Once(networkQueue', DeleteOf(x)) /\ Ahead(networkQueue', CreateOf(x), DeleteOf(x))
      BY <2>2, <3>1, <3>2, <3>3, EndPost
    <3>5. NetworkTasks'
      BY <2>3, <2>4, <3>4 DEF NetworkTasks, CreateOf
    <3>6. Gone(x)' <=> Gone(x)
      BY <2>2 DEF Gone
    <3>7. Gone(x) => (CreateOf(x) \in Tasks(networkQueue') <=> CreateOf(x) \in Tasks(networkQueue))
      BY <2>3, <3>1, <3>4
    <3> QED
      BY <2>2, <3>1, <3>2, <3>4, <3>5, <3>6, <3>7 DEF EndOK, Destroying
  <2> QED
    BY <2>3, <2>6 DEF EndInv
<1> QED
  BY <1>1, <1>2, <1>3

\* What is made, destroyed and asked elsewhere leaves the end of a push.
LEMMA EndOthers ==
  ASSUME SessionInv, EndInv, Next, ~NetworkTask, ~DeliverReply,
         \A p \in Pushers : ~DestroyPusher(p) /\ ~FinishDestroy(p)
  PROVE  EndQuiet
<1>1. LifeOK /\ pc \in Connections
  BY DEF SessionInv, SinkInv, StreamInv
<1>2. ASSUME NEW what, Crash(what) PROVE EndQuiet
  BY <1>2 DEF Crash, sessionVars, EndQuiet
<1>3. ASSUME UNCHANGED <<networkQueue, chained, pc, apiAt>>,
             \/ life' = life
             \/ \E o \in Objects : life[o] = "none" /\ life' = [life EXCEPT ![o] = "alive"]
             \/ \E o \in Previews \cup Cameras \cup Mics : life' = [life EXCEPT ![o] = "dead"]
      PROVE  EndQuiet
  <2>1. \A p \in Pushers : life'[p] = life[p] \/ (~Gone(p) /\ ~Gone(p)')
    BY <1>1, <1>3, SessionAssumption DEF LifeOK, Objects, Gone
  <2> QED
    BY <1>3, <2>1 DEF EndQuiet
<1>4. CASE ClickStartDevices
  <2>1. PICK cam \in Cameras \cup {form.cam}, mic \in Mics \cup {form.mic} :
           CreateDevices({cam, mic} \ {form.cam, form.mic})
    BY <1>4 DEF ClickStartDevices
  <2>2. \A p \in Pushers : p \notin {cam, mic} \ {form.cam, form.mic}
    BY SessionAssumption
  <2>3. \A p \in Pushers : life'[p] = life[p]
    BY <1>1, <2>1, <2>2 DEF CreateDevices, LifeOK, Objects
  <2>4. UNCHANGED <<networkQueue, chained, pc, apiAt>>
    BY <1>4 DEF ClickStartDevices
  <2> QED
    BY <2>3, <2>4 DEF EndQuiet
<1>5. CASE Application /\ ~ClickStartDevices
  BY <1>3, <1>5 DEF Application, ClickStopDevices, ClickPush, ClickPreview, Create, ClickRelease,
                    Objects
<1>6. ASSUME NEW p \in Pushers, StartPush(p) PROVE EndQuiet
  <2>1. /\ UNCHANGED <<life, networkQueue, pc>> /\ apiAt = << >>
        /\ apiAt' \in {<< >>, <<"post", p>>} /\ chained \subseteq chained'
    BY <1>6 DEF StartPush, ApiTask, CreateChain, StartStream, StartSink
  <2> QED
    BY <2>1 DEF EndQuiet, Destroying
<1>7. ASSUME NEW p \in Pushers, PostOffer(p) PROVE EndQuiet
  <2>1. /\ UNCHANGED <<life, networkQueue, pc, chained>>
        /\ apiAt \in {<<"post", p>>, <<"posted", p>>} /\ apiAt' \in {<<"posted", p>>, << >>}
    BY <1>7 DEF PostOffer, deviceVars
  <2> QED
    BY <2>1 DEF EndQuiet, Destroying
<1>8. ASSUME NEW p \in Pushers, StopPush(p) PROVE EndQuiet
  BY <1>2, <1>3, <1>8 DEF StopPush, sessionVars
<1>9. ASSUME NEW v \in Previews, StartPreview(v) \/ StopPreview(v) \/ DestroyPreview(v)
      PROVE  EndQuiet
  BY <1>2, <1>3, <1>9 DEF StartPreview, StopPreview, DestroyPreview, sessionVars
<1>10. CASE DeviceTask
  <2>1. CASE ~Crash("device")
    <3>1. UNCHANGED <<networkQueue, chained, pc, apiAt>>
      BY <1>10, <2>1 DEF DeviceTask, sessionVars
    <3>2. life' = life \/ \E o \in Previews \cup Cameras \cup Mics : life' = [life EXCEPT ![o] = "dead"]
      BY <1>10, <2>1 DEF DeviceTask, StartCamera, StartMic, StopCamera, StopMic, DestroyDevice,
                         ChangeConsumers
    <3> QED
      BY <1>3, <3>1, <3>2
  <2> QED
    BY <1>2, <2>1
<1>11. ASSUME NEW d, Deliver(d) PROVE EndQuiet
  BY <1>3, <1>11 DEF Deliver
<1>12. CASE DeliverVideo \/ \E mic \in Mics : CaptureAudio(mic)
  BY <1>2, <1>11, <1>12 DEF DeliverVideo, CaptureAudio
<1>13. ASSUME NEW cam \in Cameras, CaptureCamera(cam) PROVE EndQuiet
  BY <1>3, <1>13 DEF CaptureCamera, CaptureVideo, sessionVars
<1>14. ASSUME NEW p \in Pushers, Encode(p) PROVE EndQuiet
  <2>1. CASE ~Crash("encoder")
    BY <1>14, <2>1 DEF Encode, deviceVars, EndQuiet
  <2> QED
    BY <1>2, <2>1
<1>15. ASSUME NEW p \in Pushers, SendAnswer(p) PROVE EndQuiet
  <2>1. CASE ~Crash("reply")
    <3>1. /\ UNCHANGED <<life, networkQueue, chained, apiAt>>
          /\ pc' = pc \/ pc' = [pc EXCEPT ![p].gathering = TRUE]
      BY <1>15, <2>1 DEF SendAnswer, deviceVars
    <3>2. \A x \in Pushers : pc'[x].streams = pc[x].streams
      BY <1>1, <3>1 DEF Connections
    <3> QED
      BY <3>1, <3>2 DEF EndQuiet
  <2> QED
    BY <1>2, <2>1
<1>16. ASSUME NEW p \in Pushers, NEW state \in IceStates, IceState(p, state) PROVE EndQuiet
  <2>1. UNCHANGED <<life, networkQueue, chained, apiAt>> /\ pc' = [pc EXCEPT ![p].state = state]
    BY <1>16 DEF IceState, deviceVars
  <2>2. \A x \in Pushers : pc'[x].streams = pc[x].streams
    BY <1>1, <2>1 DEF Connections
  <2> QED
    BY <2>1, <2>2 DEF EndQuiet
<1>17. CASE WorkerChangesObjects \/ Render \/ HttpThread
  <2>1. CASE ~Crash("render")
    BY <1>3, <1>17, <2>1 DEF WorkerChangesObjects, Render, HttpThread, deviceVars, sessionVars
  <2> QED
    BY <1>2, <2>1
<1>18. CASE ApiThread
  BY <1>6, <1>7, <1>8, <1>9, <1>10, <1>12, <1>18 DEF ApiThread
<1>19. CASE WorkerThread
  BY <1>15, <1>17, <1>19 DEF WorkerThread
<1> QED
  BY <1>4, <1>5, <1>12, <1>13, <1>14, <1>16, <1>17, <1>18, <1>19 DEF Next

\* Nothing is destroyed at first.
LEMMA EndInit == Init => EndInv
<1> SUFFICES ASSUME Init PROVE EndInv
  OBVIOUS
<1>1. Tasks(networkQueue) = {} /\ Len(networkQueue) = 0
  BY ListedTasks DEF Init
<1>2. ASSUME NEW p \in Pushers PROVE EndOK(p)
  <2>1. Once(networkQueue, DeleteOf(p)) /\ Ahead(networkQueue, CreateOf(p), DeleteOf(p))
    BY Short DEF Init
  <2>2. ~pc[p].streams /\ ~Destroying(p)
    BY DEF Init, Destroying
  <2> QED
    BY <1>1, <2>1, <2>2 DEF EndOK
<1> QED
  BY <1>1, <1>2 DEF EndInv, NetworkTasks

\* Every step keeps it.
LEMMA EndStep == SessionInv /\ EndInv /\ [Next]_vars => EndInv'
<1> SUFFICES ASSUME SessionInv, EndInv, [Next]_vars PROVE EndInv'
  OBVIOUS
<1>1. CASE UNCHANGED vars
  BY <1>1, EndQuietStep DEF vars, deviceVars, sessionVars, EndQuiet
<1>2. CASE NetworkTask \/ DeliverReply
  BY <1>2, EndNetworkTask, EndDeliverReply
<1>3. CASE \E p \in Pushers : DestroyPusher(p) \/ FinishDestroy(p)
  BY <1>3, EndDestroyPusher, EndFinishDestroy
<1> QED
  BY <1>1, <1>2, <1>3, EndOthers, EndQuietStep

-----------------------------------------------------------------------------
(* Every picture that an encoder or the api thread has was captured.       *)

Pictures == {<<"Frame", cam>> : cam \in Cameras}
Waiting == HowMany(apiQueue, Pictures)

FrameInv ==
  /\ frames \in 0..MaxFrames
  /\ encoderQueue \in [Pushers -> Nat]
  /\ \A p \in Pushers : encoderQueue[p] + Waiting <= frames

\* Other tasks than pictures are taken and posted.
NoPictures(r) == IsQueue(r) /\ Tasks(r) \cap Pictures = {}

FramesQuiet ==
  /\ UNCHANGED <<frames, encoderQueue>>
  /\ \/ UNCHANGED apiQueue
     \/ \E r : /\ NoPictures(r)
               /\ \/ apiQueue' = apiQueue \o r
                  \/ apiQueue # << >> /\ apiQueue' = Tail(apiQueue) \o r

\* How many pictures wait after a task was taken or posted.
LEMMA WaitingAfter ==
  ASSUME IsQueue(apiQueue)
  PROVE  /\ Waiting \in Nat
         /\ \A r : NoPictures(r) => HowMany(apiQueue \o r, Pictures) = Waiting
         /\ apiQueue # << >> => /\ HowMany(Tail(apiQueue), Pictures) \in Nat
                                /\ HowMany(Tail(apiQueue), Pictures) <= Waiting
                                /\ Head(apiQueue) \in Pictures =>
                                     HowMany(Tail(apiQueue), Pictures) = Waiting - 1
                                /\ \A r : NoPictures(r) =>
                                     HowMany(Tail(apiQueue) \o r, Pictures) =
                                        HowMany(Tail(apiQueue), Pictures)
<1>1. Waiting \in Nat
  BY HowManyType DEF Waiting
<1>2. \A r : NoPictures(r) => HowMany(apiQueue \o r, Pictures) = Waiting
  BY HowManyPost DEF Waiting, NoPictures
<1>3. ASSUME apiQueue # << >>
      PROVE  /\ HowMany(Tail(apiQueue), Pictures) \in Nat
             /\ HowMany(Tail(apiQueue), Pictures) <= Waiting
             /\ Head(apiQueue) \in Pictures => HowMany(Tail(apiQueue), Pictures) = Waiting - 1
             /\ \A r : NoPictures(r) =>
                  HowMany(Tail(apiQueue) \o r, Pictures) = HowMany(Tail(apiQueue), Pictures)
  <2>1. IsQueue(Tail(apiQueue))
    BY <1>3, TailFacts
  <2>2. HowMany(Tail(apiQueue), Pictures) \in Nat
    BY <2>1, HowManyType
  <2>3. HowMany(apiQueue, Pictures) =
          HowMany(Tail(apiQueue), Pictures) + (IF Head(apiQueue) \in Pictures THEN 1 ELSE 0)
    BY <1>3, HowManyTail
  <2>4. \A r : NoPictures(r) =>
                  HowMany(Tail(apiQueue) \o r, Pictures) = HowMany(Tail(apiQueue), Pictures)
    BY <2>1, HowManyPost DEF NoPictures
  <2> QED
    BY <1>1, <2>2, <2>3, <2>4 DEF Waiting
<1> QED
  BY <1>1, <1>2, <1>3

\* Steps that have nothing to do with pictures.
LEMMA FramesQuietStep ==
  ASSUME FrameInv, IsQueue(apiQueue), FramesQuiet
  PROVE  FrameInv'
<1>1. Waiting \in Nat /\ Waiting' \in Nat /\ Waiting' <= Waiting
  <2>1. Waiting \in Nat
    BY WaitingAfter
  <2>2. CASE UNCHANGED apiQueue
    BY <2>1, <2>2 DEF Waiting
  <2>3. ASSUME NEW r, NoPictures(r), apiQueue' = apiQueue \o r
        PROVE  Waiting' \in Nat /\ Waiting' <= Waiting
    <3>1. HowMany(apiQueue', Pictures) = Waiting
      BY <2>3, WaitingAfter
    <3> QED
      BY <2>1, <3>1 DEF Waiting
  <2>4. ASSUME NEW r, NoPictures(r), apiQueue # << >>, apiQueue' = Tail(apiQueue) \o r
        PROVE  Waiting' \in Nat /\ Waiting' <= Waiting
    <3>1. HowMany(apiQueue', Pictures) = HowMany(Tail(apiQueue), Pictures)
      BY <2>4, WaitingAfter
    <3>2. HowMany(apiQueue', Pictures) \in Nat /\ HowMany(apiQueue', Pictures) <= Waiting
      BY <2>4, <3>1, WaitingAfter
    <3> QED
      BY <3>2 DEF Waiting
  <2> QED
    BY <2>1, <2>2, <2>3, <2>4 DEF FramesQuiet
<1>2. frames \in Int /\ \A p \in Pushers : encoderQueue[p] \in Nat
  BY SessionAssumption DEF FrameInv
<1>3. frames' = frames /\ encoderQueue' = encoderQueue
  BY DEF FramesQuiet
<1>4. \A p \in Pushers : encoderQueue[p] + Waiting <= frames
  BY DEF FrameInv
<1>5. \A p \in Pushers : encoderQueue'[p] + Waiting' <= frames'
  BY <1>1, <1>2, <1>3, <1>4
<1> QED
  BY <1>3, <1>5 DEF FrameInv

\* The api thread takes a task that is no picture and posts one or none.
LEMMA FramesTake ==
  ASSUME IsQueue(apiQueue), apiQueue # << >>, UNCHANGED <<frames, encoderQueue>>,
         \/ apiQueue' = Tail(apiQueue)
         \/ \E t : t[1] # "Frame" /\ apiQueue' = Append(Tail(apiQueue), t)
  PROVE  FramesQuiet
<1>1. IsQueue(Tail(apiQueue))
  BY TailFacts
<1>2. Tail(apiQueue) \o << >> = Tail(apiQueue)
  BY <1>1, NothingPosted
<1>3. \A t : Append(Tail(apiQueue), t) = Tail(apiQueue) \o <<t>>
  BY <1>1, AppendIsPost
<1>4. NoPictures(<< >>) /\ \A t : t[1] # "Frame" => NoPictures(<<t>>)
  BY ListedTasks DEF NoPictures, Pictures
<1>5. CASE apiQueue' = Tail(apiQueue)
  BY <1>2, <1>4, <1>5 DEF FramesQuiet
<1>6. ASSUME NEW t, t[1] # "Frame", apiQueue' = Append(Tail(apiQueue), t) PROVE FramesQuiet
  <2>1. NoPictures(<<t>>) /\ apiQueue' = Tail(apiQueue) \o <<t>>
    BY <1>3, <1>4, <1>6
  <2> QED
    BY <2>1 DEF FramesQuiet
<1> QED
  BY <1>5, <1>6

\* The application posts the starts of devices.
LEMMA FramesStartDevices ==
  ASSUME ClickStartDevices
  PROVE  FramesQuiet
<1>1. PICK cam \in Cameras \cup {form.cam}, mic \in Mics \cup {form.mic} :
        CreateDevices({cam, mic} \ {form.cam, form.mic})
  BY DEF ClickStartDevices
<1> DEFINE devices == {cam, mic} \ {form.cam, form.mic}
           starts == {<<"Start", d>> : d \in devices}
           r == SetToSeq(starts)
<1>2. apiQueue' = apiQueue \o r /\ UNCHANGED <<frames, encoderQueue>>
  BY <1>1 DEF ClickStartDevices, CreateDevices
<1>3. IsFiniteSet(starts)
  <2>1. IsFiniteSet({cam, mic})
    <3>1. IsFiniteSet({cam}) /\ {cam, mic} = {cam} \cup {mic}
      BY FS_Singleton
    <3> QED
      BY <3>1, FS_AddElement
  <2>2. IsFiniteSet(devices)
    BY <2>1, FS_Subset
  <2> DEFINE start == [d \in devices |-> <<"Start", d>>]
  <2>3. start \in [devices -> starts] /\ \A t \in starts : \E d \in devices : start[d] = t
    OBVIOUS
  <2> HIDE DEF start, starts, devices
  <2> QED
    BY <2>2, <2>3, ImageFinite
<1>4. \A t \in starts : t \notin Pictures
  BY DEF Pictures
<1> HIDE DEF starts
<1>5. IsQueue(r) /\ Tasks(r) \subseteq starts
  BY <1>3, SetToSeqFacts
<1>6. NoPictures(r)
  BY <1>4, <1>5 DEF NoPictures
<1> QED
  BY <1>2, <1>6 DEF FramesQuiet

\* The application posts other tasks.
LEMMA FramesApplication ==
  ASSUME SessionInv, Application
  PROVE  FramesQuiet
<1>1. ASSUME NEW r, NoPictures(r), apiQueue' = apiQueue \o r, UNCHANGED <<frames, encoderQueue>>
      PROVE  FramesQuiet
  BY <1>1 DEF FramesQuiet
<1>2. CASE ClickStopDevices
  <2> DEFINE r == << <<"Stop", form.cam>>, <<"Destroy", form.cam>>,
                     <<"Stop", form.mic>>, <<"Destroy", form.mic>> >>
  <2>1. NoPictures(r)
    BY ListedTasks DEF NoPictures, Pictures
  <2>2. apiQueue' = apiQueue \o r /\ UNCHANGED <<frames, encoderQueue>>
    BY <1>2 DEF ClickStopDevices
  <2> HIDE DEF r
  <2> QED
    BY <1>1, <2>1, <2>2
<1>3. ASSUME NEW handle, ClickRelease(handle) PROVE FramesQuiet
  <2> DEFINE r == << <<"Stop", form[handle]>>, <<"Destroy", form[handle]>> >>
  <2>1. NoPictures(r)
    BY ListedTasks DEF NoPictures, Pictures
  <2>2. apiQueue' = apiQueue \o r /\ UNCHANGED <<frames, encoderQueue>>
    BY <1>3 DEF ClickRelease
  <2> HIDE DEF r
  <2> QED
    BY <1>1, <2>1, <2>2
<1>4. ASSUME NEW o, NEW handle, Create(o, handle) PROVE FramesQuiet
  <2>1. NoPictures(<<<<"Start", o>>>>)
    BY ListedTasks DEF NoPictures, Pictures
  <2>2. apiQueue' = apiQueue \o <<<<"Start", o>>>> /\ UNCHANGED <<frames, encoderQueue>>
    BY <1>4 DEF Create, ApiIdle
  <2> QED
    BY <1>1, <2>1, <2>2
<1> QED
  BY <1>2, <1>3, <1>4, FramesStartDevices DEF Application, ClickPush, ClickPreview

\* The tasks of the api thread that deliver no picture.
LEMMA FramesApiThread ==
  ASSUME SessionInv, ApiThread, ~DeliverVideo
  PROVE  FramesQuiet
<1>1. IsQueue(apiQueue)
  BY DEF SessionInv, StartInv
<1>2. ASSUME apiQueue # << >>, UNCHANGED <<frames, encoderQueue>>,
             \/ apiQueue' = Tail(apiQueue)
             \/ \E t : t[1] # "Frame" /\ apiQueue' = Append(Tail(apiQueue), t)
      PROVE  FramesQuiet
  BY <1>1, <1>2, FramesTake
<1>3. \A c, o : AddConsumerTask(c, o)[1] # "Frame" /\ RemoveConsumerTask(c, o)[1] # "Frame"
  BY TaskNames
<1>4. ASSUME NEW what, Crash(what) PROVE FramesQuiet
  BY <1>4 DEF Crash, sessionVars, FramesQuiet
<1>5. ASSUME NEW p \in Pushers, StartPush(p) PROVE FramesQuiet
  BY <1>2, <1>3, <1>5 DEF StartPush, StartStream, ApiTask
<1>6. ASSUME NEW p \in Pushers, PostOffer(p) \/ FinishDestroy(p) PROVE FramesQuiet
  BY <1>6 DEF PostOffer, FinishDestroy, deviceVars, FramesQuiet
<1>7. ASSUME NEW p \in Pushers, StopPush(p) PROVE FramesQuiet
  BY <1>2, <1>3, <1>4, <1>7 DEF StopPush, ApiTask, sessionVars
<1>8. ASSUME NEW p \in Pushers, DestroyPusher(p) PROVE FramesQuiet
  BY <1>2, <1>8 DEF DestroyPusher, ApiTask
<1>9. ASSUME NEW v \in Previews, StartPreview(v) \/ DestroyPreview(v) PROVE FramesQuiet
  BY <1>2, <1>3, <1>9 DEF StartPreview, DestroyPreview, ApiTask, sessionVars
<1>10. ASSUME NEW v \in Previews, StopPreview(v) PROVE FramesQuiet
  BY <1>2, <1>3, <1>4, <1>10 DEF StopPreview, ApiTask
<1>11. CASE DeviceTask
  <2>1. CASE ~Crash("device")
    <3>1. apiQueue # << >> /\ apiQueue' = Tail(apiQueue) /\ UNCHANGED encoderQueue
      BY <1>11, <2>1 DEF DeviceTask, sessionVars
    <3>2. frames' = frames
      BY <1>11, <2>1 DEF DeviceTask, StartCamera, StartMic, StopCamera, StopMic, DestroyDevice,
                         ChangeConsumers
    <3> QED
      BY <1>2, <3>1, <3>2
  <2> QED
    BY <1>4, <2>1
<1> QED
  BY <1>5, <1>6, <1>7, <1>8, <1>9, <1>10, <1>11 DEF ApiThread

\* The worker, network and http threads have no pictures.
LEMMA FramesOtherThreads ==
  ASSUME \/ WorkerThread \/ NetworkTask \/ HttpThread
         \/ \E p \in Pushers, state \in IceStates : IceState(p, state)
  PROVE  FramesQuiet
<1>1. UNCHANGED <<frames, encoderQueue, apiQueue>>
  <2>1. ASSUME NEW p \in Pushers, SendAnswer(p) PROVE UNCHANGED <<frames, encoderQueue, apiQueue>>
    BY <2>1 DEF SendAnswer, Crash, deviceVars, sessionVars
  <2>2. ASSUME NEW p \in Pushers, NEW state \in IceStates, IceState(p, state)
        PROVE  UNCHANGED <<frames, encoderQueue, apiQueue>>
    BY <2>2 DEF IceState, deviceVars
  <2>3. CASE WorkerChangesObjects \/ HttpThread
    BY <2>3 DEF WorkerChangesObjects, HttpThread, deviceVars, sessionVars
  <2>4. CASE DeliverReply \/ Render \/ NetworkTask
    BY <2>4 DEF DeliverReply, Render, NetworkTask, Crash, deviceVars, sessionVars
  <2> QED
    BY <2>1, <2>2, <2>3, <2>4 DEF WorkerThread
<1> QED
  BY <1>1 DEF FramesQuiet

\* What waits less is what an encoder has more.
LEMMA OneMore ==
  ASSUME NEW k \in {0, 1}, NEW e \in Int, NEW f \in Int, NEW w \in Int, NEW v \in Int, NEW x \in Int,
         x <= e + 1, e + w <= f, v + 1 <= w + k
  PROVE  x + v <= f + k
OBVIOUS

\* A picture reaches the encoders of whoever listens, once each.
LEMMA FramesDeliver ==
  ASSUME FrameInv, NEW d, Deliver(d), NEW k \in {0, 1}, frames' = frames + k,
         frames' \in 0..MaxFrames, Waiting \in Nat, Waiting' \in Nat,
         Waiting' + 1 <= Waiting + k
  PROVE  FrameInv'
<1>1. encoderQueue' = [p \in Pushers |->
                          encoderQueue[p] + (IF p \in Listeners(d) THEN 1 ELSE 0)]
  BY DEF Deliver
<1>2. frames \in Int /\ \A p \in Pushers : encoderQueue[p] \in Nat
  BY SessionAssumption DEF FrameInv
<1>3. encoderQueue' \in [Pushers -> Nat]
  BY <1>1, <1>2
<1>4. ASSUME NEW p \in Pushers PROVE encoderQueue'[p] + Waiting' <= frames'
  <2>1. encoderQueue'[p] \in Nat /\ encoderQueue'[p] <= encoderQueue[p] + 1
    BY <1>1, <1>2
  <2>2. encoderQueue[p] + Waiting <= frames /\ encoderQueue[p] \in Nat
    BY <1>2 DEF FrameInv
  <2>3. encoderQueue'[p] + Waiting' <= frames + k
    <3>1. frames \in Int /\ Waiting \in Int /\ Waiting' \in Int
      BY <1>2
    <3>2. encoderQueue[p] \in Int /\ encoderQueue'[p] \in Int
      BY <2>1, <2>2
    <3>3. Waiting' + 1 <= Waiting + k
      OBVIOUS
    <3>4. encoderQueue'[p] <= encoderQueue[p] + 1
      BY <2>1
    <3>5. encoderQueue[p] + Waiting <= frames
      BY <2>2
    <3> QED
      BY <3>1, <3>2, <3>3, <3>4, <3>5, OneMore
  <2> QED
    BY <2>3
<1> QED
  BY <1>3, <1>4 DEF FrameInv

\* The api thread delivers a picture, or one who is gone is called.
LEMMA FramesDeliverVideo ==
  ASSUME SessionInv, UserInv, FrameInv, DeliverVideo
  PROVE  FrameInv'
<1>1. IsQueue(apiQueue) /\ apiQueue # << >> /\ Head(apiQueue)[1] = "Frame"
  BY DEF SessionInv, StartInv, DeliverVideo, ApiTask
<1>2. ASSUME NEW what, Crash(what) PROVE FrameInv'
  <2>1. FramesQuiet
    BY <1>2 DEF Crash, sessionVars, FramesQuiet
  <2> QED
    BY <1>1, <2>1, FramesQuietStep
<1>3. CASE Deliver(Subject) /\ apiQueue' = Tail(apiQueue) /\ UNCHANGED frames
  <2>1. Head(apiQueue) \in Pictures
    <3>1. Head(apiQueue) \in Tasks(apiQueue) /\ IsTask(Head(apiQueue))
      <4>1. Head(apiQueue) \in Tasks(apiQueue)
        BY <1>1, TasksAfter
      <4> QED
        BY <4>1 DEF UserInv, FormInv
    <3>2. \A d, c : AddOf(d, c)[1] = "Add" /\ RemoveOf(d, c)[1] = "Remove"
      BY TaskNames DEF AddOf, RemoveOf
    <3> QED
      BY <1>1, <3>1, <3>2 DEF IsTask, Pictures
  <2>2. Waiting \in Nat /\ Waiting' \in Nat /\ Waiting' = Waiting - 1
    <3>1. /\ Waiting \in Nat /\ HowMany(Tail(apiQueue), Pictures) \in Nat
          /\ HowMany(Tail(apiQueue), Pictures) = Waiting - 1
      BY <1>1, <2>1, WaitingAfter
    <3>2. Waiting' = HowMany(Tail(apiQueue), Pictures)
      BY <1>3 DEF Waiting
    <3> QED
      BY <3>1, <3>2
  <2>3. frames' = frames + 0 /\ frames' \in 0..MaxFrames
    BY <1>3, SessionAssumption DEF FrameInv
  <2>4. Waiting' + 1 <= Waiting + 0
    BY <2>2
  <2>5. \E d : Deliver(d)
    BY <1>3
  <2>6. 0 \in {0, 1}
    OBVIOUS
  <2> QED
    BY <2>2, <2>3, <2>4, <2>5, <2>6, FramesDeliver
<1> QED
  BY <1>2, <1>3 DEF DeliverVideo

\* A sound is captured, and delivered at once.
LEMMA FramesCaptureAudio ==
  ASSUME SessionInv, FrameInv, NEW mic \in Mics, CaptureAudio(mic)
  PROVE  FrameInv'
<1>1. IsQueue(apiQueue) /\ Waiting \in Nat
  BY WaitingAfter DEF SessionInv, StartInv
<1>2. CASE Crash("consumer")
  <2>1. FramesQuiet
    BY <1>2 DEF Crash, sessionVars, FramesQuiet
  <2> QED
    BY <1>1, <2>1, FramesQuietStep
<1>3. CASE Deliver(mic) /\ frames' = frames + 1 /\ UNCHANGED apiQueue
  <2>1. frames' \in 0..MaxFrames
    BY <1>3, SessionAssumption DEF FrameInv, CaptureAudio
  <2>2. Waiting' = Waiting
    BY <1>3 DEF Waiting
  <2> QED
    BY <1>1, <1>3, <2>1, <2>2, FramesDeliver
<1> QED
  BY <1>2, <1>3 DEF CaptureAudio

\* A picture is captured, and its delivery posted.
LEMMA FramesCaptureCamera ==
  ASSUME SessionInv, FrameInv, NEW cam \in Cameras, CaptureCamera(cam)
  PROVE  FrameInv'
<1>1. /\ IsQueue(apiQueue) /\ frames < MaxFrames /\ frames' = frames + 1
      /\ apiQueue' = Append(apiQueue, <<"Frame", cam>>) /\ encoderQueue' = encoderQueue
  BY DEF SessionInv, StartInv, CaptureCamera, CaptureVideo, sessionVars
<1>2. Waiting \in Nat /\ Waiting' = Waiting + 1
  <2>1. HowMany(Append(apiQueue, <<"Frame", cam>>), Pictures) =
          HowMany(apiQueue, Pictures) + (IF <<"Frame", cam>> \in Pictures THEN 1 ELSE 0)
    BY <1>1, HowManyPost
  <2>2. <<"Frame", cam>> \in Pictures
    BY DEF Pictures
  <2>3. Waiting \in Nat
    BY <1>1, WaitingAfter
  <2>4. Waiting' = HowMany(Append(apiQueue, <<"Frame", cam>>), Pictures)
    BY <1>1 DEF Waiting
  <2> QED
    BY <2>1, <2>2, <2>3, <2>4 DEF Waiting
<1>3. frames \in Int /\ frames' \in 0..MaxFrames /\ \A p \in Pushers : encoderQueue[p] \in Nat
  BY <1>1, SessionAssumption DEF FrameInv
<1>4. \A p \in Pushers : encoderQueue'[p] + Waiting' <= frames'
  <2> SUFFICES ASSUME NEW p \in Pushers PROVE encoderQueue[p] + Waiting' <= frames'
    BY <1>1
  <2>1. encoderQueue[p] + Waiting <= frames
    BY DEF FrameInv
  <2> QED
    BY <1>1, <1>2, <1>3, <2>1
<1> QED
  BY <1>1, <1>3, <1>4 DEF FrameInv

\* An encoder takes one.
LEMMA FramesEncode ==
  ASSUME SessionInv, FrameInv, NEW p \in Pushers, Encode(p)
  PROVE  FrameInv'
<1>1. IsQueue(apiQueue) /\ Waiting \in Nat
  BY WaitingAfter DEF SessionInv, StartInv
<1>2. CASE Crash("encoder")
  <2>1. FramesQuiet
    BY <1>2 DEF Crash, sessionVars, FramesQuiet
  <2> QED
    BY <1>1, <2>1, FramesQuietStep
<1>3. CASE ~Crash("encoder")
  <2>1. /\ encoderQueue[p] > 0 /\ encoderQueue' = [encoderQueue EXCEPT ![p] = @ - 1]
        /\ UNCHANGED <<frames, apiQueue>>
    BY <1>3 DEF Encode, deviceVars
  <2>2. frames \in Int /\ \A x \in Pushers : encoderQueue[x] \in Nat
    BY SessionAssumption DEF FrameInv
  <2>3. /\ encoderQueue' \in [Pushers -> Nat]
        /\ \A x \in Pushers : encoderQueue'[x] <= encoderQueue[x]
    BY <2>1, <2>2 DEF FrameInv
  <2>4. Waiting' = Waiting
    BY <2>1 DEF Waiting
  <2>5. ASSUME NEW x \in Pushers PROVE encoderQueue'[x] + Waiting' <= frames'
    <3>1. encoderQueue[x] + Waiting <= frames /\ encoderQueue'[x] \in Nat
      BY <2>3 DEF FrameInv
    <3> QED
      BY <1>1, <2>1, <2>2, <2>3, <2>4, <3>1
  <2> QED
    BY <2>1, <2>3, <2>5 DEF FrameInv
<1> QED
  BY <1>2, <1>3

\* Nothing is captured at first.
LEMMA FrameInit == Init => FrameInv
<1> SUFFICES ASSUME Init PROVE FrameInv
  OBVIOUS
<1>1. Waiting = 0
  <2>1. Len(<< >>) = 0 /\ 1..0 = {}
    OBVIOUS
  <2>2. PlacesOf(apiQueue, Pictures) = {}
    BY <2>1 DEF Init, PlacesOf
  <2> QED
    BY <2>2, FS_EmptySet DEF Waiting, HowMany
<1>2. frames = 0 /\ encoderQueue = [p \in Pushers |-> 0]
  BY DEF Init
<1>3. encoderQueue \in [Pushers -> Nat] /\ \A p \in Pushers : encoderQueue[p] + Waiting <= frames
  BY <1>1, <1>2
<1> QED
  BY <1>2, <1>3, SessionAssumption DEF FrameInv

\* No picture is made on the way.
LEMMA FrameStep == SessionInv /\ UserInv /\ FrameInv /\ [Next]_vars => FrameInv'
<1> SUFFICES ASSUME SessionInv, UserInv, FrameInv, [Next]_vars PROVE FrameInv'
  OBVIOUS
<1>1. ASSUME FramesQuiet PROVE FrameInv'
  BY <1>1, FramesQuietStep DEF SessionInv, StartInv
<1>2. CASE UNCHANGED vars
  BY <1>1, <1>2 DEF vars, deviceVars, sessionVars, FramesQuiet
<1>3. CASE Application \/ (ApiThread /\ ~DeliverVideo)
  BY <1>1, <1>3, FramesApplication, FramesApiThread
<1>4. CASE DeliverVideo
  BY <1>4, FramesDeliverVideo
<1>5. CASE \/ WorkerThread \/ NetworkTask \/ HttpThread
           \/ \E p \in Pushers, state \in IceStates : IceState(p, state)
  BY <1>1, <1>5, FramesOtherThreads
<1>6. CASE \/ \E mic \in Mics : CaptureAudio(mic)
           \/ \E cam \in Cameras : CaptureCamera(cam)
           \/ \E p \in Pushers : Encode(p)
  BY <1>6, FramesCaptureAudio, FramesCaptureCamera, FramesEncode
<1> QED
  BY <1>2, <1>3, <1>4, <1>5, <1>6 DEF Next

-----------------------------------------------------------------------------
(* The types.                                                              *)

\* Who holds the lock, and what ended the program.
PlainTypes ==
  /\ crash \in {"no", "device", "consumer", "encoder", "frame", "reply", "render"}
  /\ mutex \in {Nobody, "api", "worker"}

\* Only Post takes the lock, and each crash has its name.
LEMMA PlainStep == PlainTypes /\ [Next]_vars => PlainTypes'
<1> SUFFICES ASSUME PlainTypes, [Next]_vars PROVE PlainTypes'
  OBVIOUS
<1>1. ASSUME UNCHANGED <<crash, mutex>> PROVE PlainTypes'
  BY <1>1 DEF PlainTypes
<1>2. ASSUME NEW what \in {"device", "consumer", "encoder", "frame", "reply", "render"},
             Crash(what)
      PROVE  PlainTypes'
  BY <1>2 DEF Crash, httpVars, PlainTypes
<1>3. CASE UNCHANGED vars
  BY <1>1, <1>3 DEF vars, deviceVars, httpVars
<1>4. CASE Application
  <2>1. UNCHANGED <<crash, httpVars>>
    BY <1>4 DEF Application, ClickStartDevices, ClickStopDevices, ClickPush, ClickPreview,
                Create, ClickRelease
  <2> QED
    BY <1>1, <2>1 DEF httpVars
<1>5. ASSUME NEW p \in Pushers, StartPush(p) \/ DestroyPusher(p) \/ FinishDestroy(p)
      PROVE  PlainTypes'
  BY <1>1, <1>5 DEF StartPush, DestroyPusher, FinishDestroy, httpVars
<1>6. ASSUME NEW p \in Pushers, StopPush(p) PROVE PlainTypes'
  BY <1>1, <1>2, <1>6 DEF StopPush, httpVars
<1>7. ASSUME NEW p \in Pushers, PostOffer(p) PROVE PlainTypes'
  BY <1>7 DEF PostOffer, AddHandle, Remember, deviceVars, PlainTypes
<1>8. ASSUME NEW v \in Previews, StartPreview(v) \/ StopPreview(v) \/ DestroyPreview(v)
      PROVE  PlainTypes'
  BY <1>1, <1>2, <1>8 DEF StartPreview, StopPreview, DestroyPreview, httpVars
<1>9. CASE DeviceTask
  <2>1. CASE ~Crash("device")
    <3>1. UNCHANGED mutex
      BY <1>9, <2>1 DEF DeviceTask, httpVars
    <3>2. UNCHANGED crash
      BY <1>9, <2>1 DEF DeviceTask, StartCamera, StartMic, StopCamera, StopMic, DestroyDevice,
                        ChangeConsumers
    <3> QED
      BY <1>1, <3>1, <3>2
  <2> QED
    BY <1>2, <2>1
<1>10. CASE DeliverVideo \/ \E mic \in Mics : CaptureAudio(mic)
  BY <1>1, <1>2, <1>10 DEF DeliverVideo, CaptureAudio, Deliver
<1>11. ASSUME NEW cam \in Cameras, CaptureCamera(cam) PROVE PlainTypes'
  BY <1>1, <1>11 DEF CaptureCamera, CaptureVideo, httpVars
<1>12. ASSUME NEW p \in Pushers, Encode(p) PROVE PlainTypes'
  BY <1>1, <1>2, <1>12 DEF Encode, deviceVars, httpVars
<1>13. CASE NetworkTask \/ DeliverReply \/ Render
  BY <1>1, <1>2, <1>13 DEF NetworkTask, DeliverReply, Render, deviceVars, httpVars
<1>14. ASSUME NEW p \in Pushers, SendAnswer(p) PROVE PlainTypes'
  <2>1. CASE ~Crash("reply")
    BY <1>14, <2>1 DEF SendAnswer, AddHandle, Remember, deviceVars, PlainTypes
  <2> QED
    BY <1>2, <2>1
<1>15. CASE WorkerChangesObjects \/ HttpThread
  BY <1>1, <1>15 DEF WorkerChangesObjects, ChangeObjects, HttpThread, HttpNext, ReadMessage,
                     PostReply, TransferEnds, deviceVars
<1>16. ASSUME NEW p \in Pushers, NEW state \in IceStates, IceState(p, state) PROVE PlainTypes'
  BY <1>1, <1>16 DEF IceState, deviceVars, httpVars
<1>17. CASE ApiThread
  BY <1>5, <1>6, <1>7, <1>8, <1>9, <1>10, <1>17 DEF ApiThread
<1>18. CASE WorkerThread
  BY <1>13, <1>14, <1>15, <1>18 DEF WorkerThread
<1> QED
  BY <1>3, <1>4, <1>10, <1>11, <1>12, <1>13, <1>15, <1>16, <1>17, <1>18 DEF Next

\* Every variable holds what the code can put there, streams only while the
\* push they belong to is not gone.
THEOREM SessionTypes == Spec => []TypeOK
<1>1. SessionInv /\ UserInv /\ EndInv /\ FrameInv /\ PlainTypes => TypeOK
  <2> SUFFICES ASSUME SessionInv, UserInv, EndInv, FrameInv, PlainTypes PROVE TypeOK
    OBVIOUS
  <2>1. life \in [Objects -> {"none", "alive", "dying", "dead"}]
    BY DEF SessionInv, SinkInv, LifeOK
  <2>2. consumer_list \in [Cameras \cup Mics -> Seq(Pushers \cup Previews)]
    BY DEF UserInv, ListsOK, Consumers
  <2>3. encoderQueue \in [Pushers -> 0..MaxFrames]
    <3>1. Waiting \in Nat
      BY WaitingAfter DEF SessionInv, StartInv
    <3>2. \A p \in Pushers : encoderQueue[p] \in 0..MaxFrames
      BY <3>1, SessionAssumption DEF FrameInv
    <3> QED
      BY <3>2 DEF FrameInv
  <2>4. ASSUME NEW p \in Pushers
        PROVE  /\ pc[p].state \in IceStates \cup {"new"}
               /\ pc[p].streams => life[p] \in {"alive", "dying"}
    <3>1. pc[p].state \in IceStates \cup {"new"}
      BY DEF SessionInv, SinkInv, StreamInv, Connections
    <3>2. EndOK(p)
      BY DEF EndInv
    <3>3. life[p] # "dead" \/ ~pc[p].streams
      BY <3>2 DEF EndOK, Gone, Destroying
    <3>4. pc[p].streams => life[p] # "none"
      BY <3>2 DEF EndOK, SessionInv, SinkInv, ObjectInv
    <3>5. life[p] \in {"none", "alive", "dying", "dead"}
      BY <2>1 DEF Objects
    <3> QED
      BY <3>1, <3>3, <3>4, <3>5
  <2>5. {task[2] : task \in ToSet(apiQueue)} \subseteq Objects
    <3>1. ToSet(apiQueue) = Tasks(apiQueue)
      BY ToSetIsTasks DEF SessionInv, StartInv
    <3>2. ASSUME NEW task \in Tasks(apiQueue) PROVE task[2] \in Objects
      <4>1. IsTask(task)
        BY DEF UserInv, FormInv
      <4>2. \A c, o : AddOf(c, o)[2] = c /\ RemoveOf(c, o)[2] = c
        BY TaskNames DEF AddOf, RemoveOf
      <4>3. Cameras \subseteq Objects
        BY DEF Objects
      <4> QED
        BY <4>1, <4>2, <4>3 DEF IsTask
    <3> QED
      BY <3>1, <3>2
  <2> QED
    BY <2>1, <2>2, <2>3, <2>4, <2>5 DEF TypeOK, PlainTypes
<1>2. Init => PlainTypes
  BY DEF Init, HttpInit, PlainTypes
<1> QED
  BY InitInv, UserInit, EndInit, FrameInit, StepInv, UserStep, EndStep, FrameStep, PlainStep,
     <1>1, <1>2, PTL DEF Spec
=============================================================================
