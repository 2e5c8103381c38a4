------------------------- MODULE EncoderFilterProofs -------------------------
(***************************************************************************)
(* What holds of the encoder filters for any number of frames and threads: *)
(* the frame queue has one consumer, and nothing is pushed after Stop.     *)
(* FilterInv is inductive: the only thread that can use the filter is the  *)
(* one encoder_thread_ names, and only while running_ is set or a call of  *)
(* Stop is on its way to joining it.  An Opus thread that gave up is alive *)
(* beside it for a while, and uses nothing of the filter.                  *)
(***************************************************************************)
EXTENDS EncoderFilter, TLAPS

Places == {"none", "init", "check", "lock", "waiting", "encode", "ending",
           "exited"}

ControlTypeOK ==
  /\ kind \in Kinds
  /\ running \in BOOLEAN /\ quiet \in BOOLEAN
  /\ starts \in 0..MaxStarts
  /\ encoderThread \in 0..starts
  /\ stop \in {"no", "notify", "join"}
  /\ pc \in [Threads -> Places]

NotStarted == \A t \in Threads : t > starts => pc[t] = "none"
OnlyThat == \A t \in Threads : UsesFilter(t) => t = encoderThread
UserIsRunning == \A t \in Threads : UsesFilter(t) => (running \/ stop # "no")
QuietIsUnused == quiet => \A t \in Threads : ~UsesFilter(t)

FilterInv == ControlTypeOK /\ NotStarted /\ OnlyThat /\ UserIsRunning /\ QuietIsUnused

\* The invariant holds before the first call of Start.
LEMMA FilterInit == Init => FilterInv
<1> SUFFICES ASSUME Init PROVE FilterInv
  OBVIOUS
<1>1. \A t \in Threads : pc[t] = "none"
  BY DEF Init
<1>2. pc \in [Threads -> Places]
  BY DEF Init, Places
<1>3. 0 \in 0..MaxStarts /\ 0 \in 0..0
  BY EncoderAssumption DEF EncoderAssumption
<1>4. ControlTypeOK
  BY <1>2, <1>3 DEF Init, ControlTypeOK
<1> QED
  BY <1>1, <1>4 DEF Init, FilterInv, NotStarted, OnlyThat, UserIsRunning,
          QuietIsUnused, Live, UsesFilter

\* A thread that is alive and moves on, while the control of the filter stays:
\* what InitEncoder, CheckRunning, TakeFrame, WakeUp, Encode and Return have in
\* common.  Only an Opus thread that gives up clears running_.
LEMMA ThreadMoves ==
  ASSUME FilterInv, NEW t \in Threads, Live(t), NEW place \in Places,
         pc' = [pc EXCEPT ![t] = place], running' \in BOOLEAN,
         running' = running \/ (UsesFilter(t) /\ kind = "opus" /\ place = "ending"),
         pc[t] = "ending" => place = "exited",
         UNCHANGED threadVars
  PROVE  FilterInv'
<1> USE DEF FilterInv, threadVars
<1>1. \A u \in Threads : UsesFilter(u)' => UsesFilter(u)
  BY DEF ControlTypeOK, Live, UsesFilter
<1>2. \A u \in Threads : UsesFilter(u)' => running' = running
  BY <1>1 DEF ControlTypeOK, Live, UsesFilter, OnlyThat
<1>3. ControlTypeOK'
  BY DEF ControlTypeOK
<1>4. NotStarted'
  BY DEF ControlTypeOK, NotStarted, Live
<1>5. OnlyThat'
  BY <1>1 DEF OnlyThat
<1>6. UserIsRunning'
  BY <1>1, <1>2 DEF UserIsRunning
<1>7. QuietIsUnused'
  BY <1>1 DEF QuietIsUnused
<1> QED BY <1>3, <1>4, <1>5, <1>6, <1>7

\* A step of the controlling thread or of the capture thread, and every step
\* of an encoder thread, keeps the invariant.
LEMMA FilterStep == FilterInv /\ [Next]_vars => FilterInv'
<1> SUFFICES ASSUME FilterInv, [Next]_vars PROVE FilterInv'
  OBVIOUS
<1> USE EncoderAssumption DEF EncoderAssumption, FilterInv
<1>1. CASE Start
  <2>1. \A t \in Threads : ~UsesFilter(t)
    BY <1>1 DEF Start, UserIsRunning
  <2>2. starts + 1 \in Threads
    BY <1>1 DEF Start, Threads, ControlTypeOK
  <2>3. ControlTypeOK'
    <3>1. pc' \in [Threads -> Places]
      BY <1>1, <2>2 DEF Start, ControlTypeOK, Places
    <3>2. starts' \in 0..MaxStarts /\ encoderThread' \in 0..starts'
      BY <1>1 DEF Start, ControlTypeOK
    <3>3. running' \in BOOLEAN /\ quiet' \in BOOLEAN /\ stop' \in {"no", "notify", "join"}
      BY <1>1 DEF Start
    <3>4. kind' \in Kinds
      BY <1>1 DEF Start, ControlTypeOK
    <3> QED BY <3>1, <3>2, <3>3, <3>4 DEF ControlTypeOK
  <2>4. NotStarted'
    BY <1>1, <2>2 DEF Start, ControlTypeOK, NotStarted, Threads
  <2>5. QuietIsUnused'
    BY <1>1 DEF Start, QuietIsUnused
  <2>6. \A t \in Threads : UsesFilter(t)' => t = starts + 1
    BY <1>1, <2>1 DEF Start, Live, UsesFilter, ControlTypeOK
  <2>7. OnlyThat' /\ UserIsRunning'
    BY <1>1, <2>6 DEF Start, OnlyThat, UserIsRunning
  <2> QED BY <2>3, <2>4, <2>5, <2>7
<1>2. CASE StopIgnored
  BY <1>2 DEF StopIgnored, ControlTypeOK, NotStarted, OnlyThat, UserIsRunning,
     QuietIsUnused, Live, UsesFilter
<1>3. CASE StopClearsRunning
  BY <1>3 DEF StopClearsRunning, ControlTypeOK, NotStarted, OnlyThat, UserIsRunning,
     QuietIsUnused, Live, UsesFilter
<1>4. CASE StopNotifies
  <2>1. \A t \in Threads : UsesFilter(t)' <=> UsesFilter(t)
    BY <1>4 DEF StopNotifies, Live, UsesFilter, ControlTypeOK
  <2>2. ControlTypeOK' /\ NotStarted'
    BY <1>4 DEF StopNotifies, ControlTypeOK, NotStarted, Places
  <2> QED BY <1>4, <2>1, <2>2 DEF StopNotifies, OnlyThat, UserIsRunning, QuietIsUnused
<1>5. CASE StopJoins
  <2>1. \A t \in Threads : ~UsesFilter(t)
    BY <1>5 DEF StopJoins, OnlyThat, Live, UsesFilter, ControlTypeOK, Threads
  <2> QED BY <1>5, <2>1 DEF StopJoins, ControlTypeOK, NotStarted, OnlyThat, UserIsRunning,
         QuietIsUnused, Live, UsesFilter
<1>6. CASE OnNewMediaFrame
  <2>1. pc' = pc \/ \E t \in Threads : pc[t] = "waiting" /\ pc' = [pc EXCEPT ![t] = "check"]
    BY <1>6 DEF OnNewMediaFrame
  <2>2. \A t \in Threads : UsesFilter(t)' <=> UsesFilter(t)
    BY <1>6, <2>1 DEF OnNewMediaFrame, Live, UsesFilter, ControlTypeOK
  <2>3. ControlTypeOK' /\ NotStarted'
    BY <1>6, <2>1 DEF OnNewMediaFrame, ControlTypeOK, NotStarted, Places
  <2> QED BY <1>6, <2>2, <2>3 DEF OnNewMediaFrame, OnlyThat, UserIsRunning, QuietIsUnused
<1>7. ASSUME NEW t \in Threads, InitEncoder(t) PROVE FilterInv'
  <2>1. Live(t) /\ UNCHANGED threadVars
    BY <1>7 DEF InitEncoder, Live
  <2>2. \E place \in Places : /\ pc' = [pc EXCEPT ![t] = place]
                              /\ running' \in BOOLEAN
                              /\ running' = running
                                 \/ (UsesFilter(t) /\ kind = "opus" /\ place = "ending")
                              /\ pc[t] = "ending" => place = "exited"
    BY <1>7 DEF InitEncoder, Live, UsesFilter, Goto, GiveUp, Places, ControlTypeOK
  <2> QED BY <2>1, <2>2, ThreadMoves
<1>8. ASSUME NEW t \in Threads, CheckRunning(t) PROVE FilterInv'
  <2>1. Live(t) /\ UNCHANGED threadVars
    BY <1>8 DEF CheckRunning, Live
  <2>2. \E place \in Places : /\ pc' = [pc EXCEPT ![t] = place]
                              /\ running' \in BOOLEAN
                              /\ running' = running
                                 \/ (UsesFilter(t) /\ kind = "opus" /\ place = "ending")
                              /\ pc[t] = "ending" => place = "exited"
    BY <1>8 DEF CheckRunning, Live, UsesFilter, Goto, Places, ControlTypeOK
  <2> QED BY <2>1, <2>2, ThreadMoves
<1>9. ASSUME NEW t \in Threads, TakeFrame(t) PROVE FilterInv'
  <2>1. Live(t) /\ UNCHANGED threadVars
    BY <1>9 DEF TakeFrame, Live
  <2>2. \E place \in Places : /\ pc' = [pc EXCEPT ![t] = place]
                              /\ running' \in BOOLEAN
                              /\ running' = running
                                 \/ (UsesFilter(t) /\ kind = "opus" /\ place = "ending")
                              /\ pc[t] = "ending" => place = "exited"
    BY <1>9 DEF TakeFrame, Live, UsesFilter, Goto, Places, ControlTypeOK
  <2> QED BY <2>1, <2>2, ThreadMoves
<1>10. ASSUME NEW t \in Threads, WakeUp(t) PROVE FilterInv'
  <2>1. Live(t) /\ UNCHANGED threadVars
    BY <1>10 DEF WakeUp, Live
  <2>2. \E place \in Places : /\ pc' = [pc EXCEPT ![t] = place]
                              /\ running' \in BOOLEAN
                              /\ running' = running
                                 \/ (UsesFilter(t) /\ kind = "opus" /\ place = "ending")
                              /\ pc[t] = "ending" => place = "exited"
    BY <1>10 DEF WakeUp, Live, UsesFilter, Goto, Places, ControlTypeOK
  <2> QED BY <2>1, <2>2, ThreadMoves
<1>11. ASSUME NEW t \in Threads, Encode(t) PROVE FilterInv'
  <2>1. Live(t) /\ UNCHANGED threadVars
    BY <1>11 DEF Encode, Live
  <2>2. \E place \in Places : /\ pc' = [pc EXCEPT ![t] = place]
                              /\ running' \in BOOLEAN
                              /\ running' = running
                                 \/ (UsesFilter(t) /\ kind = "opus" /\ place = "ending")
                              /\ pc[t] = "ending" => place = "exited"
    BY <1>11 DEF Encode, Live, UsesFilter, Goto, GiveUp, Places, ControlTypeOK
  <2> QED BY <2>1, <2>2, ThreadMoves
<1>12. ASSUME NEW t \in Threads, Return(t) PROVE FilterInv'
  <2>1. Live(t) /\ UNCHANGED threadVars
    BY <1>12 DEF Return, Live
  <2>2. "exited" \in Places /\ pc' = [pc EXCEPT ![t] = "exited"] /\ running' = running
    BY <1>12 DEF Return, Goto, Places
  <2> QED BY <2>1, <2>2, ThreadMoves DEF ControlTypeOK
<1>13. CASE UNCHANGED vars
  BY <1>13 DEF vars, ControlTypeOK, NotStarted, OnlyThat, UserIsRunning,
     QuietIsUnused, Live, UsesFilter
<1> QED
  BY <1>1, <1>2, <1>3, <1>4, <1>5, <1>6, <1>7, <1>8, <1>9, <1>10, <1>11, <1>12, <1>13
     DEF Next

\* FilterInv is an invariant of the specification.
LEMMA AlwaysFilterInv == Spec => []FilterInv
BY FilterInit, FilterStep, PTL DEF Spec

\* Whatever Start, failures, Stop and Start again do, two encoder threads never
\* work with the queue and the members of a filter at the same time; an Opus
\* thread that gave up may be alive beside the new one, but only to destroy an
\* encoder of its own (the lambdas in Start of both filters).
THEOREM AlwaysOneConsumer == Spec => []OneConsumer
<1>1. FilterInv => OneConsumer
  BY DEF FilterInv, OnlyThat, OneConsumer
<1> QED BY <1>1, AlwaysFilterInv, PTL

\* Once Stop has returned, out_pin_ is silent until the next Start.
THEOREM SilentAfterStop == Spec => NoOutputAfterStop
<1>1. FilterInv /\ [Next]_vars => [quiet => pushed' = pushed]_vars
  <2> SUFFICES ASSUME FilterInv, Next, quiet PROVE pushed' = pushed
    BY DEF vars
  <2>1. \A t \in Threads : ~UsesFilter(t)
    BY DEF FilterInv, QuietIsUnused
  <2>2. \A t \in Threads : ~Encode(t)
    BY <2>1 DEF Encode, Live, UsesFilter
  <2> QED BY <2>2 DEF Next, Start, StopIgnored, StopClearsRunning, StopNotifies, StopJoins,
         OnNewMediaFrame, InitEncoder, CheckRunning, TakeFrame, WakeUp, Return
<1> QED BY <1>1, AlwaysFilterInv, PTL DEF Spec, NoOutputAfterStop
(***************************************************************************)
(* The frames.  What is in the queue is the last frames that were captured;*)
(* the one in the hands of the encoder thread was captured before them, and*)
(* those that were pushed before it.  That there is one such thread is what*)
(* FilterInv says.                                                         *)
(***************************************************************************)
DataTypeOK ==
  /\ kind \in Kinds
  /\ captured \in 0..MaxFrames
  /\ frameQueue \in Seq(1..MaxFrames)
  /\ frame \in [Threads -> 0..MaxFrames]
  /\ pushed \in Seq(-1..MaxFrames)

Taken == captured - Len(frameQueue)   \* frames that left the queue

QueueIsRest ==
  Taken >= 0 /\ \A i \in 1..Len(frameQueue) : frameQueue[i] = Taken + i
PushedWasTaken == \A i \in 1..Len(pushed) : pushed[i] <= Taken
HandIsNext ==
  \A t \in Threads : pc[t] = "encode" =>
     frame[t] \in 1..Taken /\ \A i \in 1..Len(pushed) : pushed[i] < frame[t]

OrderInv ==
  DataTypeOK /\ QueueIsRest /\ PushedWasTaken /\ HandIsNext /\ FramesInOrder

\* Nothing was captured.
LEMMA OrderInit == Init => OrderInv
<1> SUFFICES ASSUME Init PROVE OrderInv
  OBVIOUS
<1>1. 0 \in 0..MaxFrames
  BY EncoderAssumption DEF EncoderAssumption
<1>2. frame \in [Threads -> 0..MaxFrames]
  BY <1>1 DEF Init, NoFrame
<1>3. Len(frameQueue) = 0 /\ Len(pushed) = 0 /\ DOMAIN pushed = {}
  BY DEF Init
<1>4. frameQueue \in Seq(1..MaxFrames) /\ pushed \in Seq(-1..MaxFrames)
  BY DEF Init
<1>5. DataTypeOK
  BY <1>1, <1>2, <1>4 DEF Init, DataTypeOK
<1>6. QueueIsRest /\ PushedWasTaken
  BY <1>3 DEF Init, QueueIsRest, PushedWasTaken, Taken
<1>7. HandIsNext
  BY DEF Init, HandIsNext
<1>8. FramesInOrder
  BY <1>3 DEF FramesInOrder
<1> QED
  BY <1>5, <1>6, <1>7, <1>8 DEF OrderInv

\* No frame moves, and no thread comes to hold one.
LEMMA OrderKept ==
  ASSUME OrderInv, UNCHANGED <<kind, captured, frameQueue, frame, pushed>>,
         \A t \in Threads : pc'[t] = "encode" => pc[t] = "encode"
  PROVE  OrderInv'
BY DEF OrderInv, DataTypeOK, QueueIsRest, PushedWasTaken, HandIsNext, FramesInOrder, Taken

\* A frame is captured and queued.
LEMMA OrderCaptured ==
  ASSUME OrderInv, OnNewMediaFrame, ControlTypeOK
  PROVE  OrderInv'
<1> USE EncoderAssumption DEF EncoderAssumption
<1>1. /\ captured' = captured + 1 /\ captured + 1 \in 1..MaxFrames
      /\ frameQueue' = Append(frameQueue, captured + 1)
      /\ UNCHANGED <<kind, frame, pushed>>
  BY DEF OnNewMediaFrame, OrderInv, DataTypeOK
<1>2. \A t \in Threads : pc'[t] = "encode" => pc[t] = "encode"
  <2>1. UNCHANGED pc \/ \E t \in Threads : pc' = [pc EXCEPT ![t] = "check"]
    BY DEF OnNewMediaFrame
  <2> QED
    BY <2>1 DEF ControlTypeOK
<1>3. /\ frameQueue \in Seq(1..MaxFrames) /\ frameQueue' \in Seq(1..MaxFrames)
      /\ Len(frameQueue) \in Nat /\ Len(frameQueue') = Len(frameQueue) + 1
      /\ \A i \in 1..Len(frameQueue) : frameQueue'[i] = frameQueue[i]
      /\ frameQueue'[Len(frameQueue) + 1] = captured + 1
  BY <1>1 DEF OrderInv, DataTypeOK
<1>4. captured \in Nat /\ Taken' = Taken /\ Taken \in Int
  BY <1>1, <1>3 DEF Taken, OrderInv, DataTypeOK
<1>5. QueueIsRest'
  <2>1. ASSUME NEW i \in 1..(Len(frameQueue) + 1) PROVE frameQueue'[i] = Taken + i
    BY <1>3, <1>4 DEF OrderInv, QueueIsRest, Taken
  <2> QED
    BY <1>3, <1>4, <2>1 DEF OrderInv, QueueIsRest
<1>6. DataTypeOK'
  BY <1>1, <1>3 DEF OrderInv, DataTypeOK
<1> QED
  BY <1>1, <1>2, <1>4, <1>5, <1>6
     DEF OrderInv, PushedWasTaken, HandIsNext, FramesInOrder

\* The encoder thread takes the first frame: it was captured after all that
\* were pushed.
LEMMA OrderTaken ==
  ASSUME OrderInv, ControlTypeOK, NEW t \in Threads, TakeFrame(t)
  PROVE  OrderInv'
<1>1. CASE frameQueue = << >>
  <2>1. UNCHANGED <<kind, captured, frameQueue, frame, pushed>>
    BY <1>1 DEF TakeFrame, threadVars
  <2>2. pc' = [pc EXCEPT ![t] = "waiting"]
    BY <1>1 DEF TakeFrame, Goto
  <2> QED
    BY <2>1, <2>2, OrderKept DEF ControlTypeOK
<1>2. CASE frameQueue # << >>
  <2>1. /\ frame' = [frame EXCEPT ![t] = Head(frameQueue)]
        /\ frameQueue' = Tail(frameQueue)
        /\ pc' = [pc EXCEPT ![t] = "encode"]
        /\ UNCHANGED <<kind, captured, pushed>>
    BY <1>2 DEF TakeFrame, Goto, threadVars
  <2>2. /\ frameQueue \in Seq(1..MaxFrames) /\ Len(frameQueue) \in Nat \ {0}
        /\ Head(frameQueue) = frameQueue[1]
        /\ Tail(frameQueue) \in Seq(1..MaxFrames)
        /\ Len(Tail(frameQueue)) = Len(frameQueue) - 1
        /\ \A i \in 1..(Len(frameQueue) - 1) : Tail(frameQueue)[i] = frameQueue[i + 1]
    BY <1>2 DEF OrderInv, DataTypeOK
  <2>3. captured \in Nat /\ Taken \in Int /\ Taken' = Taken + 1 /\ Taken >= 0
    BY <2>1, <2>2, EncoderAssumption
       DEF EncoderAssumption, Taken, OrderInv, DataTypeOK, QueueIsRest
  <2>4. Head(frameQueue) = Taken + 1 /\ Head(frameQueue) \in 1..MaxFrames
    <3>1. 1 \in 1..Len(frameQueue)
      BY <2>2
    <3>2. frameQueue[1] \in 1..MaxFrames
      <4>1. \A S : frameQueue \in Seq(S) => Head(frameQueue) \in S
        BY <1>2
      <4> QED
        BY <2>2, <4>1
    <3>3. frameQueue[1] = Taken + 1
      BY <3>1 DEF OrderInv, QueueIsRest
    <3> QED
      BY <2>2, <3>2, <3>3
  <2>5. DataTypeOK'
    BY <2>1, <2>2, <2>4 DEF OrderInv, DataTypeOK
  <2>6. QueueIsRest'
    <3>1. ASSUME NEW i \in 1..(Len(frameQueue) - 1) PROVE frameQueue'[i] = Taken' + i
      BY <2>1, <2>2, <2>3 DEF OrderInv, QueueIsRest
    <3> QED
      BY <2>1, <2>2, <2>3, <3>1 DEF QueueIsRest
  <2>7. \A i \in 1..Len(pushed) : pushed[i] \in Int /\ pushed[i] <= Taken
    BY EncoderAssumption DEF EncoderAssumption, OrderInv, DataTypeOK, PushedWasTaken
  <2>8. PushedWasTaken'
    BY <2>1, <2>3, <2>7 DEF PushedWasTaken
  <2>9. HandIsNext'
    <3> SUFFICES ASSUME NEW u \in Threads, pc'[u] = "encode"
                 PROVE  /\ frame'[u] \in 1..Taken'
                        /\ \A i \in 1..Len(pushed) : pushed[i] < frame'[u]
      BY <2>1 DEF HandIsNext
    <3>1. CASE u = t
      <4>1. frame'[u] = Taken + 1
        BY <2>1, <2>4, <3>1 DEF OrderInv, DataTypeOK
      <4> QED
        BY <2>3, <2>7, <4>1
    <3>2. CASE u # t
      <4>1. frame'[u] = frame[u] /\ pc[u] = "encode"
        BY <2>1, <3>2 DEF OrderInv, DataTypeOK, ControlTypeOK
      <4> QED
        BY <2>3, <4>1 DEF OrderInv, HandIsNext
    <3> QED
      BY <3>1, <3>2
  <2> QED
    BY <2>1, <2>5, <2>6, <2>8, <2>9 DEF OrderInv, FramesInOrder
<1> QED
  BY <1>1, <1>2

\* The frame in hand, or nothing, or an empty frame is pushed; no other thread
\* holds a frame.
LEMMA OrderEncoded ==
  ASSUME OrderInv, FilterInv, NEW t \in Threads, Encode(t)
  PROVE  OrderInv'
<1>1. /\ pc[t] = "encode" /\ UNCHANGED <<kind, captured, frameQueue>>
      /\ frame' = [frame EXCEPT ![t] = NoFrame]
      /\ \E place \in {"check", "ending"} : pc' = [pc EXCEPT ![t] = place]
      /\ pushed' \in {pushed, Append(pushed, frame[t]), Append(pushed, NullFrame)}
  BY DEF Encode, GiveUp, Goto, threadVars
<1>2. \A u \in Threads : pc'[u] # "encode"
  <2>1. \A u \in Threads : pc[u] = "encode" => u = t
    BY <1>1 DEF FilterInv, OnlyThat, Live, UsesFilter
  <2> QED
    BY <1>1, <2>1 DEF FilterInv, ControlTypeOK
<1>3. DataTypeOK' /\ QueueIsRest' /\ Taken' = Taken
  <2>1. frame[t] \in -1..MaxFrames /\ NullFrame \in -1..MaxFrames /\ NoFrame \in 0..MaxFrames
    BY EncoderAssumption DEF EncoderAssumption, OrderInv, DataTypeOK, NullFrame, NoFrame
  <2>2. pushed' \in Seq(-1..MaxFrames)
    <3>1. ASSUME NEW f \in -1..MaxFrames PROVE Append(pushed, f) \in Seq(-1..MaxFrames)
      BY DEF OrderInv, DataTypeOK
    <3>2. pushed \in Seq(-1..MaxFrames)
      BY DEF OrderInv, DataTypeOK
    <3> QED
      BY <1>1, <2>1, <3>1, <3>2
  <2> QED
    BY <1>1, <2>1, <2>2 DEF OrderInv, DataTypeOK, QueueIsRest, Taken
<1>4. /\ pushed \in Seq(-1..MaxFrames) /\ Len(pushed) \in Nat /\ Taken \in Int
      /\ DOMAIN pushed = 1..Len(pushed)
      /\ \A i \in 1..Len(pushed) : pushed[i] \in Int /\ pushed[i] <= Taken
      /\ \A i \in 1..Len(pushed) : pushed[i] < frame[t]
      /\ frame[t] \in 1..Taken /\ Taken >= 0
  <2>1. /\ pushed \in Seq(-1..MaxFrames) /\ Len(pushed) \in Nat /\ Taken \in Int
        /\ DOMAIN pushed = 1..Len(pushed) /\ Taken >= 0
    BY EncoderAssumption DEF EncoderAssumption, OrderInv, DataTypeOK, Taken, QueueIsRest
  <2>2. \A i \in 1..Len(pushed) : pushed[i] \in Int /\ pushed[i] <= Taken
    BY EncoderAssumption DEF EncoderAssumption, OrderInv, DataTypeOK, PushedWasTaken
  <2> QED
    BY <1>1, <2>1, <2>2 DEF OrderInv, HandIsNext
<1>5. PushedWasTaken' /\ FramesInOrder'
  <2>1. CASE pushed' = pushed
    BY <1>3, <2>1 DEF OrderInv, PushedWasTaken, FramesInOrder
  <2>2. ASSUME NEW f, f = frame[t] \/ f = NullFrame, pushed' = Append(pushed, f)
        PROVE  PushedWasTaken' /\ FramesInOrder'
    <3>1. f \in -1..MaxFrames /\ f <= Taken
      BY <1>4, <2>2, EncoderAssumption
         DEF EncoderAssumption, OrderInv, DataTypeOK, NullFrame
    <3>2. /\ DOMAIN pushed' = 1..(Len(pushed) + 1) /\ Len(pushed') = Len(pushed) + 1
          /\ \A i \in 1..Len(pushed) : pushed'[i] = pushed[i]
          /\ pushed'[Len(pushed) + 1] = f
      BY <1>4, <2>2, <3>1
    <3>3. PushedWasTaken'
      BY <1>3, <1>4, <3>1, <3>2 DEF PushedWasTaken
    <3>4. FramesInOrder'
      <4> SUFFICES ASSUME NEW i \in 1..(Len(pushed) + 1), NEW j \in 1..(Len(pushed) + 1),
                          i < j, pushed'[i] # NullFrame, pushed'[j] # NullFrame
                   PROVE  pushed'[i] < pushed'[j]
        BY <3>2 DEF FramesInOrder
      <4>1. i \in 1..Len(pushed) /\ pushed'[i] = pushed[i]
        BY <1>4, <3>2
      <4>2. CASE j = Len(pushed) + 1
        BY <1>4, <2>2, <3>2, <4>1, <4>2
      <4>3. CASE j \in 1..Len(pushed)
        BY <1>4, <3>2, <4>1, <4>3 DEF OrderInv, FramesInOrder
      <4> QED
        BY <1>4, <4>2, <4>3
    <3> QED
      BY <3>3, <3>4
  <2> QED
    BY <1>1, <2>1, <2>2
<1> QED
  BY <1>2, <1>3, <1>5 DEF OrderInv, HandIsNext

\* Every step keeps the order.
LEMMA OrderStep == FilterInv /\ OrderInv /\ [Next]_vars => OrderInv'
<1> SUFFICES ASSUME FilterInv, OrderInv, [Next]_vars PROVE OrderInv'
  OBVIOUS
<1>t. ControlTypeOK
  BY DEF FilterInv
<1>1. CASE Start
  <2>1. UNCHANGED <<kind, captured, frameQueue, frame, pushed>>
        /\ pc' = [pc EXCEPT ![starts + 1] = "init"]
    BY <1>1 DEF Start
  <2> QED
    BY <1>t, <2>1, OrderKept DEF ControlTypeOK
<1>2. CASE StopIgnored \/ StopClearsRunning \/ StopJoins \/ UNCHANGED vars
  BY <1>2, OrderKept DEF StopIgnored, StopClearsRunning, StopJoins, vars
<1>3. CASE StopNotifies
  BY <1>3, <1>t, OrderKept DEF StopNotifies, ControlTypeOK
<1>4. CASE OnNewMediaFrame
  BY <1>4, <1>t, OrderCaptured
<1>5. ASSUME NEW t \in Threads, InitEncoder(t) \/ CheckRunning(t) \/ WakeUp(t) \/ Return(t)
      PROVE  OrderInv'
  <2>1. UNCHANGED <<kind, captured, frameQueue, frame, pushed>>
    BY <1>5 DEF InitEncoder, CheckRunning, WakeUp, Return, threadVars
  <2>2. \E place \in {"check", "lock", "ending", "exited"} : pc' = [pc EXCEPT ![t] = place]
    BY <1>5 DEF InitEncoder, CheckRunning, WakeUp, Return, GiveUp, Goto
  <2> QED
    BY <1>t, <2>1, <2>2, OrderKept DEF ControlTypeOK
<1>6. ASSUME NEW t \in Threads, TakeFrame(t) PROVE OrderInv'
  BY <1>6, <1>t, OrderTaken
<1>7. ASSUME NEW t \in Threads, Encode(t) PROVE OrderInv'
  BY <1>7, OrderEncoded
<1> QED
  BY <1>1, <1>2, <1>3, <1>4, <1>5, <1>6, <1>7 DEF Next

\* The order is an invariant of the specification.
LEMMA AlwaysOrderInv == Spec => []OrderInv
BY OrderInit, OrderStep, AlwaysFilterInv, PTL DEF Spec

\* Frames leave the filter in the order of their capture and none twice,
\* across failures, Stop and Start again (frame_queue_ of both filters).
THEOREM FramesStayInOrder == Spec => []FramesInOrder
<1>1. OrderInv => FramesInOrder
  BY DEF OrderInv
<1> QED BY <1>1, AlwaysOrderInv, PTL

\* The filters' variables keep their types.
THEOREM FilterTypes == Spec => []TypeOK
<1>1. FilterInv /\ OrderInv => TypeOK
  BY DEF FilterInv, ControlTypeOK, Places, OrderInv, DataTypeOK, TypeOK
<1> QED BY <1>1, AlwaysFilterInv, AlwaysOrderInv, PTL
=============================================================================
