--------------------------- MODULE EncoderFilter ---------------------------
(***************************************************************************)
(* OpusEncoderFilter and X264EncoderFilter: a frame queue filled by the    *)
(* capture thread and emptied by an encoder thread that Start creates and  *)
(* Stop joins.  The two filters have the same skeleton and differ in what  *)
(* a failure does: the Opus thread clears running_, the x264 thread leaves *)
(* it set.  The queue's mutex is not a variable: every critical section is *)
(* one action.  running_ is atomic and Stop does not take the mutex.       *)
(***************************************************************************)
EXTENDS Integers, Sequences, FiniteSets

CONSTANTS Kinds,       \* the filters checked, a subset of {"opus", "x264"}
          MaxFrames,   \* bound: frames captured
          MaxStarts    \* bound: encoder threads created

ASSUME EncoderAssumption ==
  /\ Kinds \subseteq {"opus", "x264"}
  /\ MaxFrames \in Nat /\ MaxStarts \in Nat

VARIABLES kind,           \* which filter this is
          running,        \* running_
          frameQueue,     \* frame_queue_
          pc,             \* where each encoder thread is
          frame,          \* the frame each encoder thread works on
          starts,         \* threads created so far
          encoderThread,  \* encoder_thread_, 0 for nullptr
          stop,           \* how far the call of Stop in progress is
          captured,       \* frames captured so far
          pushed,         \* frames given to out_pin_
          quiet           \* history: Stop returned and no Start followed

vars == <<kind, running, frameQueue, pc, frame, starts, encoderThread, stop,
          captured, pushed, quiet>>
threadVars == <<kind, starts, encoderThread, stop, captured, quiet>>

Threads == 1..MaxStarts
NoFrame == 0     \* frames are numbered from 1 as they are captured
NullFrame == -1  \* x264 produced nothing and out_frame stayed empty

Init ==
  /\ kind \in Kinds
  /\ running = FALSE
  /\ frameQueue = << >>
  /\ pc = [t \in Threads |-> "none"]
  /\ frame = [t \in Threads |-> NoFrame]
  /\ starts = 0 /\ encoderThread = 0
  /\ stop = "no"
  /\ captured = 0
  /\ pushed = << >>
  /\ quiet = TRUE
-----------------------------------------------------------------------------
(* The thread that controls the filter.                                    *)

\* [mutant: a second Start is not ignored]
StartAgain ==
  /\ stop = "no" /\ starts < MaxStarts
  /\ running' = TRUE
  /\ starts' = starts + 1
  /\ encoderThread' = starts + 1
  /\ pc' = [pc EXCEPT ![starts + 1] = "init"]
  /\ quiet' = FALSE
  /\ UNCHANGED <<kind, frameQueue, frame, stop, captured, pushed>>

\* [mutant: the new thread is not counted]
StartUncounted ==
  /\ stop = "no" /\ starts < MaxStarts /\ ~running
  /\ running' = TRUE
  /\ encoderThread' = starts + 1
  /\ pc' = [pc EXCEPT ![starts + 1] = "init"]
  /\ quiet' = FALSE
  /\ UNCHANGED <<kind, frameQueue, frame, starts, stop, captured, pushed>>

Start ==
  /\ stop = "no" /\ starts < MaxStarts /\ ~running
  /\ running' = TRUE
  /\ starts' = starts + 1
  /\ encoderThread' = starts + 1
  /\ pc' = [pc EXCEPT ![starts + 1] = "init"]
  /\ quiet' = FALSE
  /\ UNCHANGED <<kind, frameQueue, frame, stop, captured, pushed>>

StopIgnored ==
  /\ stop = "no" /\ ~running
  /\ quiet' = TRUE
  /\ UNCHANGED <<kind, running, frameQueue, pc, frame, starts, encoderThread,
                 stop, captured, pushed>>

StopClearsRunning ==
  /\ stop = "no" /\ running
  /\ running' = FALSE
  /\ stop' = "notify"
  /\ UNCHANGED <<kind, frameQueue, pc, frame, starts, encoderThread, captured,
                 pushed, quiet>>

\* [mutant: Stop does not wait for the thread]
StopNotifiesOnly ==
  /\ stop = "notify"
  /\ pc' = [t \in Threads |-> IF pc[t] = "waiting" THEN "check" ELSE pc[t]]
  /\ stop' = "no"
  /\ quiet' = TRUE
  /\ UNCHANGED <<kind, running, frameQueue, frame, starts, encoderThread,
                 captured, pushed>>

\* notify_all, without the mutex: only a thread already waiting is woken.
StopNotifies ==
  /\ stop = "notify"
  /\ pc' = [t \in Threads |-> IF pc[t] = "waiting" THEN "check" ELSE pc[t]]
  /\ stop' = "join"
  /\ UNCHANGED <<kind, running, frameQueue, frame, starts, encoderThread,
                 captured, pushed, quiet>>

StopJoins ==
  /\ stop = "join"
  /\ encoderThread = 0 \/ pc[encoderThread] = "exited"
  /\ encoderThread' = 0
  /\ stop' = "no"
  /\ quiet' = TRUE
  /\ UNCHANGED <<kind, running, frameQueue, pc, frame, starts, captured, pushed>>
-----------------------------------------------------------------------------
(* The capture thread: OnNewMediaFrame.                                    *)

\* [mutant: the frame is queued and nobody told]
CaptureSilently ==
  /\ captured < MaxFrames
  /\ captured' = captured + 1
  /\ frameQueue' = Append(frameQueue, captured + 1)
  /\ UNCHANGED <<kind, running, pc, frame, starts, encoderThread, stop, pushed, quiet>>

OnNewMediaFrame ==
  /\ captured < MaxFrames
  /\ captured' = captured + 1
  /\ frameQueue' = Append(frameQueue, captured + 1)
  /\ LET waiting == {t \in Threads : pc[t] = "waiting"}
     IN  IF waiting = {} THEN UNCHANGED pc
         ELSE \E t \in waiting : pc' = [pc EXCEPT ![t] = "check"]
  /\ UNCHANGED <<kind, running, frame, starts, encoderThread, stop, pushed, quiet>>
-----------------------------------------------------------------------------
(* The encoder threads.                                                    *)

Goto(t, place) == pc' = [pc EXCEPT ![t] = place]

\* [mutant: the x264 thread too clears running_, and then releases its encoder,
\* which is a member of the filter]
GiveUpEarly(t) ==
  /\ Goto(t, "ending")
  /\ running' = FALSE

\* The thread gives up: the Opus thread clears running_ before it destroys its
\* encoder and returns, so that Start may make another thread meanwhile.
GiveUp(t) ==
  /\ Goto(t, "ending")
  /\ running' = IF kind = "opus" THEN FALSE ELSE running

InitEncoder(t) ==
  /\ pc[t] = "init"
  /\ \/ Goto(t, "check") /\ UNCHANGED running
     \/ GiveUp(t)
  /\ UNCHANGED <<threadVars, frameQueue, frame, pushed>>

\* while (running_)
CheckRunning(t) ==
  /\ pc[t] = "check"
  /\ Goto(t, IF running THEN "lock" ELSE "ending")
  /\ UNCHANGED <<threadVars, running, frameQueue, frame, pushed>>

\* opus_encoder_destroy or ReleaseEncoder, and the end of the thread.
Return(t) ==
  /\ pc[t] = "ending"
  /\ Goto(t, "exited")
  /\ UNCHANGED <<threadVars, running, frameQueue, frame, pushed>>

\* [mutant: the frame is read and stays at the front of the queue]
PeekFrame(t) ==
  /\ pc[t] = "lock"
  /\ IF frameQueue # << >>
     THEN /\ frame' = [frame EXCEPT ![t] = Head(frameQueue)]
          /\ Goto(t, "encode")
     ELSE Goto(t, "waiting") /\ UNCHANGED frame
  /\ UNCHANGED <<threadVars, running, frameQueue, pushed>>

\* The critical section: a frame is taken, or the thread waits; running_ is
\* not looked at again before the wait.
TakeFrame(t) ==
  /\ pc[t] = "lock"
  /\ IF frameQueue # << >>
     THEN /\ frame' = [frame EXCEPT ![t] = Head(frameQueue)]
          /\ frameQueue' = Tail(frameQueue)
          /\ Goto(t, "encode")
     ELSE Goto(t, "waiting") /\ UNCHANGED <<frame, frameQueue>>
  /\ UNCHANGED <<threadVars, running, pushed>>

\* cond_var_.wait may return for no reason.
WakeUp(t) ==
  /\ pc[t] = "waiting"
  /\ Goto(t, "check")
  /\ UNCHANGED <<threadVars, running, frameQueue, frame, pushed>>

\* The frame is encoded and pushed; or the Opus thread gives up on any error,
\* the x264 thread when its encoder cannot be set up for the new image size;
\* or an x264 error drops the frame; or x264 returns no data, and the empty
\* out_frame is pushed.
Encode(t) ==
  /\ pc[t] = "encode"
  /\ frame' = [frame EXCEPT ![t] = NoFrame]
  /\ \/ /\ pushed' = Append(pushed, frame[t])
        /\ Goto(t, "check") /\ UNCHANGED running
     \/ GiveUp(t) /\ UNCHANGED pushed
     \/ /\ kind = "x264"
        /\ pushed' \in {pushed, Append(pushed, NullFrame)}
        /\ Goto(t, "check") /\ UNCHANGED running
  /\ UNCHANGED <<threadVars, frameQueue>>

Encoder(t) ==
  InitEncoder(t) \/ CheckRunning(t) \/ TakeFrame(t) \/ Encode(t) \/ Return(t)

Next ==
  \/ Start \/ StopIgnored \/ StopClearsRunning \/ StopNotifies \/ StopJoins
  \/ OnNewMediaFrame
  \/ \E t \in Threads :
        InitEncoder(t) \/ CheckRunning(t) \/ TakeFrame(t) \/ WakeUp(t) \/ Encode(t)
          \/ Return(t)

Spec == Init /\ [][Next]_vars

\* Threads that can run do run.  Nobody promises a capture, a call of Start or
\* Stop, or a spurious wake-up.
Fairness ==
  /\ WF_vars(StopNotifies) /\ WF_vars(StopJoins)
  /\ \A t \in Threads : WF_vars(Encoder(t))

FairSpec == Spec /\ Fairness
-----------------------------------------------------------------------------
Live(t) == pc[t] \notin {"none", "exited"}

\* The thread works with members of the filter: its queue, its pins and, in the
\* x264 filter up to the end of the thread, its encoder.
UsesFilter(t) == Live(t) /\ ~(kind = "opus" /\ pc[t] = "ending")

\* The state is well typed.
TypeOK ==
  /\ kind \in Kinds
  /\ running \in BOOLEAN /\ quiet \in BOOLEAN
  /\ frameQueue \in Seq(1..MaxFrames)
  /\ pc \in [Threads -> {"none", "init", "check", "lock", "waiting", "encode", "ending",
                     "exited"}]
  /\ frame \in [Threads -> 0..MaxFrames]
  /\ starts \in 0..MaxStarts
  /\ encoderThread \in 0..starts
  /\ stop \in {"no", "notify", "join"}
  /\ captured \in 0..MaxFrames
  /\ pushed \in Seq(-1..MaxFrames)

\* The queue has one consumer, and the members of the filter one user: across
\* any number of Start, failure, Stop and Start again, at most one encoder thread
\* works with them.  Another Opus thread may be alive, with an encoder of its own
\* left to destroy; another x264 thread may not, since that one is a member.
OneConsumer == \A t, u \in Threads : UsesFilter(t) /\ UsesFilter(u) => t = u

\* Frames leave in the order they were captured, none twice, whatever failures
\* and restarts happened while they were queued.
FramesInOrder ==
  \A i, j \in DOMAIN pushed :
     i < j /\ pushed[i] # NullFrame /\ pushed[j] # NullFrame => pushed[i] < pushed[j]

\* Once Stop has returned nothing comes out of the filter until Start: what is
\* downstream of it may be torn down.
NoOutputAfterStop == [][quiet => pushed' = pushed]_vars

\* A frame is never left in the queue while an encoder thread sleeps on it.
QueueDrains ==
  (frameQueue # << >> /\ \E t \in Threads : Live(t))
     ~> (frameQueue = << >> \/ \A t \in Threads : ~Live(t))

\* "opus encoder thread join success", "X264EncoderFilter encode_thread join
\* success": a Stop that found the filter running joins the thread and returns.
StopReturns == (stop = "join") ~> (stop = "no")

\* "X264EncoderFilter already running": when Start finds running_ set and
\* answers that the filter runs, some thread is there to take the frames.
RunningHasThread == running => \E t \in Threads : Live(t)
=============================================================================
