---------------------------- MODULE PushSession ----------------------------
(***************************************************************************)
(* One application (examples/windows/src/basic_form.cpp) that opens and    *)
(* closes devices, previews the camera and pushes to a server: pusher and  *)
(* push stream, the media sink and its signalling, the preview and its     *)
(* renderer, the life of the peer connection.  The api, worker, network,   *)
(* http, capture and encoder threads each take their own steps.            *)
(***************************************************************************)
EXTENDS Devices, HttpManager, FiniteSets

CONSTANTS
    Pushers, Previews,  \* objects that may be created, each once
    None,               \* nullptr
    MaxClicks,          \* bound on clicks of the user
    MaxIce              \* bound on ICE signals

\* Objects of different classes differ, and none is the null pointer.
ASSUME SessionAssumption ==
    /\ IsFiniteSet(Previews)
    /\ Pushers \cap (Previews \cup Cameras \cup Mics) = {}
    /\ Previews \cap (Cameras \cup Mics) = {}
    /\ Cameras \cap Mics = {}
    /\ None \notin Cameras \cup Mics \cup Pushers \cup Previews
    /\ MaxFrames \in Nat

\* The reply to the answer changes nothing, whatever it says: it is only logged.
ASSUME OutcomesAssumption == Outcomes["answer"] \cap {"error", "accepted"} = {}

VARIABLES
    form,       \* handles of the application: cam, mic, preview, pusher
    clicks, iceSignals,
    source,     \* audio_source_ and video_source_ of pushers and previews
    apiAt,      \* where the api thread waits inside a task, or <<>>
    workerAt,   \* where the worker thread waits inside a task, or <<>>
    chained,    \* pushers whose media_chain_ is there
    encoderQueue,   \* frames in the encoder filters of a chain
    networkQueue,   \* tasks of the network thread
    pc,         \* peer connections: state, streams, whether ICE gathers
    device_up,  \* previews whose sink holds its Direct3D objects
    outcomes,   \* history: what the observer was told of a push
    handled     \* history: replies delivered, in order

sessionVars == <<form, clicks, iceSignals, source, apiAt, workerAt, chained,
                 encoderQueue, networkQueue, pc, device_up, outcomes, handled>>

vars == <<deviceVars, httpVars, sessionVars>>

Objects == Cameras \cup Mics \cup Pushers \cup Previews

Init ==
    /\ life = [o \in Objects |-> "none"]
    /\ has_start = [o \in Cameras \cup Mics \cup Previews |-> FALSE]
    /\ consumer_list = [d \in Cameras \cup Mics |-> <<>>]
    /\ apiQueue = <<>>
    /\ videoInit = FALSE /\ audioInit = FALSE
    /\ frames = 0
    /\ crash = "no"
    /\ HttpInit
    /\ form = [cam |-> None, mic |-> None, preview |-> None, pusher |-> None]
    /\ clicks = 0 /\ iceSignals = 0
    /\ source = [o \in Pushers \cup Previews |-> [cam |-> None, mic |-> None]]
    /\ apiAt = <<>> /\ workerAt = <<>>
    /\ chained = {}
    /\ encoderQueue = [p \in Pushers |-> 0]
    /\ networkQueue = <<>>
    /\ pc = [p \in Pushers |-> [state |-> "new", streams |-> FALSE, gathering |-> FALSE]]
    /\ device_up = {}
    /\ outcomes = [p \in Pushers |-> <<>>]
    /\ handled = <<>>

(***************************************************************************)
(* The application.  A Create call is an Invoke on the api thread: the UI  *)
(* waits until the tasks before it are done, and those that arrive         *)
(* meanwhile commute with what it does next.                               *)
(***************************************************************************)
Click ==
    /\ crash = "no"
    /\ clicks < MaxClicks
    /\ clicks' = clicks + 1

ApiIdle == apiQueue = <<>> /\ apiAt = <<>>

\* OnBtnDeviceStartClick while a device is not up.
ClickStartDevices ==
    /\ Click
    /\ ~audioInit \/ ~videoInit
    /\ ApiIdle
    /\ \E cam \in Cameras \cup {form.cam}, mic \in Mics \cup {form.mic} :
        /\ IF videoInit THEN cam = form.cam ELSE cam # None /\ life[cam] = "none"
        /\ IF audioInit THEN mic = form.mic ELSE mic # None /\ life[mic] = "none"
        /\ form' = [form EXCEPT !.cam = cam, !.mic = mic]
        /\ CreateDevices({cam, mic} \ {form.cam, form.mic})
    /\ UNCHANGED <<has_start, consumer_list, videoInit, audioInit, frames, crash,
                   httpVars, iceSignals, source, apiAt, workerAt, chained,
                   encoderQueue, networkQueue, pc, device_up, outcomes, handled>>

\* OnBtnDeviceStartClick when both are: Stop and Destroy of each.
ClickStopDevices ==
    /\ Click
    /\ audioInit /\ videoInit
    /\ apiQueue' = apiQueue \o << <<"Stop", form.cam>>, <<"Destroy", form.cam>>,
                                  <<"Stop", form.mic>>, <<"Destroy", form.mic>> >>
    /\ form' = [form EXCEPT !.cam = None, !.mic = None]
    /\ videoInit' = FALSE /\ audioInit' = FALSE
    /\ UNCHANGED <<life, has_start, consumer_list, frames, crash, httpVars,
                   iceSignals, source, apiAt, workerAt, chained, encoderQueue,
                   networkQueue, pc, device_up, outcomes, handled>>

\* XRTCEngine::CreatePusher and CreatePreview, then StartPush or Start.
Create(o, handle) ==
    /\ ApiIdle
    /\ life[o] = "none"
    /\ life' = [life EXCEPT ![o] = "alive"]
    /\ source' = [source EXCEPT ![o] = [cam |-> form.cam, mic |-> form.mic]]
    /\ form' = [form EXCEPT ![handle] = o]
    /\ apiQueue' = <<<<"Start", o>>>>
    /\ UNCHANGED <<has_start, consumer_list, videoInit, audioInit, frames, crash,
                   httpVars, iceSignals, apiAt, workerAt, chained, encoderQueue,
                   networkQueue, pc, device_up, outcomes, handled>>

\* OnBtnPreviewClick and OnBtnPushClick without an object.
ClickPreview(v) ==
    /\ Click
    /\ form.preview = None
    /\ form.cam # None
    /\ Create(v, "preview")

ClickPush(p) ==
    /\ Click
    /\ form.pusher = None
    /\ form.cam # None \/ form.mic # None
    /\ Create(p, "pusher")

\* The same buttons with one: Stop, then Destroy, without waiting.
ClickRelease(handle) ==
    /\ Click
    /\ form[handle] # None
    /\ apiQueue' = apiQueue \o << <<"Stop", form[handle]>>, <<"Destroy", form[handle]>> >>
    /\ form' = [form EXCEPT ![handle] = None]
    /\ UNCHANGED <<life, has_start, consumer_list, videoInit, audioInit, frames,
                   crash, httpVars, iceSignals, source, apiAt, workerAt, chained,
                   encoderQueue, networkQueue, pc, device_up, outcomes, handled>>

(***************************************************************************)
(* The api thread.                                                         *)
(***************************************************************************)
ApiTask(op) ==
    /\ crash = "no"
    /\ apiAt = <<>>
    /\ apiQueue # <<>>
    /\ Head(apiQueue)[1] = op

Subject == Head(apiQueue)[2]

\* A freed object is used: the end of what the model says.
Crash(what) ==
    /\ crash' = what
    /\ UNCHANGED <<life, has_start, consumer_list, apiQueue, videoInit, audioInit,
                   frames, httpVars, sessionVars>>

\* Formats of the pins, and InPin::Accept.
Format(type, sub) == [type |-> type, sub |-> sub]

Pcm == Format("audio", "pcm")
Opus == Format("audio", "opus")
I420 == Format("video", "i420")
H264 == Format("video", "h264")

Accepts(in, out) == out.type = in.type /\ out.sub = in.sub

\* MediaChain::ConnectMediaObject: every output finds an input.
Connects(outs, ins) == \A out \in outs : \E in \in ins : Accepts(in, out)

SinkPins == {Opus, H264}

PushConnects(p) ==
    /\ source[p].mic # None =>
        Connects({Pcm}, {Pcm}) /\ Connects({Opus}, SinkPins)
    /\ source[p].cam # None =>
        Connects({I420}, {I420}) /\ Connects({H264}, SinkPins)

Told(p, what) == [outcomes EXCEPT ![p] = Append(@, what)]

\* [mutant: StartPush] The sink announces itself only after the request.
StartPushUnannounced(p) ==
    /\ ApiTask("Start") /\ Subject = p
    /\ chained' = chained \cup {p}
    /\ apiAt' = <<"post", p>>
    /\ apiQueue' = Tail(apiQueue)
    /\ UNCHANGED <<life, has_start, consumer_list, videoInit, audioInit, frames,
                   crash, httpVars, form, clicks, iceSignals, source, workerAt,
                   encoderQueue, networkQueue, pc, device_up, outcomes, handled>>

\* The constructor of XRTCPushStream makes a sink, which announces itself.
CreateChain(p) ==
    /\ chained' = chained \cup {p}
    /\ workerQueue' = Append(workerQueue, AddObjectTask(p))

\* XRTCMediaSink::Start refuses a url without a push action and its names.
StartSink(p) ==
    \/ apiAt' = <<"post", p>> /\ UNCHANGED outcomes
    \/ outcomes' = Told(p, "chain start") /\ UNCHANGED apiAt

\* XRTCPushStream::Start: listens to the sources, connects and starts.
StartStream(p) ==
    LET s == source[p] IN
    /\ consumer_list' = IF s.mic = None THEN consumer_list ELSE Added(s.mic, p)
    /\ apiQueue' = IF s.cam = None THEN Tail(apiQueue)
                   ELSE Append(Tail(apiQueue), AddConsumerTask(s.cam, p))
    /\ IF PushConnects(p) THEN StartSink(p)
       ELSE outcomes' = Told(p, "chain connect") /\ UNCHANGED apiAt

\* XRTCPusher::StartPush: a url that is none, one of another protocol, and
\* one that makes a chain.
StartPush(p) ==
    /\ ApiTask("Start") /\ Subject = p
    /\ \/ /\ outcomes' = Told(p, "invalid url")
          /\ apiQueue' = Tail(apiQueue)
          /\ UNCHANGED <<workerQueue, consumer_list, chained, apiAt>>
       \/ /\ apiQueue' = Tail(apiQueue)
          /\ UNCHANGED <<outcomes, workerQueue, consumer_list, chained, apiAt>>
       \/ CreateChain(p) /\ StartStream(p)
    /\ UNCHANGED <<life, has_start, videoInit, audioInit, frames, crash, mutex,
                   transfers, messages, request_list, reading, async_objs, form,
                   clicks, iceSignals, source, workerAt, encoderQueue,
                   networkQueue, pc, device_up, handled>>

\* HttpManager::Post on the api thread, for the offer.
PostOffer(p) ==
    /\ \/ apiAt = <<"post", p>> /\ AddHandle("api", <<p, "offer">>)
          /\ apiAt' = <<"posted", p>>
       \/ apiAt = <<"posted", p>> /\ Remember(<<p, "offer">>) /\ apiAt' = <<>>
    /\ crash = "no"
    /\ UNCHANGED <<deviceVars, form, clicks, iceSignals, source, workerAt, chained,
                   encoderQueue, networkQueue, pc, device_up, outcomes, handled>>

\* [mutant: StopPush] The microphone's list changes in a task as well.
StopPushPosted(p) ==
    /\ ApiTask("Stop") /\ Subject = p
    /\ LET s == source[p] IN
       apiQueue' = IF p \in chained /\ s.mic # None
                   THEN Append(Tail(apiQueue), RemoveConsumerTask(s.mic, p))
                   ELSE Tail(apiQueue)
    /\ UNCHANGED <<life, has_start, consumer_list, videoInit, audioInit, frames,
                   crash, httpVars, sessionVars>>

\* XRTCPushStream::Stop takes the sources out of the consumer lists; nothing
\* else stops.  Its comment says that it crashes when a device is gone.
StopPush(p) ==
    /\ ApiTask("Stop") /\ Subject = p
    /\ LET s == source[p] IN
       IF p \in chained /\ \E d \in {s.mic, s.cam} \ {None} : ~Alive(d)
       THEN Crash("device")
       ELSE
        /\ consumer_list' = IF p \in chained /\ s.mic # None
                            THEN Removed(s.mic, p) ELSE consumer_list
        /\ apiQueue' = IF p \in chained /\ s.cam # None
                       THEN Append(Tail(apiQueue), RemoveConsumerTask(s.cam, p))
                       ELSE Tail(apiQueue)
        /\ UNCHANGED <<life, has_start, videoInit, audioInit, frames, crash,
                       httpVars, sessionVars>>

\* The destructors of the sink, which withdraws itself, and of the peer
\* connection, which waits for the network thread to delete the streams.
WithdrawSink(p) == workerQueue' = Append(workerQueue, RemoveObjectTask(p))

DeleteStreams(p) ==
    /\ networkQueue' = Append(networkQueue, <<"delete", p>>)
    /\ apiAt' = <<"destroy", p>>

\* delete this, with the chain.
DestroyPusher(p) ==
    /\ ApiTask("Destroy") /\ Subject = p
    /\ apiQueue' = Tail(apiQueue)
    /\ IF p \in chained
       THEN /\ life' = [life EXCEPT ![p] = "dying"]
            /\ WithdrawSink(p)
            /\ DeleteStreams(p)
       ELSE /\ life' = [life EXCEPT ![p] = "dead"]
            /\ UNCHANGED <<workerQueue, networkQueue, apiAt>>
    /\ UNCHANGED <<has_start, consumer_list, videoInit, audioInit, frames, crash,
                   mutex, transfers, messages, request_list, reading, async_objs,
                   form, clicks, iceSignals, source, workerAt, chained,
                   encoderQueue, pc, device_up, outcomes, handled>>

\* [mutant: FinishDestroy] The streams are left to the network thread.
FinishDestroyEarly(p) ==
    /\ crash = "no"
    /\ apiAt \in {<<"destroy", p>>, <<"destroyed", p>>}
    /\ apiAt' = <<>>
    /\ life' = [life EXCEPT ![p] = "dead"]
    /\ UNCHANGED <<has_start, consumer_list, apiQueue, videoInit, audioInit, frames,
                   crash, httpVars, form, clicks, iceSignals, source, workerAt,
                   chained, encoderQueue, networkQueue, pc, device_up, outcomes,
                   handled>>

FinishDestroy(p) ==
    /\ crash = "no"
    /\ apiAt = <<"destroyed", p>>
    /\ apiAt' = <<>>
    /\ life' = [life EXCEPT ![p] = "dead"]
    /\ UNCHANGED <<has_start, consumer_list, apiQueue, videoInit, audioInit, frames,
                   crash, httpVars, form, clicks, iceSignals, source, workerAt,
                   chained, encoderQueue, networkQueue, pc, device_up, outcomes,
                   handled>>

\* XRTCPreview::Start, Stop and Destroy.
StartPreview(v) ==
    /\ ApiTask("Start") /\ Subject = v
    /\ has_start' = [has_start EXCEPT ![v] = TRUE]
    /\ apiQueue' = IF has_start[v] THEN Tail(apiQueue)
                   ELSE Append(Tail(apiQueue), AddConsumerTask(source[v].cam, v))
    /\ UNCHANGED <<life, consumer_list, videoInit, audioInit, frames, crash,
                   httpVars, sessionVars>>

\* D3D9RenderSink::Stop gives up what TryInit made.
Release(v) == device_up' = device_up \ {v}

StopPreview(v) ==
    /\ ApiTask("Stop") /\ Subject = v
    /\ IF has_start[v] /\ ~Alive(source[v].cam)
       THEN Crash("device")
       ELSE /\ has_start' = [has_start EXCEPT ![v] = FALSE]
            /\ apiQueue' = IF has_start[v]
                           THEN Append(Tail(apiQueue), RemoveConsumerTask(source[v].cam, v))
                           ELSE Tail(apiQueue)
            /\ IF has_start[v] THEN Release(v) ELSE UNCHANGED device_up
            /\ UNCHANGED <<life, consumer_list, videoInit, audioInit, frames, crash,
                           httpVars, form, clicks, iceSignals, source, apiAt,
                           workerAt, chained, encoderQueue, networkQueue, pc,
                           outcomes, handled>>

DestroyPreview(v) ==
    /\ ApiTask("Destroy") /\ Subject = v
    /\ apiQueue' = Tail(apiQueue)
    /\ life' = [life EXCEPT ![v] = "dead"]
    /\ UNCHANGED <<has_start, consumer_list, videoInit, audioInit, frames, crash,
                   httpVars, sessionVars>>

\* The tasks of the devices; one on a device that is gone uses freed memory.
DeviceTask ==
    /\ crash = "no"
    /\ apiAt = <<>>
    /\ apiQueue # <<>>
    /\ Subject \in Cameras \cup Mics
    /\ Head(apiQueue)[1] # "Frame"
    /\ IF ~Alive(Subject) THEN Crash("device") ELSE
        /\ \/ ApiTask("Start") /\ Subject \in Cameras /\ StartCamera(Subject)
           \/ ApiTask("Start") /\ Subject \in Mics /\ StartMic(Subject)
           \/ ApiTask("Stop") /\ Subject \in Cameras /\ StopCamera(Subject)
           \/ ApiTask("Stop") /\ Subject \in Mics /\ StopMic(Subject)
           \/ ApiTask("Destroy") /\ DestroyDevice(Subject)
           \/ Head(apiQueue)[1] \in {"Add", "Remove"} /\ ChangeConsumers(Head(apiQueue))
        /\ apiQueue' = Tail(apiQueue)
        /\ UNCHANGED <<httpVars, sessionVars>>

\* A frame reaches every consumer of the list: encoders, or the renderer.
Dangling(d) == \E o \in Listeners(d) : life[o] = "dead"

Deliver(d) ==
    /\ ~Dangling(d)
    /\ encoderQueue' = [p \in Pushers |->
                          encoderQueue[p] + (IF p \in Listeners(d) THEN 1 ELSE 0)]
    /\ workerQueue' = workerQueue \o
        SetToSeq({[op |-> "Render", obj |-> v] : v \in Listeners(d) \cap Previews})
    /\ UNCHANGED <<life, has_start, consumer_list, videoInit, audioInit, crash,
                   mutex, transfers, messages, request_list, reading, async_objs,
                   form, clicks, iceSignals, source, apiAt, workerAt, chained,
                   networkQueue, pc, device_up, outcomes, handled>>

DeliverVideo ==
    /\ ApiTask("Frame")
    /\ \/ ~Alive(Subject) /\ Crash("device")
       \/ Alive(Subject) /\ Dangling(Subject) /\ Crash("consumer")
       \/ Alive(Subject) /\ Deliver(Subject) /\ apiQueue' = Tail(apiQueue)
          /\ UNCHANGED frames

\* MicImpl::RecordedDataIsAvailable: the capture thread walks the list itself.
CaptureAudio(mic) ==
    /\ crash = "no"
    /\ has_start[mic]
    /\ frames < MaxFrames
    /\ \/ Dangling(mic) /\ Crash("consumer")
       \/ Deliver(mic) /\ frames' = frames + 1 /\ UNCHANGED apiQueue

CaptureCamera(cam) ==
    /\ crash = "no"
    /\ CaptureVideo(cam)
    /\ UNCHANGED <<httpVars, sessionVars>>

(***************************************************************************)
(* The encoder threads, which nothing stops, and the network thread.       *)
(***************************************************************************)
Encode(p) ==
    /\ crash = "no"
    /\ encoderQueue[p] > 0
    /\ IF life[p] = "dead" THEN Crash("encoder") ELSE
        /\ encoderQueue' = [encoderQueue EXCEPT ![p] = @ - 1]
        /\ networkQueue' = Append(networkQueue, <<"frame", p>>)
        /\ UNCHANGED <<deviceVars, httpVars, form, clicks, iceSignals, source, apiAt,
                       workerAt, chained, pc, device_up, outcomes, handled>>

\* A frame is sent if the connection is up; the streams are made for the
\* worker thread and deleted for the api thread, both of which wait.
NetworkTask ==
    /\ crash = "no"
    /\ networkQueue # <<>>
    /\ LET op == Head(networkQueue)[1]
           p == Head(networkQueue)[2]
       IN  IF op = "frame" /\ life[p] = "dead" THEN Crash("frame") ELSE
            /\ networkQueue' = Tail(networkQueue)
            /\ pc' = IF op = "frame" THEN pc
                     ELSE [pc EXCEPT ![p].streams = (op = "create")]
            /\ workerAt' = IF op = "create" THEN <<"created", p>> ELSE workerAt
            /\ apiAt' = IF op = "delete" THEN <<"destroyed", p>> ELSE apiAt
            /\ UNCHANGED <<deviceVars, httpVars, form, clicks, iceSignals, source,
                           chained, encoderQueue, device_up, outcomes, handled>>

\* PeerConnection::OnIceState and XRTCMediaSink::OnConnectionState.
IceState(p, state) ==
    /\ crash = "no"
    /\ iceSignals < MaxIce
    /\ pc[p].gathering
    /\ life[p] # "dead"
    /\ state # pc[p].state
    /\ iceSignals' = iceSignals + 1
    /\ pc' = [pc EXCEPT ![p].state = state]
    /\ outcomes' = CASE state = "connected" -> Told(p, "success")
                     [] state = "failed" -> Told(p, "ice")
                     [] OTHER -> outcomes
    /\ UNCHANGED <<deviceVars, httpVars, form, clicks, source, apiAt, workerAt,
                   chained, encoderQueue, networkQueue, device_up, handled>>

(***************************************************************************)
(* The worker thread.                                                      *)
(***************************************************************************)
WorkerTask(op) ==
    /\ crash = "no"
    /\ workerAt = <<>>
    /\ workerQueue # <<>>
    /\ Head(workerQueue).op = op

WorkerChangesObjects ==
    /\ crash = "no"
    /\ workerAt = <<>>
    /\ ChangeObjects
    /\ UNCHANGED <<deviceVars, sessionVars>>

\* [mutant: HandleReply] CreateAnswer lets ICE begin before the streams.
HandleReplyEarlyIce(task) ==
    LET p == task.obj IN
    /\ handled' = Append(handled, task.request)
    /\ outcomes' = outcomes
    /\ pc' = [pc EXCEPT ![p].gathering = TRUE]
    /\ workerAt' = <<"create", p>>
    /\ networkQueue' = Append(networkQueue, <<"create", p>>)

\* [mutant: HandleReply] An error is reported, and the handler goes on.
HandleReplyNoReturn(task) ==
    LET p == task.obj IN
    /\ handled' = Append(handled, task.request)
    /\ outcomes' = IF task.outcome = "error" THEN Told(p, "offer") ELSE outcomes
    /\ IF task.request[2] = "offer"
       THEN workerAt' = <<"create", p>>
            /\ networkQueue' = Append(networkQueue, <<"create", p>>)
       ELSE UNCHANGED <<workerAt, networkQueue>>
    /\ UNCHANGED pc

\* ParseReply wants status 200, JSON, errNo 0 and an SDP.
ParseReply(task) == task.outcome # "error"

\* CreateAnswer asks the network thread for the streams, and waits.
CreateStreams(p) ==
    /\ workerAt' = <<"create", p>>
    /\ networkQueue' = Append(networkQueue, <<"create", p>>)

\* The offer's reply: an error, an SDP that is refused without a word to
\* anyone, or one that is answered.  The answer's reply changes nothing.
HandleReply(task) ==
    LET p == task.obj IN
    /\ handled' = Append(handled, task.request)
    /\ outcomes' = IF ParseReply(task) THEN outcomes ELSE Told(p, "offer")
    /\ IF task.outcome = "accepted" THEN CreateStreams(p)
                                    ELSE UNCHANGED <<workerAt, networkQueue>>
    /\ UNCHANGED pc

DeliverReply ==
    /\ WorkerTask("Reply")
    /\ LET task == Head(workerQueue) IN
       \/ task.obj \in async_objs /\ ~Alive(task.obj) /\ Crash("reply")
       \/ /\ task.obj \in async_objs => Alive(task.obj)
          /\ IF task.obj \in async_objs THEN HandleReply(task)
             ELSE UNCHANGED <<handled, outcomes, workerAt, networkQueue, pc>>
          /\ workerQueue' = Tail(workerQueue)
          /\ UNCHANGED <<deviceVars, mutex, transfers, messages, request_list,
                         reading, async_objs, form, clicks, iceSignals, source,
                         apiAt, chained, encoderQueue, device_up>>

\* [mutant: SendAnswer] The answer is sent again, as if it had been lost.
SendAnswerAgain(p) ==
    /\ crash = "no"
    /\ \/ workerAt = <<"created", p>> /\ ~Alive(p) /\ Crash("reply")
       \/ /\ \/ /\ workerAt = <<"created", p>> /\ Alive(p)
                /\ AddHandle("worker", <<p, "answer">>)
                /\ workerAt' = <<"posted", p>>
                /\ pc' = [pc EXCEPT ![p].gathering = TRUE]
             \/ /\ workerAt = <<"posted", p>>
                /\ Remember(<<p, "answer">>)
                /\ workerAt' \in {<<>>, <<"created", p>>}
                /\ UNCHANGED pc
          /\ UNCHANGED <<deviceVars, form, clicks, iceSignals, source, apiAt, chained,
                         encoderQueue, networkQueue, device_up, outcomes, handled>>

\* The handler goes on when the streams are there: CreateAnswer ends with
\* SetLocalSDP, which starts ICE, and SendAnswer posts the second request.
SendAnswer(p) ==
    /\ crash = "no"
    /\ \/ workerAt = <<"created", p>> /\ ~Alive(p) /\ Crash("reply")
       \/ /\ \/ /\ workerAt = <<"created", p>> /\ Alive(p)
                /\ AddHandle("worker", <<p, "answer">>)
                /\ workerAt' = <<"posted", p>>
                /\ pc' = [pc EXCEPT ![p].gathering = TRUE]
             \/ /\ workerAt = <<"posted", p>>
                /\ Remember(<<p, "answer">>)
                /\ workerAt' = <<>>
                /\ UNCHANGED pc
          /\ UNCHANGED <<deviceVars, form, clicks, iceSignals, source, apiAt, chained,
                         encoderQueue, networkQueue, device_up, outcomes, handled>>

\* D3D9RenderSink::TryInit creates what is missing, and may fail.
TryInit(v) == device_up' \in {device_up, device_up \cup {v}}

\* The task of D3D9RenderSink::OnNewMediaFrame.
Render ==
    /\ WorkerTask("Render")
    /\ LET v == Head(workerQueue).obj IN
       \/ life[v] = "dead" /\ Crash("render")
       \/ /\ life[v] # "dead"
          /\ TryInit(v)
          /\ workerQueue' = Tail(workerQueue)
          /\ UNCHANGED <<deviceVars, mutex, transfers, messages, request_list,
                         reading, async_objs, form, clicks, iceSignals, source,
                         apiAt, workerAt, chained, encoderQueue, networkQueue, pc,
                         outcomes, handled>>

HttpThread ==
    /\ crash = "no"
    /\ HttpNext
    /\ UNCHANGED <<deviceVars, sessionVars>>

ApiThread ==
    \/ \E p \in Pushers : StartPush(p) \/ PostOffer(p) \/ StopPush(p)
                          \/ DestroyPusher(p) \/ FinishDestroy(p)
    \/ \E v \in Previews : StartPreview(v) \/ StopPreview(v) \/ DestroyPreview(v)
    \/ DeviceTask
    \/ DeliverVideo

WorkerThread ==
    \/ WorkerChangesObjects
    \/ DeliverReply
    \/ \E p \in Pushers : SendAnswer(p)
    \/ Render

Application ==
    \/ ClickStartDevices
    \/ ClickStopDevices
    \/ \E p \in Pushers : ClickPush(p)
    \/ \E v \in Previews : ClickPreview(v)
    \/ \E handle \in {"pusher", "preview"} : ClickRelease(handle)

IceStates == {"connecting", "connected", "disconnected", "failed"}

Next ==
    \/ Application
    \/ ApiThread
    \/ WorkerThread
    \/ NetworkTask
    \/ HttpThread
    \/ \E mic \in Mics : CaptureAudio(mic)
    \/ \E cam \in Cameras : CaptureCamera(cam)
    \/ \E p \in Pushers : Encode(p)
    \/ \E p \in Pushers, state \in IceStates : IceState(p, state)

\* Threads that run their tasks; curl ends every transfer, by its timeouts.
Fairness ==
    /\ WF_vars(ApiThread)
    /\ WF_vars(WorkerThread)
    /\ WF_vars(NetworkTask)
    /\ WF_vars(HttpThread)

Spec == Init /\ [][Next]_vars /\ Fairness

-----------------------------------------------------------------------------

\* The types of what the objects share, lists and queues that name only what
\* may be in them, and streams only where there is a push.
TypeOK ==
    /\ life \in [Objects -> {"none", "alive", "dying", "dead"}]
    /\ consumer_list \in [Cameras \cup Mics -> Seq(Pushers \cup Previews)]
    /\ encoderQueue \in [Pushers -> 0..MaxFrames]
    /\ \A p \in Pushers :
        /\ pc[p].state \in IceStates \cup {"new"}
        /\ pc[p].streams => life[p] \in {"alive", "dying"}
    /\ {task[2] : task \in ToSet(apiQueue)} \subseteq Objects
    /\ crash \in {"no", "device", "consumer", "encoder", "frame", "reply", "render"}
    /\ mutex \in {Nobody, "api", "worker"}

\* The microphone never calls a chain that is gone: StopPush takes the chain
\* out of its list before Destroy's task runs.
MicConsumersAlive ==
    \A mic \in Mics : \A o \in Listeners(mic) : Alive(o)

\* A chain or preview that is gone is in the camera's list only as long as
\* its removal is on its way, behind its addition.
UnlinkedAfterStop ==
    \A cam \in Cameras, o \in Pushers \cup Previews :
        life[o] \in {"dying", "dead"} =>
            LET Pending(task) == {i \in DOMAIN apiQueue : apiQueue[i] = task}
                removals == Pending(RemoveConsumerTask(cam, o))
            IN  /\ o \in Listeners(cam) /\ Alive(cam) => removals # {}
                /\ \A i \in Pending(AddConsumerTask(cam, o)) : \E j \in removals : i < j

\* A reply on its way to a sink that lives finds it in async_objs_.
LiveRepliesFound ==
    \A i \in DOMAIN workerQueue :
        LET task == workerQueue[i] IN
        task.op = "Reply" /\ Alive(task.obj) =>
            \/ task.obj \in async_objs
            \/ \E j \in 1..(i - 1) : workerQueue[j] = AddObjectTask(task.obj)

\* A sink that is gone stays in async_objs_, where replies still find it, only
\* until the task its destructor posted has run.
DeadObjectsLeave ==
    \A p \in Pushers :
        life[p] \in {"dying", "dead"} =>
            LET Pending(task) == {i \in DOMAIN workerQueue : workerQueue[i] = task}
                removals == Pending(RemoveObjectTask(p))
            IN  /\ p \in async_objs => removals # {}
                /\ \A i \in Pending(AddObjectTask(p)) : \E j \in removals : i < j

\* No connection is up before the network thread has its streams.
StreamsBeforeMedia ==
    \A p \in Pushers : Alive(p) /\ pc[p].state = "connected" => pc[p].streams

\* What ends an attempt before ICE ends it for good: the application is told
\* once, and never of a success afterwards.
FailureIsFinal ==
    \A p \in Pushers :
        ToSet(outcomes[p]) \cap {"invalid url", "chain connect", "chain start", "offer"} # {}
            => Len(outcomes[p]) = 1

Answers(r) == {i \in DOMAIN handled : handled[i] = r}

\* No request is answered twice, though transfers of a push that is gone end
\* beside those of the next one and the loop reads one of them in a round.
AnsweredOnce == \A r \in Requests : Cardinality(Answers(r)) <= 1

\* Every request of a sink that stays is answered, once, whatever else is in
\* flight; a transfer that ends before Post has put it into request_list_, or
\* together with one of an earlier push, is not forgotten.
EveryRequestAnswered ==
    /\ []AnsweredOnce
    /\ \A r \in Requests :
          r \in request_list ~> Answers(r) # {} \/ ~Alive(Owner(r)) \/ crash # "no"
=============================================================================
