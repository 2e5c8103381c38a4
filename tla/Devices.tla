------------------------------ MODULE Devices ------------------------------
(***************************************************************************)
(* device/cam_impl.cpp and device/mic_impl.cpp, and the api thread they    *)
(* share.  A camera does everything in tasks of the api thread, delivery   *)
(* of frames and changes of the consumer list included; a microphone       *)
(* changes and walks its list under a mutex, on any thread.                *)
(***************************************************************************)
EXTENDS Naturals, Sequences, SequencesExt

CONSTANTS
    Cameras, Mics,  \* device objects that may be created, each once
    MaxFrames       \* bound on captured frames

VARIABLES
    life,           \* of every object: "none", "alive", "dying", "dead"
    has_start,      \* has_start_ of the devices and previews
    consumer_list,  \* consumer_list_: the chains whose source listens
    apiQueue,       \* tasks of the api thread: <<operation, object>> or
                    \* <<operation, object, argument>>
    videoInit, audioInit,   \* set by the callbacks of the application
    frames,         \* number of frames captured
    crash           \* what freed object was used, or "no": the program's
                    \* behaviour after that is undefined, and not explored

deviceVars == <<life, has_start, consumer_list, apiQueue, videoInit, audioInit,
                frames, crash>>

Alive(o) == life[o] = "alive"

\* The application creates a device on the api thread and posts Start.
CreateDevices(devices) ==
    /\ life' = [o \in DOMAIN life |-> IF o \in devices THEN "alive" ELSE life[o]]
    /\ apiQueue' = apiQueue \o SetToSeq({<<"Start", d>> : d \in devices})

\* OnVideoSourceSuccess and OnAudioSourceSuccess of the application.
VideoSourceSuccess == videoInit' = TRUE

AudioSourceSuccess == audioInit' = TRUE

\* The task of Start.  Creating the capture, finding a capability or starting
\* it may fail.  A camera that runs says so and creates another capture.
StartCamera(cam) ==
    /\ \/ /\ has_start' = [has_start EXCEPT ![cam] = TRUE]
          /\ VideoSourceSuccess
       \/ UNCHANGED <<has_start, videoInit>>
    /\ UNCHANGED <<life, consumer_list, audioInit, frames, crash>>

\* A microphone that runs reports success and does nothing else.
StartMic(mic) ==
    /\ \/ /\ has_start' = [has_start EXCEPT ![mic] = TRUE]
          /\ AudioSourceSuccess
       \/ ~has_start[mic] /\ UNCHANGED <<has_start, audioInit>>
    /\ UNCHANGED <<life, consumer_list, videoInit, frames, crash>>

\* The tasks of Stop: capture stops with it.
StopCamera(cam) ==
    /\ has_start' = [has_start EXCEPT ![cam] = FALSE]
    /\ UNCHANGED <<life, consumer_list, videoInit, audioInit, frames, crash>>

StopMic(mic) ==
    /\ has_start' = [has_start EXCEPT ![mic] = FALSE]
    /\ UNCHANGED <<life, consumer_list, videoInit, audioInit, frames, crash>>

\* The task of Destroy: delete this.
DestroyDevice(d) ==
    /\ life' = [life EXCEPT ![d] = "dead"]
    /\ UNCHANGED <<has_start, consumer_list, videoInit, audioInit, frames, crash>>

\* std::vector::push_back, and erase of the first that is equal.
Added(d, c) == [consumer_list EXCEPT ![d] = Append(@, c)]

Removed(d, c) == [consumer_list EXCEPT ![d] = RemoveFirst(@, c)]

\* CamImpl::AddConsumer and RemoveConsumer post; MicImpl's act at once.
AddConsumerTask(cam, c) == <<"Add", cam, c>>

\* [mutant: RemoveConsumerTask] The task takes the camera for its consumer.
RemoveConsumerTaskLost(cam, c) == <<"Remove", cam, cam>>

RemoveConsumerTask(cam, c) == <<"Remove", cam, c>>

ChangeConsumers(task) ==
    /\ consumer_list' = IF task[1] = "Add" THEN Added(task[2], task[3])
                                           ELSE Removed(task[2], task[3])
    /\ UNCHANGED <<life, has_start, videoInit, audioInit, frames, crash>>

\* CamImpl::OnFrame, on the capture thread, posts the delivery.
CaptureVideo(cam) ==
    /\ has_start[cam]
    /\ frames < MaxFrames
    /\ frames' = frames + 1
    /\ apiQueue' = Append(apiQueue, <<"Frame", cam>>)
    /\ UNCHANGED <<life, has_start, consumer_list, videoInit, audioInit, crash>>

Listeners(d) == ToSet(consumer_list[d])
============================================================================
