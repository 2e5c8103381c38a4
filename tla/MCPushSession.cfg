CONSTANTS
    cam = cam
    mic = mic
    p1 = p1
    p2 = p2
    Second = p2
    v1 = v1
    None = None
    Nobody = "nobody"
    Cameras = {cam}
    Mics = {mic}
    Pushers = {p1, p2}
    Previews = {v1}
    MaxClicks = 4
    MaxFrames = 1
    MaxIce = 1
    Requests <- AllRequests
    Outcomes <- AllOutcomes
SPECIFICATION MCSpec
INVARIANTS
    TypeOK
    MicConsumersAlive
    UnlinkedAfterStop
    LiveRepliesFound
    DeadObjectsLeave
    StreamsBeforeMedia
    FailureIsFinal
PROPERTY EveryRequestAnswered
CHECK_DEADLOCK FALSE
