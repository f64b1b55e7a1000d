\* The parts with a duty to end, with fairness.
CONSTANTS
    Parts = {"relay", "quiet"}
    Pieces = 2
    Window = 2
    PadsFrames = FALSE
    MaxChunks = 1
    SocketBuffer = 0
    InitialData = FALSE
    EagerTimeouts = TRUE
    CanLose = TRUE
    AppBehaviours <- SoundApps
    OtherClientFrames = {}
    OtherServerFrames = {}
SPECIFICATION FlowFairSpec
PROPERTIES FlowsEnd
