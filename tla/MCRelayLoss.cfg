\* A QUIC connection that is lost while an endpoint may stop reading.
CONSTANTS
    Parts = {"quic_loss"}
    Pieces = 2
    Window = 2
    PadsFrames = FALSE
    MaxChunks = 1
    SocketBuffer = 0
    InitialData = FALSE
    EagerTimeouts = TRUE
    CanLose = TRUE
    AppBehaviours <- SoundApps
    OtherClientFrames = {}
    OtherServerFrames = {}
SPECIFICATION LossSpec
PROPERTIES TransportLossIsSeen
