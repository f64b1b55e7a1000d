\* Every part.
CONSTANTS
    Parts = {"relay", "quiet", "foreign", "quic", "ws", "sender", "server_sender", "reader", "capture", "codec", "handshake", "noise_frames"}
    Pieces = 2
    Window = 2
    PadsFrames = FALSE
    MaxChunks = 1
    SocketBuffer = 1
    InitialData = FALSE
    EagerTimeouts = TRUE
    CanLose = TRUE
    AppBehaviours <- AnyApps
    OtherClientFrames = {}
    OtherServerFrames = {}
SPECIFICATION RelaySpec
INVARIANTS FlowIsFaithful CarriersDeliver WireIsFaithful
PROPERTIES ImplementsDuplexPipe
