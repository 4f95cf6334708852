CONSTANTS
    Threads = {th1, th2}
    Handles = {s1}
    FrameOrder <- BothServers
    ReplyLens <- BothReplyLens
    Lengths = {2}
    MaxAsked = 2
    None = None
    Lobby = Lobby
    Fileshare = Fileshare
SPECIFICATION FairSpec
INVARIANTS
    MapsAreFresh
    EveryPacketOnce
    ReadinessHolds
PROPERTIES
    ImplementsRequestReply
    EveryPacketAnswered
    ShutdownCompletes
CHECK_DEADLOCK FALSE
