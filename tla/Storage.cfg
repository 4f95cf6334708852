SPECIFICATION MCSpec
CONSTANTS
    None = None
    Uploads = {film, other}
    Category <- MCCategory
    MaxParts = 1
    MaxClock = 2
    ObjectNames = {save, settings}
    Profile = profile
    Contents = {old, new, nothing}
    Empty = nothing
    MaxBatch = 2
    Threads = {t1, t2}
    Sockets = {s}
    HostNames = {"lobby", "web", "ads"}
    TcpNames = {"lobby"}
    UdpNames = {"stun"}
    blocked_hosts = {"ads"}
    Hash <- MCHash
    Blocks = {1, 2, 3}
SYMMETRY MCSymmetry
INVARIANTS
    DownloadIsUpload
    UploadIsOffered
    ResponsesAreTrue
    ResolverIsTrue
CHECK_DEADLOCK FALSE
