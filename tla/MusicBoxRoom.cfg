SPECIFICATION Spec
CONSTANTS
    r1 = r1
    r2 = r2
    Requests = {r1, r2}
    Tracks = {3}
    Ops = {"enqueue", "remove", "play", "pause", "skip", "previous", "play_now", "stop", "clear", "set_mode", "switch", "activate", "expire"}
    Saved = 1
    Limit = 3
    History = 1
    Window = 3
    ChannelSize = 2
    Compact = FALSE
    MaxRequests = 2
    MaxUpsets = 1
INVARIANTS
    TypeOK
    SilentRoomsAreStopped
    UpdatesAreNotLost
    DoneOnce
SYMMETRY Either
CHECK_DEADLOCK FALSE
