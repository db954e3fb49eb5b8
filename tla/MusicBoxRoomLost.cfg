SPECIFICATION Spec
CONSTANTS
    r1 = r1
    r2 = r2
    Requests = {r1, r2}
    Tracks = {3}
    Ops = {"enqueue", "remove"}
    Saved = 1
    Limit = 3
    History = 1
    Window = 3
    ChannelSize = 2
    Compact = FALSE
    MaxRequests = 2
    MaxUpsets = 0
PROPERTIES
    JoinsAfterPlayback
SYMMETRY Either
CHECK_DEADLOCK FALSE
