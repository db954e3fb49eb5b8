SPECIFICATION FairSpec
CONSTANTS
    r1 = r1
    r2 = r2
    Requests = {r1, r2}
    Tracks = {3}
    Ops = {"stop", "remove"}
    Saved = 1
    Limit = 3
    History = 1
    Window = 3
    ChannelSize = 2
    Compact = TRUE
    MaxRequests = 2
    MaxUpsets = 0
PROPERTIES
    CommandsAreAnswered
CHECK_DEADLOCK FALSE
