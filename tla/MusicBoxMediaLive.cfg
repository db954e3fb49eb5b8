SPECIFICATION FairSpec
CONSTANTS
    r1 = r1  r2 = r2  a = a  b = b  w1 = w1  w2 = w2  w3 = w3
    None = None
    Rooms <- MCRooms
    Visited = {r1}
    Listening = {}
    Items <- SharedItems
    Tracks <- MCTracks
    Workers = {w1, w2}
    RoomOf <- SharedRoomOf
    TrackOf <- SharedTrackOf
    Prefetch = 3
    FileBytes = 10
    CacheMaxBytes = 100
    RoomMaxBytes = 30
    Faulty = {"getItem", "markFailed", "setStatus", "pump"}
    MaxUpsets = 1
INVARIANT DownloadsAreOwned
PROPERTIES
    StreamKeptWhileWriting
    DownloadsEnd
    PumpsAreNotLost
CHECK_DEADLOCK FALSE
