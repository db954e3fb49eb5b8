SPECIFICATION Spec
CONSTANTS
    r1 = r1  r2 = r2  a = a  b = b  w1 = w1  w2 = w2  w3 = w3
    None = None
    Rooms <- MCRooms
    Visited = {r1}
    Listening = {r1}
    Items <- PairItems
    Tracks <- MCTracks
    Workers = {w1, w2}
    RoomOf <- PairRoomOf
    TrackOf <- PairTrackOf
    Prefetch = 3
    FileBytes = 10
    CacheMaxBytes = 15
    RoomMaxBytes = 30
    Faulty = {"getItem", "markReady", "markFailed", "setStatus", "pump"}
    MaxUpsets = 1
SYMMETRY WorkerSymmetry
INVARIANTS
    TypeOK
    RegisteredStreamHasOwner
    EvictsOnlyWhatItMay
PROPERTY PlayableUnlessEvicted
