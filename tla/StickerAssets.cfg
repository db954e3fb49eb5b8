SPECIFICATION Spec
CONSTANTS
    a1 = a1
    a2 = a2
    h1 = h1
    h2 = h2
    None = None
    own = own
    shared = shared
    Assets = {a1, a2}
    Packs = {own, shared}
    OldAsset = a1
    OldPack = shared
    RoomPacks = {shared}
    Handlers = {h1, h2}
    Ops = {"upload", "send", "createPack", "add", "save", "delete", "recall", "deleteRoom", "cascade"}
    MaxCalls = 3
    MaxUpsets = 1
INVARIANTS
    TypeOK
    FilesMatchRows
PROPERTY
    OrphansGo
