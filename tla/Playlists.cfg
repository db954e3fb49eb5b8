SPECIFICATION PlaylistsSpec
CONSTANTS
    u1 = u1
    u2 = u2
    l1 = l1
    l2 = l2
    l3 = l3
    l4 = l4
    n1 = n1
    n2 = n2
    n3 = n3
    Users = {u1, u2}
    Room = Room
    Admins = {u1}
    Links = {l1, l2, l3, l4}
    Names = {n1, n2, n3}
    None = None
    MaxItems = 3
    MaxPlaylists = 2
    PageSize = 2
    Library <- TwoLists
    Playing = 1
    MaxMade = 4
    MaxEdits = 2
    MaxSnapshots = 2
INVARIANTS PlaylistsTypeOK UnrevisedIsPlayedWhole
PROPERTIES MakingLosesNothing
CHECK_DEADLOCK FALSE
