SPECIFICATION Spec
CONSTANTS
    u1 = u1
    u2 = u2
    u3 = u3
    r1 = r1
    c1 = c1
    h1 = h1
    h2 = h2
    Users = {u1, u2, u3}
    Rooms = {r1}
    Conns = {c1}
    Handlers = {h1, h2}
    Publishers = {h1, h2, c1}
    None = None
    BufferSize = 2
    Ghosts = {u3}
    Members <- StartMembers
    Watchers = {u2, u3}
    Faults = {"build", "audience", "settings"}
    MaxVersion = 3
SYMMETRY StreamSymmetry
INVARIANTS TypeOK 
PROPERTIES KeepsItsPromise
CHECK_DEADLOCK FALSE
