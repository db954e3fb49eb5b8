SPECIFICATION FairSpec
CONSTANTS
    alice = alice
    Users = {alice}
    MaxSessions = 2
    Patches = {"joining", "online", "reconnecting", "left"}
    Faults = {"lost", "reordered"}
    MusicPlays = FALSE
    MaxEvents = 5
INVARIANTS
    TypeOK
    ReconnectingLostItsSession
PROPERTIES
    SweepSparesWrittenRows
    TransitionsEnd
CHECK_DEADLOCK FALSE
