SPECIFICATION FairSpec
CONSTANTS
    alice = alice  request = request  webhook = webhook
    Participants = {alice}
    Handlers = {request, webhook}
    Faults = {"snapshot", "check", "clear", "restart"}
    MaxEvents = 5
INVARIANT TypeOK
PROPERTIES
    QueuedMusicSurvives
    ReusedRoomsAreNotConfirmed
    ObservedEmptyRoomsExpire
CHECK_DEADLOCK FALSE
