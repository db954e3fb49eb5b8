SPECIFICATION Spec
CONSTANTS
    ann = ann
    bob = bob
    gangBot = gangBot
    h1 = h1
    h2 = h2
    c1 = c1
    None = None
    Users = {ann, bob}
    Admins = {ann}
    Reader = bob
    Bot = gangBot
    Clients = {c1}
    Audiences = {"all", gangBot}
    OldIds = {2, 3}
    OldKind <- MCOldKind
    NewIds = {1, 4}
    RecallWindow = 0
    PageSize = 1
    ScanBatch = 2
    QueueSize = 1
    MinGap = 2
    MaxGap = 2
    Handlers = {h1, h2}
    Mixes <- MCMixes
    MaxClock = 2
    MaxRestarts = 1
SYMMETRY Either
INVARIANTS
    TypeOK
    SentOnce
    MentionsAreWithdrawn
    BotTakesUpMentions
    PagingMissesNothing
PROPERTY
    UnreadFollowsReading
