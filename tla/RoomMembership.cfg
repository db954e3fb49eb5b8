SPECIFICATION DefaultSpec
CONSTANTS
    alice = alice  bob = bob  carol = carol  root = root  web = web  phone = phone
    Users = {alice, bob, carol, root}
    Superusers = {root}
    Nobody = Nobody
    Tasks = {web, phone}
    MaxRequests = 3
SYMMETRY Symmetric
INVARIANTS
    TypeOK
    RowsAgree
PROPERTIES
    OwnershipIsHandedOver
    BlockedStayOut
CHECK_DEADLOCK FALSE
