SPECIFICATION FairSpec
CONSTANTS
    local = local
    remote = remote
    k1 = k1
    Seeder = Seeder
    Order <- LocalThenRemote
    Serial = {"pixel"}
    Paired = {remote}
    TooOld = {}
    CanTrack = {remote}
    Client = {k1}
    Node = {remote}
    NotifyCap = 1
    MaxChange = 1
    MaxFlap = 1
    MaxPolicy = 1
INVARIANTS
    TypeOK
    TrackerUpToDate
PROPERTIES
    PollingConverges
    DisabledNodeLeftOut
CHECK_DEADLOCK FALSE
