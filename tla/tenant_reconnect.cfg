SPECIFICATION Spec
CONSTANTS
    alice = alice
    bob = bob
    a1 = a1
    a2 = a2
    b1 = b1
    k1 = k1
    NoConn = NoConn
    Uid = {alice}
    Conn = {a1, a2}
    UidOfConn <- AliceReconnects
    Client = {k1}
    UidOfClient <- AliceClient
    LocalSerial = {"emulator-5554"}
    OwnSerial <- AliceSerials
    NotifyCap = 1
    MaxPublish = 1
    MaxPoll = 1
INVARIANTS
    TypeOK
    RegisteredIsServed
    PublishedListKept
    TrackerUpToDate
    DisconnectRemovesDevices
PROPERTIES
    OnlyDeadAgentUnregistered
CHECK_DEADLOCK FALSE
