SPECIFICATION FairSpec
CONSTANTS
    alice = alice
    bob = bob
    a1 = a1
    a2 = a2
    b1 = b1
    k1 = k1
    NoConn = NoConn
    Uid = {alice, bob}
    Conn = {a1, b1}
    UidOfConn <- AliceAndBob
    Client = {k1}
    UidOfClient <- AliceClient
    LocalSerial = {"emulator-5554"}
    OwnSerial <- OwnSerials
    NotifyCap = 1
    MaxPublish = 1
    MaxPoll = 0
INVARIANTS
    TenantIsolation
PROPERTIES
    TrackerConverges
CHECK_DEADLOCK FALSE
