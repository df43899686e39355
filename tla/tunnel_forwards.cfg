SPECIFICATION FairSpec
CONSTANTS
    alice = alice
    bob = bob
    add = add
    again = again
    kill = kill
    other = other
    c1 = c1
    c2 = c2
    p1 = p1
    p2 = p2
    Ephemeral = Ephemeral
    NoReq = NoReq
    Port = {p1, p2}
    Req = {add, again, kill, other}
    Request <- Requests
    Owner = {alice, bob}
    Conn = {c1, c2}
    OwnerOf <- Owners
    MaxRemove = 1
    MayFail = TRUE
INVARIANTS
    TypeOK
    NoOrphanListener
    OrderPreserved
    QueuedNotReset
PROPERTY EveryRequestAnswered
CHECK_DEADLOCK FALSE
