SPECIFICATION FairSpec
CONSTANTS
    s1 = s1
    Stream = {s1}
    Cap = 1
    SockCap = 2
    MaxUp = 3
    MaxDown = 2
    MayCrash = TRUE
    MayBreak = TRUE
INVARIANTS
    TypeOK
    NothingTruncated
    NothingLeftBehind
PROPERTIES
    DataInOrder
    AnswerReachesWaiter
    SessionTornDown
    DisconnectNoticedUnlessStuck
CHECK_DEADLOCK FALSE
