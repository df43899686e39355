SPECIFICATION FairSpec
CONSTANTS
    s1 = s1
    Stream = {s1}
    Cap = 1
    SockCap = 2
    MaxUp = 3
    MaxDown = 0
    MayCrash = TRUE
    MayBreak = FALSE
PROPERTIES
    DisconnectNoticed
CHECK_DEADLOCK FALSE
