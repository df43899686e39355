SPECIFICATION Spec
CONSTANTS
    Order <- LabThenLocal
    Body <- SmallLists
    Local = "local"
    Numeral <- Decimal
    MaxDevices = 6
    MaxPolicy = 1
INVARIANTS
    ListedIsReachable
    PickIsPreferred
PROPERTIES
    NameNeverRetargeted
CHECK_DEADLOCK FALSE
