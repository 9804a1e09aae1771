CONSTANTS
    PageSize = 2
    MaxLog = 5
    MaxSecond = 2
    MaxBurst = 3
    MaxUnparsed = 1
    MaxBack = 1
SPECIFICATION FairSpec
INVARIANTS CursorIsExact
PROPERTY DeliveredOrCutOff
