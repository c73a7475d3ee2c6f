SPECIFICATION FairSpec
CONSTANTS
    Space = 16
    OverflowChecks = FALSE
    Images <- MCImages
    MaxVec = 3
    PageSize = 2
    StackBase = 8
    StackSize = 2
    FrameSize = 1
    ExtraMaps = {}
    RegValues = {}
    MaxExtra = 0
    MaxAlloc = 3
    Requests <- MCRequests
    Targets = {0, 3, 9}
    Bytes = {9}
    UsPerMs = 2
    MaxSyscalls = 2
    MaxClock = 1
    Limits <- MCLimits
PROPERTY LimitIsALimit
CHECK_DEADLOCK FALSE
