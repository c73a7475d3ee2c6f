SPECIFICATION LoaderSpec
CONSTANTS
    Space = 8
    OverflowChecks = FALSE
    Images <- MCImages
    MaxVec = 2
INVARIANT RejectedWithCode
CHECK_DEADLOCK FALSE
