SPECIFICATION LoaderSpec
CONSTANTS
    Space = 8
    OverflowChecks = FALSE
    Images <- MCImages
    MaxVec = 2
INVARIANTS
    LoaderTypeOK
    SegmentsAreSound
    AcceptsExactly
    CulpritIsMet
CHECK_DEADLOCK FALSE
