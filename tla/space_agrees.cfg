SPECIFICATION SpaceSpec
CONSTANTS
    Space = 16
    OverflowChecks = FALSE
    Images <- MCImages
    MaxVec = 7
    PageSize = 2
    StackBase = 8
    StackSize = 4
    FrameSize = 2
    ExtraMaps <- MCExtraMaps
    RegValues = {3}
    MaxExtra = 2
INVARIANTS
    SpaceTypeOK
    EngineIsRegions
    ListedIsClaimed
    ImageIsInMemory
    AccessIsAsked
CHECK_DEADLOCK FALSE
