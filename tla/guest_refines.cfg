SPECIFICATION Spec
CONSTANTS
    Space = 8
    OverflowChecks = FALSE
    Maps <- MCMaps
    Reads <- MCReads
    Writes <- MCWrites
    MaxBuffer = 4
    MaxAlloc = 4
    Candidates <- MCCandidates
    Requests <- MCRequests
    Layouts <- MCLayouts
    MaxCalls = 2
INVARIANTS
    TypeOK
    ContextIsItsCalls
    SinkHasItsCalls
PROPERTIES
    ImplementsByteMemory
    WrittenIsRead
    MapHidesOnlyInside
CHECK_DEADLOCK FALSE
