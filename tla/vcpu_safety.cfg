SPECIFICATION FairSpec
CONSTANTS
    MaxAlloc = 3
    Requests <- MCRequests
    Mapped = {0, 1}
    Bytes = {0}
    Timeouts = {0, 1}
    UsPerMs = 2
    MaxRuns = 2
    MaxSyscalls = 3
    MaxClock = 1
INVARIANTS
    TypeOK
    NothingAfterExit
    FaultHidesNoExit
    ReasonIsLatestExit
    TraceMissesOnlyFailures
PROPERTIES
    CapturedBytesAreReported
    ImplementsProcess
    TimedRunEnds
CHECK_DEADLOCK FALSE
