SPECIFICATION Spec
CONSTANTS
    MaxAlloc = 3
    Requests <- MCRequests
    Mapped = {0, 1}
    Bytes = {0}
    Timeouts = {0, 1, 2}
    UsPerMs = 2
    MaxRuns = 2
    MaxSyscalls = 2
    MaxClock = 3
INVARIANT ExitReasonIsOfLastRun
CHECK_DEADLOCK FALSE
