SPECIFICATION FairSpec
CONSTANTS
    Recorders = {v1, v2}
    Readers = {o1, o2}
    Nobody = nobody
    MaxCalls = 2
INVARIANTS
    TypeOK
    SeqIsPosition
PROPERTIES
    ImplementsLog
    EveryCallReturns
CHECK_DEADLOCK FALSE
