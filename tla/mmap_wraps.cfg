SPECIFICATION Spec
CONSTANTS
    Space = 6
    OverflowChecks = FALSE
    Inserts <- MCAllInserts
    MaxRegions = 6
INVARIANT SortedAndDisjoint
CHECK_DEADLOCK FALSE
