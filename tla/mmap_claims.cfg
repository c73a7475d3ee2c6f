SPECIFICATION Spec
CONSTANTS
    Space = 6
    OverflowChecks = TRUE
    Inserts <- MCAllInserts
    MaxRegions = 6
INVARIANTS
    TypeOK
    SortedAndDisjoint
PROPERTIES
    ImplementsClaims
CHECK_DEADLOCK FALSE
