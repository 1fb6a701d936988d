SPECIFICATION Spec
CONSTANTS
    Plans <- MCPlans
    MaxElapsed = 3
INVARIANTS
    TypeOK
    NoOrphans
    EveryoneToldToStop
    CapacityUsed
    OutcomeJustified
PROPERTIES
    DeadlineDecides
    ImplementsContract
    EveryScopeEnds
CHECK_DEADLOCK FALSE
