SPECIFICATION Spec
CONSTANTS
    MaxCalls = 4
    MaxIssued = 2
INVARIANTS
    TypeOK
    NeverServesWiped
    NothingLeftBehind
PROPERTIES
    RotationNeverRollsBack
    LeaseEnds
CHECK_DEADLOCK FALSE
