SPECIFICATION Spec
CONSTANTS
    Publishers = {p1, p2, p3}
    None = None
    MaxLosses = 2
INVARIANTS
    TypeOK
    WholeOrAbsent
    OwnReceiptStands
CHECK_DEADLOCK FALSE
