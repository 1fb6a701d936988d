SPECIFICATION Spec
CONSTANTS
    Publishers = {p1, p2, p3}
    None = None
    MaxLosses = 2
INVARIANTS
    ReceiptMeansPresent
CHECK_DEADLOCK FALSE
