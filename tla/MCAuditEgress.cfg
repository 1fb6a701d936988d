SPECIFICATION Spec
CONSTANTS
    GENESIS = GENESIS
    Epochs = {0, 1, 2}
    BatchSize = 2
    RingCapacity = 3
    MaxRecords = 5
    MaxWriters = 2
INVARIANTS
    TypeOK
    RingHasRoom
    LedgerChain
    RecordsInOrder
    NoStraddling
    OneWriterVerifies
CHECK_DEADLOCK FALSE
