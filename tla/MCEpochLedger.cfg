SPECIFICATION Spec
CONSTANTS
    k1 = k1
    k2 = k2
    k3 = k3
    w1 = w1
    w2 = w2
    WeakCommit = WeakCommit
    NoHead = NoHead
    GENESIS = GENESIS
    Candidates <- MCCandidates
    Ticks = {0, 1, 2}
    Signers = {w1, w2}
    BatchSize = 2
    RingCapacity = 2
    MaxRecords = 4
    MaxWriters = 2
SYMMETRY MCSymmetry
INVARIANTS
    LedgerFollowsRing
    WriterInStep
    HandoverOnChain
    HistoryUpToSigner
PROPERTIES
    StrandedForGood
