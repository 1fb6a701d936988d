SPECIFICATION Spec
CONSTANTS
    k1 = k1
    k2 = k2
    k3 = k3
    k4 = k4
    w1 = w1
    w2 = w2
    h1 = h1
    h2 = h2
    WeakCommit = WeakCommit
    NoHead = NoHead
    Signers = {w1, w2}
    ChainHeads = {h1, h2}
    Thresholds = {1, 2}
    Counts <- MCCounts
    Ticks = {0, 1, 2, 3}
    Candidates <- MCCandidates
    Ctxs <- MCCtxs
    VoteSets <- MCVoteSets
INVARIANTS
    TypeOK
    RingVerifies
    PhaseMatchesRing
    EpochsInOrder
    AlwaysAWayOut
PROPERTIES
    ForwardOnly
    SymmetricKeyKept
    FallbackIsFinal
    ImplementsAuthority
