SPECIFICATION Spec
CONSTANTS
    k1 = k1
    k2 = k2
    k3 = k3
    w1 = w1
    w2 = w2
    h1 = h1
    long = long
    WeakCommit = WeakCommit
    NoHead = NoHead
    Signers = {w1, w2}
    ChainHeads = {h1}
    Thresholds = {2}
    Counts = {0, 1}
    Ticks = {0, 1, 2}
    Candidates <- MCCandidates
    Ctxs <- MCCtxs
    VoteSets <- MCVoteSets
    Generations <- MCGenerations
    Bootstrap <- MCBootstrap
    PayloadLength <- MCPayloadLength
    MaxPayload <- MCMaxPayload
    MaxKept = 0
INVARIANTS
    TypeOK
    OnlySizeRefused
    NeededKeysKept
PROPERTIES
    AcceptedForward
CHECK_DEADLOCK FALSE
