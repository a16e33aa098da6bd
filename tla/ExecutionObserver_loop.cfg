SPECIFICATION FairSpec
CONSTANTS
    Hashes = {"g", "a", "b", "c", "d", "e", "f", "w", "x"}
    MaxNumber = 3
    HistoryLimit = 3
    NodeHeads <- MCNodeHeads
    ReconnectInitial = 2
    ReconnectMaximum = 7
    MaxEvents = 6
INVARIANTS
    LoopTypeOK
    NoSilentDiscontinuity
    ReorgWithinSubscription
    CanonicalIsChain
PROPERTIES
    KnownDepthIsExact
    CancelledLoopReturns
