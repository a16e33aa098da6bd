SPECIFICATION FairSpec
CONSTANTS
    NumTargets = 2
    ChainStates <- MCChainStates
    Metadata <- MCMetadata
    MaxUint = 3
    MaxNow = 2
    None = None
INVARIANTS
    ObservationIsOneState
    ObservedNetworkIsOne
    ResultIsFaithful
PROPERTIES
    StopsAsOne
