SPECIFICATION Spec
CONSTANTS
    Targets = {a, b}
    TicksPerSlot = 1
    SlotsPerEpoch = 2
    DurationEpochs = 1
    PostFaultEpochs = 1
    Tolerance = 1
    CallTicks = 2
    MaxFinality = 1
    MaxSlack = 1
SYMMETRY TargetSymmetry
INVARIANTS
    EndpointsAreObserved
    PartitionSpansWindow
    
    DivergenceShowsPartition
