SPECIFICATION CaptureSpec
CONSTANTS
    MaxUint = 10
    Mantissa = 3
    None = None
    ScenarioFiles <- MCScenarioFiles
    LockFiles <- MCLockFiles
    FlagSets <- MCFlagSets
    Clusters <- MCClusters
    RangeFiles <- MCRangeFiles
    ValidatorResponses <- MCValidatorResponses
INVARIANTS
    RuntimeIsControlled
    SplitIsReal
    CaptureIsAnalysable
