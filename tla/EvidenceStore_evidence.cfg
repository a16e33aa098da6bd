SPECIFICATION Spec
CONSTANTS
    RunIDs = {"control-1", "fault-1"}
    RunOrder <- MCRunOrder
    Plans = {"committed", "other"}
    ExpectedPlan = "committed"
    Splits = {1, 2}
    Nobody = Nobody
    MaxAttempts = 2
    MaxMeddling = 1
INVARIANTS
    AnalysedIsSealed
    AnalysedIsIntact
