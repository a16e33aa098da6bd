SPECIFICATION GateSpec
CONSTANTS
    NumReps = 2
    Groups = {a, b}
    Threshold = 1
    ControlProgress = {1, 2}
    FaultProgress = {0, 1}
    Slots = {0, 1}
    Censored = Censored
SYMMETRY GroupSymmetry
INVARIANTS
    ValidityIsExact
    PredictionIsExact
    DifferentiationIsExact
