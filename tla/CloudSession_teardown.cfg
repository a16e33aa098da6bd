SPECIFICATION Spec
CONSTANT
    NumRuns = 2
INVARIANTS
    CleanExitMeansEmpty
    CreatedIsTornDown
PROPERTY
    ForeignSurvives
