SPECIFICATION FairSpec
CONSTANTS
    Targets = {t1, t2}
    MaxRecords = 2
    NumWaits = 2
    Predicates <- MCPredicates
INVARIANTS
    NoLostWakeup
    RawCoversData
    NoWriteAfterClose
PROPERTIES
    WaitsReturn
