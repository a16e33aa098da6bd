SPECIFICATION FairSpec
INVARIANTS
    TypeOK
    NilMeansClean
    RevertOnEveryExit
    ChecksumsSealEvidence
PROPERTIES
    ForeignIsUntouched
    FaultIsRemoved
    ImplementsContract
