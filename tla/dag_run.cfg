SPECIFICATION FairSpec
CONSTANTS
    a = a
    b = b
    c = c
    d = d
    Nodes = {a, b, c, d}
    Edges <- ThreeRoots
    MaxConcurrent = 2
    InitialStatuses <- FreshOrReused
INVARIANTS
    TypeOK
    ConcurrencyCap
    InputsAvailable
    OutcomeMatchesReport
    SuccessIsComplete
    ReportConsistent
PROPERTIES
    ImplementsDagRun
    Termination
CHECK_DEADLOCK FALSE
