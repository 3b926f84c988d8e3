SPECIFICATION FairSpec
CONSTANTS
    t1 = t1
    t2 = t2
    read = read
    write = write
    banned = banned
    Turns = {t1, t2}
    Calls = {read, write, banned}
    TierOf <- OneOfEachTier
    MaxSteps = 2
    conn = conn
    Conns = {conn}
    ConnOf <- SameConnection
INVARIANTS
    OnlyPermittedCallsRun
    NoCallTwice
    EntriesHaveWaiters
PROPERTIES
    EveryTurnEnds
CHECK_DEADLOCK FALSE
