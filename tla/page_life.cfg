SPECIFICATION Spec
CONSTANTS
    Turns = {t1, t2}
    Requests = {r}
    HistoryLimit = 2
    PageLimit = 2
    CompactionReads = 4
    Keep = 2
SYMMETRY TurnSymmetry
INVARIANTS
    TypeOK
    NewestKept
    BoundedWhenQuiet
    RepliesStay
CHECK_DEADLOCK FALSE
