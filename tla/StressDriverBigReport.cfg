SPECIFICATION Spec
CONSTANTS
    Rounds = 4
    SizeMin = 1
    SizeMax = 7
    SeedsPerSize = 2
    DenseSizes = 3
    ProgressEvery = 2
    TimeBudget = 5
    ShrinkBudget = 3
    ProbeMax = 2
    StreamTimeout = 7
    LineLimit = 5
    NotesFail = FALSE
CHECK_DEADLOCK FALSE
INVARIANTS CounterexampleDelivered
