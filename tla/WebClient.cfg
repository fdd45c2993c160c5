SPECIFICATION FairSpec
CONSTANTS
    Ids = {a}
    MaxClicks = 2
    MaxSteps = 1
    MaxFinishes = 2
    MaxFaults = 3
CHECK_DEADLOCK FALSE
INVARIANTS TypeOK SecondFinishToBlame TableComplete ButtonWatched
PROPERTIES ButtonReturns
