SPECIFICATION FairSpec
CONSTANTS
    Runs = {r1, r2, r3}
    Streams = {c1}
    MaxSteps = 2
CHECK_DEADLOCK FALSE
INVARIANTS TypeOK RefusedOnlyByOverlap
PROPERTIES ImplementsFeed StreamEnds
