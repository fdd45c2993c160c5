SPECIFICATION FairSpec
CONSTANTS
    MAX_AUTHOR_REVISIONS = 3
    MAX_SIZE_KNOB = 8
    MAX_CALIBRATION_STEPS = 2
    Estimates = {0, 20}
    Limits = {0, 2, 20}
    MaxRuns = 2
CHECK_DEADLOCK FALSE
INVARIANTS TypeOK CounterexampleVerified SizeWasMeasured FailingTestReported GenerateCallsBounded
PROPERTIES Progress Ends
