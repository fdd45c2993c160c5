SPECIFICATION Spec
CONSTANTS
    MAX_AUTHOR_REVISIONS = 3
    MAX_SIZE_KNOB = 8
    MAX_CALIBRATION_STEPS = 1
    Estimates = {4}
    Limits = {4, 20}
    MaxRuns = 1
CHECK_DEADLOCK FALSE
INVARIANTS SizeIsLargestSustained
