SPECIFICATION Spec
CONSTANTS
    Submissions = {s1}
    Workers = {w1, w2}
    Clients = {c1}
    Processes <- SoloProcesses
    w1 = w1
    w2 = w2
    w3 = w3
    NoJob = NoJob
    NoWorker = NoWorker
    MAX_ATTEMPTS = 3
    ClaimLease = 4
    RenewLease = 3
    BeatPeriod = 1
    MaxUpdates = 1
    Faults = {}
    MaxFaults = 0
INVARIANTS GivesUpOnlyOnCrashes
