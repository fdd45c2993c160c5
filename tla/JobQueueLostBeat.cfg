SPECIFICATION Spec
CONSTANTS
    Submissions = {s1}
    Workers = {w1, w2}
    Clients = {c1}
    Processes <- SoloProcesses
    w1 = w1
    w2 = w2
    w3 = w3
    NoJob = NoJob
    NoWorker = NoWorker
    MAX_ATTEMPTS = 2
    ClaimLease = 3
    RenewLease = 2
    BeatPeriod = 1
    MaxUpdates = 1
    Faults = {"renew_error"}
    MaxFaults = 1
INVARIANTS OwnsRow
