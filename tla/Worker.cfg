SPECIFICATION WorkerFairSpec
CONSTANTS
    Submissions = {s1}
    Workers = {w1, w2}
    Processes = {{w1, w2}}
    Clients = {c1, c2}
    NoJob = NoJob
    NoWorker = NoWorker
    MAX_ATTEMPTS = 2
    ClaimLease = 3
    RenewLease = 2
    BeatPeriod = 1
    MaxUpdates = 1
    Faults = {"crash", "db_error", "sigterm"}
    MaxFaults = 3
    Slots = 1
INVARIANTS WorkerTypeOK SlotsConserved NobodyForgotten OrphansExplained OwnsRow ReportMatchesState
PROPERTIES ImplementsLifecycle Settles
