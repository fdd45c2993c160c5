SPECIFICATION FairSpec
CONSTANTS
    Submissions = {s1}
    Workers = {w1, w2, w3}
    Clients = {c1}
    Processes <- PairProcess
    w1 = w1
    w2 = w2
    w3 = w3
    NoJob = NoJob
    NoWorker = NoWorker
    MAX_ATTEMPTS = 2
    ClaimLease = 3
    RenewLease = 2
    BeatPeriod = 1
    MaxUpdates = 1
    Faults = {"crash", "db_error", "renew_error", "late_error", "late_beat", "sigterm"}
    MaxFaults = 2
INVARIANTS RunsBounded
PROPERTIES Settles
