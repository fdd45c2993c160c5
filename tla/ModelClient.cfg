SPECIFICATION FairSpec
CONSTANTS
    Runs = {r1, r2}
    Attempts = 2
    CallCap = 2
    TokenCap = 1
    MaxTokens = 2
    TokenCosts = {0, 2}
    Threshold = 2
    Reset = 2
    MaxOutages = 2
INVARIANTS TypeOK BudgetBounded TripsOnOutage
PROPERTIES GenerateShrinks Returns Recovers
