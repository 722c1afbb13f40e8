CONSTANTS
    Procs = {p1, p2}
    Rules = {u1}
    MaxRuns = 2
    MaxNonce = 1
    MaxWrites = 3
    Nobody = Nobody
    NoRule = NoRule
SPECIFICATION FairSpec
PROPERTIES
    PendingSettles
    HoldsResolve
