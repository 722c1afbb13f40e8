CONSTANTS
    Procs = {p1, p2}
    Rules = {u1, u2}
    MaxRuns = 2
    MaxNonce = 2
    MaxWrites = 3
    Nobody = Nobody
    NoRule = NoRule
SPECIFICATION Spec
SYMMETRY Symmetry
INVARIANTS
    TypeOK
    OnlyPendingExecutes
    OutcomesTrue
    OneOpenRunPerRule
    OneTradePerBaseline
    AttemptRecordedFirst
PROPERTY
    SettledOnce
    ImplementsOutcomes
