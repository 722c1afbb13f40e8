SPECIFICATION Spec
CONSTANTS
    Owner = Owner  Keepers = {k1, k2}
    Amounts = {1, 2}  Times = {1, 2}  BPS = 2
    MaxTime = 2  MaxNet = 2  Never = Never
INVARIANTS TypeOK WithinBudget ReviewedWhenActive SwapsSpaced TradesWithinSeed FundsAccounted
SYMMETRY Symmetry
