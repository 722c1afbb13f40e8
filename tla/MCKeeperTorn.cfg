SPECIFICATION Spec
CONSTANTS
    Owner = Owner  Keeper = Keeper  Never = Never  None = None
    Amounts = {10, 20}  Times = {1, 3}  MaxTime = 4  MaxNet = 20
    BPS = 4  SafetyMargin = 1  Fee = 1  Skew = 1  Lag = 1
    Pairs <- DeepAndShallow  Rules <- MCRules  Envelopes <- MCEnvelopes
INVARIANTS FiresOnMove
