SPECIFICATION FairSpec
CONSTANTS
    Owner = Owner  Keepers = {k1, k2}  Never = Never  None = None
    Amounts = {1}  Times = {0, 1}  BPS = 2  MaxTime = 0  MaxNet = 8
    Commands <- MCCommands  Envelopes <- MCEnvelopes  Costs = {1}  MaxFaults = 2
INVARIANTS TypeOK KeeperKeyHeld UnpausedByConsent ConfigCoversVault FundedAsAsked
    ReadyWhenDone
PROPERTIES Recovers
