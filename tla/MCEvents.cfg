SPECIFICATION FairSpec
CONSTANTS
    Watchers = {w1, w2}  Callers = {c}
    Pairs = {7, 9}  Rules = {1, 2, 3}  PairOf <- TwoPairs
    AnyPair = AnyPair  Labels = {AnyPair}
    Swaps = {s1}  MaxMoves = 1
    Nobody = Nobody  NoRule = NoRule
INVARIANTS TypeOK NoEventPassedOver OneSwapPerEvent
PROPERTIES CursorNeverBack EveryEventArrives
