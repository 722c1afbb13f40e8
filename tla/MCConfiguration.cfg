SPECIFICATION Spec
CONSTANTS
    m1 = m1  m2 = m2  p1 = p1  p2 = p2
    Workers = {w}  Editors = {e}
    Markets = {m1, m2}  Pairs = {p1, p2}  Keys = {k1, k2}
    FirstConfig <- Trading  FirstKey = k1  Targets <- Uploads
    Published = TRUE  MaxGeneration = 3  MaxEdits = 1
    Nobody = Nobody  None = None
INVARIANTS TypeOK EvaluatesActiveConfig ComparesOwnMarket PendingUsesCurrentKey PendingOfActiveConfig BroadcastOnlyWhenEnabled
