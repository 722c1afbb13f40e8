SPECIFICATION Spec
CONSTANTS
    m1 = m1  m2 = m2  p1 = p1  p2 = p2
    Workers = {w}  Editors = {e}
    Markets = {m1, m2}  Pairs = {p1}  Keys = {k1}
    FirstConfig <- DryRun  FirstKey = k1  Targets <- Uploads
    Published = TRUE  MaxGeneration = 2  MaxEdits = 0
    Nobody = Nobody  None = None
INVARIANTS CursorOfActiveMarket
