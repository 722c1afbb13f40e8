SPECIFICATION Spec
CONSTANTS
    m1 = m1  m2 = m2  p1 = p1  p2 = p2
    Workers = {}  Editors = {e1, e2}
    Markets = {m1}  Pairs = {p1, p2}  Keys = {k1, k2}
    FirstConfig <- Trading  FirstKey = k1  Targets <- Toggles
    Published = TRUE  MaxGeneration = 4  MaxEdits = 0
    Nobody = Nobody  None = None
INVARIANTS NewKeyStartsDry
