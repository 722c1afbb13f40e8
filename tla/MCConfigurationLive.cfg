SPECIFICATION FairSpec
CONSTANTS
    m1 = m1  m2 = m2  p1 = p1  p2 = p2
    Workers = {w}  Editors = {e}
    Markets = {m1}  Pairs = {p1}  Keys = {k1}
    FirstConfig <- Trading  FirstKey = k1  Targets = {}
    Published = TRUE  MaxGeneration = 3  MaxEdits = 0
    Nobody = Nobody  None = None
PROPERTIES WorkersAdopt DrainEnds
