SPECIFICATION Spec
CONSTANTS
    r1 = r1 e1 = e1 e2 = e2 d1 = d1 j1 = j1 j2 = j2 None = None
    Rows = {r1}
    Emails = {e1, e2}
    Devices = {d1}
    Jobs = {j1, j2}
    Overlapping = FALSE
    MaxTokens = 2
    MaxOtps = 2
    MaxAttempts = 3
CHECK_DEADLOCK FALSE
SYMMETRY Symmetry
INVARIANTS
    TypeOK
    
PROPERTIES
    
    RefusedForEver
