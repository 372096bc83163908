SPECIFICATION Spec
CONSTANTS
    u1 = u1 u2 = u2 r1 = r1 r2 = r2 r3 = r3 c1 = c1 c2 = c2 n1 = n1 n2 = n2 t1 = t1 t2 = t2 j1 = j1 j2 = j2 None = None
    Users = {u1, u2}
    Reports = {r1, r2, r3}
    Collections = {c1}
    OnSite = {r3}
    Names = {n1, n2}
    Tokens = {t1}
    Jobs = {j1, j2}
CHECK_DEADLOCK FALSE
SYMMETRY Symmetry
INVARIANTS
    TypeOK
    CollectionsSound
PROPERTIES
    ImplementsPublication
    ViewsHonest
