SPECIFICATION Spec
CONSTANTS
    Sockets = {s1, s2}
    Groups = {g1}
    Colleagues = {c1}
    Messages = {m1}
    Texts = {t1, t2}
    Jobs = {j1, j2}
    None = None
    Deleted = Deleted
    MaxRequests = 3
SYMMETRY Symmetry
INVARIANTS
    TypeOK
    OnlineHonest
    RoomsRestored
    
