SPECIFICATION Spec
CONSTANTS
    o = o a = a b = b oe = oe e1 = e1 t1 = t1 t2 = t2 f1 = f1 j1 = j1 j2 = j2 None = None
    Ids = {o, a}
    Owner = o
    Emails = {oe, e1}
    OwnerEmail = oe
    Invitable = {"admin", "super_admin"}
    Invites = {t1}
    Flags = {f1}
    Jobs = {j1, j2}
SYMMETRY Symmetry
INVARIANTS
    TypeOK
    
    

    
