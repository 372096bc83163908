SPECIFICATION DeskSpec
CONSTANTS
    u1 = u1
    owner = owner
    t1 = t1
    j1 = j1
    j2 = j2
    Nobody = Nobody
    Staff = {u1, owner}
    Signers = {u1}
    Owners = {owner}
    Targets = {t1}
    Tasks = {j1, j2}
    MaxRows = 2
    TwoMinutes = 1
SYMMETRY Symmetry
INVARIANTS
    DeskTypeOK
    CurrentIsLatest
    PresenceHonest
