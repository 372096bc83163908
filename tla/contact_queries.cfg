SPECIFICATION Spec
CONSTANTS
    q1 = q1 boss = boss s1 = s1 c1 = c1 j1 = j1 j2 = j2 None = None
    Inquiries = {q1}
    Staff = {boss, s1}
    Supers = {boss}
    Owner = boss
    Customers = {c1}
    Jobs = {j1, j2}
    MaxTickets = 2
CHECK_DEADLOCK FALSE
SYMMETRY Symmetry
INVARIANTS
    TypeOK
PROPERTIES
    ImplementsLife
