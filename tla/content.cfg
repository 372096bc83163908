SPECIFICATION Spec
CONSTANTS
    Faqs = {f1, f2}
    Insights = {i1}
    Categories = {c1, c2}
    Pages = {g1, g2}
    People = {p1, p2}
    Staff = {p2}
    Reports = {r1}
    Questions = {q1}
    Names = {n1, n2}
    Jobs = {j1, j2}
    None = None
    MaxRequests = 3
    MaxUploads = 3
    MaxPhotos = 2
SYMMETRY Symmetry
INVARIANTS
    TypeOK
    PicturesServed
    
    
CHECK_DEADLOCK FALSE
