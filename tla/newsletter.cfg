SPECIFICATION FairSpec
CONSTANTS
    p1 = p1 p2 = p2 p3 = p3 b1 = b1 b2 = b2 j1 = j1 j2 = j2 None = None
    People = {p1, p2, p3}
    Broadcasts = {b1}
    Jobs = {j1, j2}
    BatchSize = 2
    MaxRows = 2
    MaxRequests = 4
INVARIANTS
    TypeOK
    LastBroadcastTrue
PROPERTIES
    
    ImplementsMailing
    BroadcastsEnd
