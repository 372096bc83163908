SPECIFICATION ReportSpec
CONSTANTS
    r1 = r1 Missing = Missing
    Ids = {r1}
    Buildings <- MCBuildings
    Texts <- MCTexts
    Bearings <- MCBearings
    Visited = {0, 90, 225, 359}
    Rooms = {"front_entrance", "bed"}
    Labels = {"N", "W"}
    MaxElements = 2
    HasKey = TRUE
INVARIANTS
    ReportTypeOK
    
    OpenedIsTold
