CONSTANTS
    d1 = d1
    d2 = d2
    Items = {d1, d2}
    Urls = {"http", "ftp", "blob"}
    Fetchable = {"http", "ftp"}
    Valid = {"http"}
    Worker = worker
    Main = main
    MaxFaults = 1
CHECK_DEADLOCK FALSE
SPECIFICATION FairSpec
INVARIANTS
    TypeOK
    TakenOverIsHeld
PROPERTIES
    TakenOverIsOffered
    StartedIsQueued
