CONSTANTS
    j1 = j1
    j2 = j2
    c1 = c1
    c2 = c2
    consumer = consumer
    v1 = v1
    v2 = v2
    Jobs = {j1}
    Clients = {c1, c2}
    Consumer = consumer
    Settings = {v1, v2}
    Capacity = 2
    MaxWrites = 3
    MaxDrops = 1
CHECK_DEADLOCK FALSE
SPECIFICATION FairSpec
INVARIANTS
    TypeOK
    RowsShown
    SettingsShown
PROPERTIES
    Converges
