CONSTANTS
    j1 = j1
    j2 = j2
    j3 = j3
    c1 = c1
    c2 = c2
    Jobs = {j1}
    Clients = {c1}
    Priorities = {1}
    Plans = {"none", "segs"}
    Limits = {1}
    MaxSends = 3
    MaxTries = 1
    MaxBacklog = 0
    Strays = {"leaked"}
    Requests = {"Add", "Pause", "Resume", "Retry", "Cancel", "Remove"}
    UiOnly = TRUE
    MaxRestarts = 0
    Overrides = {}
    NoOverride = NoOverride
CHECK_DEADLOCK FALSE
SPECIFICATION Spec
SYMMETRY Symmetric
INVARIANTS
    TypeOK
    ActiveIsHeld
    QueuedIsHeld
PROPERTIES
    RemovedStaysRemoved
    RefinesScheduler
