CONSTANTS
    j1 = j1
    j2 = j2
    j3 = j3
    c1 = c1
    c2 = c2
    Jobs = {j1}
    Clients = {c1, c2}
    Priorities = {1, 2}
    Plans = {"none", "segs"}
    Limits = {0, 2}
    MaxSends = 2
    MaxTries = 0
    MaxBacklog = 0
    Strays = {"late", "leaked"}
    Requests = {"Add", "Resume", "SetPriority", "UpdateSettings", "Remove"}
    UiOnly = FALSE
    MaxRestarts = 1
    Overrides = {0, 2}
    NoOverride = NoOverride
CHECK_DEADLOCK FALSE
SPECIFICATION Spec
SYMMETRY Symmetric
INVARIANTS
    TokenIsHeld
    ActiveIsHeld
    LimitInForce
    WithdrawnAhead
PROPERTY RefinesScheduler
