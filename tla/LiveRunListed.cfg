CONSTANTS
    j1 = j1
    j2 = j2
    j3 = j3
    c1 = c1
    c2 = c2
    Jobs = {j1}
    Clients = {c1}
    Priorities = {1}
    Plans = {"none", "segs"}
    Limits = {2}
    MaxSends = 3
    MaxTries = 0
    MaxBacklog = 0
    Strays = {}
    Requests = {"Add", "Pause", "Resume"}
    UiOnly = TRUE
    MaxRestarts = 0
    Overrides = {}
    NoOverride = NoOverride
CHECK_DEADLOCK FALSE
SPECIFICATION Spec
INVARIANT LiveRunListed
