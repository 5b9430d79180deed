CONSTANTS
    j1 = j1
    j2 = j2
    j3 = j3
    Jobs = {j1, j2, j3}
    Priorities = {1, 2}
    Plans = {"none"}
    Limits = {0, 2}
    MaxSends = 4
SPECIFICATION FairSpec
INVARIANTS
    TypeOK
    SlotBacked
    WorkConserving
    OneAtATime
PROPERTIES
    TopServed
    SlotsReturn
    StartsWithinCap
