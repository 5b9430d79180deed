CONSTANTS
    MinChunk = 2
    Size = 3
    MaxSegments = 2
    MaxTries = 1
    MaxAttempts = 3
    MaxCrashes = 1
CHECK_DEADLOCK FALSE
SPECIFICATION Spec
INVARIANTS
    TypeOK
    PartsArePrefixes
    CompletedIsExact
PROPERTIES
    KeepsBytes
