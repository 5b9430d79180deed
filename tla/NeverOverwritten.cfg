CONSTANTS
    j1 = j1
    j2 = j2
    directory = directory
    category = category
    Jobs = {j1, j2}
    Folders = {directory, category}
    Directory = directory
    Category = category
    Payloads <- Samples
    Person = person
    Arrivals <- PersonsNames
    MaxRequests = 1
    MaxCrashes = 0
CHECK_DEADLOCK FALSE
SPECIFICATION Spec
PROPERTY NeverOverwritten
