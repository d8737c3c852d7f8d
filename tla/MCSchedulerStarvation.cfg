CONSTANTS
    a = a
    b = b
    c = c
    d = d
    Tasks = {a, b, c}
    MAX_PRIORITY = 2
    MAX_SAMEPRIO_LENGTH = 4
    GivenPriority <- OneEach
    AllocationFails = FALSE
SPECIFICATION FairSpec
PROPERTY NoStarvation
