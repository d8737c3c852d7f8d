CONSTANTS
    a = a
    b = b
    c = c
    d = d
    Tasks = {a, b, c, d}
    MAX_PRIORITY = 2
    MAX_SAMEPRIO_LENGTH = 3
    GivenPriority <- MixedPriorities
    AllocationFails = FALSE
SPECIFICATION FairSpec
INVARIANTS
    SchedulerInv
    ReadyQueued
    NoLongStreak
PROPERTIES
    WorkConserving
    TurnsComplete
    HighestTwoRun
