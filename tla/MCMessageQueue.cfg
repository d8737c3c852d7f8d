CONSTANTS
    Servers = {s1, s2}
    Clients = {c1, c2}
    MaxMsg = 2
    MaxSends = 2
    Interrupts = TRUE
    Kills = TRUE
SPECIFICATION FairSpec
INVARIANTS
    QueueSound
    QuitMeansDone
PROPERTIES
    OwnQueue
    FailsOnlyIfLeft
    ServerEnds
    AddsAnswered
CHECK_DEADLOCK FALSE
