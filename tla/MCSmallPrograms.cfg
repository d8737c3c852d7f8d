SPECIFICATION ProgramsSpec
CONSTANTS
    Copiers = {c1, c2}
    Versions = {"copy", "sol"}
    Contents <- MCContents
    CommandLines <- MCCommandLines
    Callers = {a1, a2}
    Functions = {"pipe.c", "execute.c"}
    Programs <- MCPrograms
    Output = 3
    Capacity = 1
    Root = "root"
    Children <- MCChildren
    MaxOpen = 3
    Listers = {"ls.c", "testing.c"}
    Rank <- MCRank
    Producers = {p1, p2}
    Consumers = {d1}
    Items = {i1, i2, i3}
    BUFFER_SIZE = 2
    Unowned = nobody
    NoItem = noItem
    RRTasks = {t1, t2, t3}
    NoRRTask = noTask
    Traces <- MCTraces
    PageSize = 4
    Policies <- MCPolicies
    ByHand = {"MRU", "CLOCK", "OPT", "UNOPT"}
    ClockBits = 2
    Strings <- MCStrings
    INT_MAX = 127
INVARIANTS
    CopyRight
    ExecRight
    PipelineRight
    ListingRight
    BufferRight
    OnListOnce
    MemoryRight
    FaultsRight
    ParsedRight
PROPERTIES
    OnlyCreatorWrites
    SystemProgramsEnd
    InTurn
    LabProgramsEnd
CHECK_DEADLOCK FALSE
