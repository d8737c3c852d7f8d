CONSTANTS
    HEADER_SIZE = 2
    WORD = 64
    HEAP_SIZE = 12
    Threads = {t1, t2, t3}
    Iterations = {1, 2, 3, 4}
    Size <- MCSize
    Requests <- MCRequests
    DebugValues = {}
SPECIFICATION TestSpec
INVARIANT TestPasses
PROPERTY TestEnds
CHECK_DEADLOCK FALSE
