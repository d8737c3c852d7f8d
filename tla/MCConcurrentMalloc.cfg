CONSTANTS
    HEADER_SIZE = 2
    WORD = 64
    HEAP_SIZE = 6
    Threads = {t1, t2}
    Requests <- MCRequests
    DebugValues = {TRUE, FALSE}
SPECIFICATION Spec
SYMMETRY Symmetry
INVARIANTS
    MutexBalanced
    ListIntact
PROPERTIES
    HeldUntouched
    ImplementsHeapBlocks
