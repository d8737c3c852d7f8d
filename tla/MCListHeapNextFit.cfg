CONSTANTS
    HEADER_SIZE = 2
    WORD = 64
    HEAP_SIZE = 8
    MaxHeap = 16
    Requests <- MCRequests
    Strategies = {"nextfit"}
    Editions = {"strategies"}
SPECIFICATION Spec
INVARIANT NextFitKeepsList
