CONSTANTS
    HEADER_SIZE = 2
    WORD = 64
    HEAP_SIZE = 8
    MaxHeap = 24
    Requests <- MCRequests
SPECIFICATION Spec
INVARIANT HeapSafe
PROPERTY ImplementsMemoryService
