CONSTANTS
    HEADER_SIZE = 2
    WORD = 64
    HEAP_SIZE = 8
    MaxHeap = 16
    Requests <- MCRequests
    Strategies = {"bestfit", "firstfit", "worstfit", "nextfit"}
    Editions = {"strategies", "solution"}
SPECIFICATION Spec
INVARIANTS
    ListInv
    ReportsRight
PROPERTIES
    StrategyHolds
    ImplementsMemoryService
