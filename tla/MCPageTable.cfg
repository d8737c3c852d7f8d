CONSTANTS
    Directories = {d1, d2}
    Heap = {t1, t2}
    Static = {t0}
    NULL = NULL
    PageSize = 4
    Entries = 2
    Inputs <- MCInputs
    Frames <- MCFrames
    Rights <- MCRights
SPECIFICATION Spec
SYMMETRY Symmetry
INVARIANTS
    TablesInv
    NoLeak
PROPERTY ImplementsAddressSpace
CHECK_DEADLOCK FALSE
