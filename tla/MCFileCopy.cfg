SPECIFICATION CopySpec
CONSTANTS
    Copiers = {c1}
    Versions = {"copy", "sol"}
    Contents <- MCContents
    CommandLines <- MCCommandLines
INVARIANTS
    CopiedWhole
CHECK_DEADLOCK FALSE
