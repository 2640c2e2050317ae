\* Two files on a volume of four clusters of two bytes, three calls, and
\* any transfer of a call may fail.
CONSTANTS
    f1 = f1  f2 = f2
    Files <- MCFiles
    BPC = 2
    NClusters = 4
    Offsets = {0, 1}
    Counts = {1, 2, 3}
    TruncSizes = {0, 1, 3}
    IoErrors = TRUE
    MaxCalls = 3
SPECIFICATION Spec
SYMMETRY Symmetry
INVARIANT FatIntegrity
