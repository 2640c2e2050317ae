\* Dirty regions never overlap; TLC finds overlapping ones.
CONSTANTS
    t1 = t1  t2 = t2
    Threads <- MCThreads
    NoThread = NoThread
    FilePages = 3
    Sizes = {1, 2}
    PageSize = 2
    GetOffsets = {0, 1}
    GetSizes = {2}
    ReadFails = {FALSE}
    MaxOps = 3
SPECIFICATION Spec
SYMMETRY ThreadSymmetry
INVARIANT RegionsDisjoint
