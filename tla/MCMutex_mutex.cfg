\* Mutual exclusion of the dirty-list mutex; TLC finds it broken.
CONSTANTS
    t1 = t1  t2 = t2  t3 = t3
    Threads <- MCThreads
    NoThread = NoThread
    MaxRounds = 2
SPECIFICATION Spec
SYMMETRY ThreadSymmetry
INVARIANT MutualExclusion
CHECK_DEADLOCK FALSE
