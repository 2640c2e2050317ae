\* Calls made one CPU at a time, as at boot: two ready lists, three threads.
CONSTANTS
    a = a  b = b  c = c
    Threads <- MCThreads
    Nil = Nil
    NCPUs = 2
    Callers = {0}
    ReadyFrom = {"new"}
    MaxCalls = 7
SPECIFICATION Spec
SYMMETRY ThreadSymmetry
INVARIANT ListsWellFormed
INVARIANT ReadyCountExact
