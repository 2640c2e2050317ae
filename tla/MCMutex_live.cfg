\* Every acquisition eventually completes; threads blocked for ever
\* are the behaviour examined, so end states are not reported.
CONSTANTS
    t1 = t1  t2 = t2  t3 = t3
    Threads <- MCThreads
    NoThread = NoThread
    MaxRounds = 1
SPECIFICATION Spec
PROPERTY AcquireCompletes
CHECK_DEADLOCK FALSE
