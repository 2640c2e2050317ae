------------------------------ MODULE MCMutex ------------------------------
EXTENDS Mutex, TLC

CONSTANTS t1, t2, t3

MCThreads == {t1, t2, t3}

\* Threads are interchangeable: no property names one.
ThreadSymmetry == Permutations(MCThreads)
=============================================================================
