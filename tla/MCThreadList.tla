---------------------------- MODULE MCThreadList ----------------------------
EXTENDS ThreadList, TLC

CONSTANTS a, b, c

MCThreads == {a, b, c}

\* Threads are interchangeable; CPUs are not (the CPU loop prefers the
\* lowest index).
ThreadSymmetry == Permutations(MCThreads)
=============================================================================
