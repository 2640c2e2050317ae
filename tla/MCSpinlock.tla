---------------------------- MODULE MCSpinlock ----------------------------
EXTENDS Spinlock, TLC

CONSTANTS c1, c2, c3

MCCPUs == {c1, c2, c3}

CPUSymmetry == Permutations(MCCPUs)
=============================================================================
