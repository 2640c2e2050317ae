---------------------------- MODULE MCSchedSys ----------------------------
EXTENDS SchedSys, TLC

CONSTANTS c1, c2, h1, h2, h3, h4, x1, x2, t1, t2, p1, p2

MCCallers == {c1, c2}
MCHandles == {h1, h2, h3}
MCHandles4 == {h1, h2, h3, h4}
MCProcs == {p1, p2}
MCCtxs == {x1}
MCCtxs2 == {x1, x2}
MCThrs == {t1, t2}

Symmetry == Permutations(MCCallers) \cup Permutations(MCHandles)
            \cup Permutations(MCThrs) \cup Permutations(MCProcs)
=============================================================================
