--------------------------- MODULE MCPollerTimer ---------------------------
EXTENDS PollerTimer, TLC

CONSTANTS t1, t2, c1, c2

TwoThreads == {t1, t2}
TwoConns == {c1, c2}

Alike == Permutations(TwoThreads) \cup Permutations(TwoConns)
=============================================================================
