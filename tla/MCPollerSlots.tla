--------------------------- MODULE MCPollerSlots ---------------------------
EXTENDS PollerSlots, TLC

CONSTANTS t1, t2, l1, r1, r2, r3

TwoThreads == {t1, t2}
OnePoint == {l1}
TwoRequests == {r1, r2}
ThreeRequests == {r1, r2, r3}

Alike == Permutations({t1, t2}) \cup Permutations({r1, r2, r3})
=============================================================================
