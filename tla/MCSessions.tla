----------------------------- MODULE MCSessions -----------------------------
EXTENDS Sessions, TLC

CONSTANTS t1, t2, t3, i1, i2, d1, d2, d3

TwoThreads == {t1, t2}
ThreeThreads == {t1, t2, t3}
TwoIds == {i1, i2}
First == {i1}
Second == {i2}
None == {}
TwoDicts == {d1, d2}
ThreeDicts == {d1, d2, d3}

Alike == Permutations({t1, t2, t3}) \cup Permutations({d1, d2, d3})
\* What follows the use of a freed dictionary is not explored.
Defined == ~astray
=============================================================================
