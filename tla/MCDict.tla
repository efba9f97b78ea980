------------------------------- MODULE MCDict -------------------------------
EXTENDS Dict

ThreeKeys == 1..3
SevenKeys == 1..7
NineAddresses == 1..9
FifteenAddresses == 1..15
=============================================================================
