---------------------------- MODULE MCPollerStop ----------------------------
(* A small pool for TLC. *)
EXTENDS PollerStop

CONSTANTS main, t1, s1, s2

Pool == {main, t1}
OneStopper == {s1}
TwoStoppers == {s1, s2}
=============================================================================
