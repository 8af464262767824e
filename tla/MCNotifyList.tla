---------------------------- MODULE MCNotifyList ----------------------------
EXTENDS NotifyList, TLC

CONSTANTS p1, p2, p3

ThreeProcs == {p1, p2, p3}
=============================================================================
