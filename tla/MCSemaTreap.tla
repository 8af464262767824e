---------------------------- MODULE MCSemaTreap ----------------------------
(* Four waiters on up to four keys (two semaphores, masked and plain). *)
EXTENDS SemaTreap, TLC

CONSTANTS s1, s2, s3, s4

MCSudog == {s1, s2, s3, s4}
MCTickets == {1, 3}
Symmetric == Permutations(Sudog)
=============================================================================
