---------------------------- MODULE MCMarkRoots ----------------------------
(* A background worker, a user that assists and a user that traces.        *)
EXTENDS MarkRoots

CONSTANTS w, a, t

MCGoroutine == {a, w, t}
MCWorkers == {w, a}
MCUsers == {a, t}
MCTracers == {t}
MCMaxStackRoots == 3
=============================================================================
