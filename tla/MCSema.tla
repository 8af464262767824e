------------------------------- MODULE MCSema -------------------------------
(***************************************************************************)
(* Three goroutines on two semaphores of one root.  Like those of the sync *)
(* package they start without permits; whoever has not called anything yet *)
(* might as well have used the first.                                      *)
(***************************************************************************)
EXTENDS Sema

CONSTANTS p1, p2, p3, a1, a2

ThreeProcs == {p1, p2, p3}
TwoAddrs == {a1, a2}

MCInit ==
  /\ value = [a \in Addr |-> 0] /\ permits = value
  /\ nwait = 0 /\ lock = Nobody /\ releases = 0 /\ reports = 0 /\ doomed = {}
  /\ pc = [p \in Proc |-> "idle"]
  /\ addr = [p \in Proc |-> a1]
  /\ wakes = [p \in Proc |-> p]
  /\ ticket = [p \in Proc |-> 0]

MCFairSpec == MCInit /\ [][Next]_vars /\ \A p \in Proc : WF_vars(Continue(p))
=============================================================================
