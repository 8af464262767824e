-------------------------------- MODULE Cond --------------------------------
(***************************************************************************)
(* What a notify list promises sync.Cond: those who wait are notified in   *)
(* the order in which they took their tickets, and nobody returns from     *)
(* Wait who has not been notified.  The collector may take away a waiter.  *)
(***************************************************************************)
EXTENDS Sequences, SequencesExt

CONSTANT Proc

VARIABLES
  waiting,    \* goroutines in Wait
  pending     \* those of them nobody has notified yet, first come first

vars == <<waiting, pending>>

Init == waiting = {} /\ pending = <<>>

Wait(p) == p \notin waiting /\ waiting' = waiting \cup {p} /\ pending' = Append(pending, p)
Return(p) == p \in waiting \ ToSet(pending) /\ waiting' = waiting \ {p} /\ UNCHANGED pending
Signal == pending # <<>> /\ pending' = Tail(pending) /\ UNCHANGED waiting
Broadcast == pending' = <<>> /\ UNCHANGED waiting
Reclaim(p) ==
  \E i \in 1 .. Len(pending) :
    pending[i] = p /\ waiting' = waiting \ {p} /\ pending' = RemoveAt(pending, i)

Next == Signal \/ Broadcast \/ \E p \in Proc : Wait(p) \/ Return(p) \/ Reclaim(p)

Spec == Init /\ [][Next]_vars
=============================================================================
