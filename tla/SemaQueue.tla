----------------------------- MODULE SemaQueue -----------------------------
(***************************************************************************)
(* What a semaRoot promises: for every key a queue of waiters.  Sync waits *)
(* use the masked address of the semaphore as their key, all others the    *)
(* plain one; a masked address is greater than every plain one.  A release *)
(* knows only the address and looks for masked waiters first.              *)
(***************************************************************************)
EXTENDS Integers, Sequences, SequencesExt

CONSTANTS
  Sudog,            \* blocked goroutines, each with its own sudog
  Addr,             \* addresses of semaphores that share the semaRoot
  MaskBit           \* the bits gcMask sets; 0 when gcdetectdeadlocks=0

VARIABLE waiters    \* key -> the queue of sudogs, first in line first

Masked(a) == a + MaskBit
Key == Addr \cup {Masked(a) : a \in Addr}
Idle == {s \in Sudog : \A k \in Key : s \notin ToSet(waiters[k])}
KeyOf(a, isSync) == IF isSync THEN Masked(a) ELSE a

Init == waiters = [k \in Key |-> <<>>]

Queue(s, a, lifo, isSync) ==
  waiters' = [waiters EXCEPT ![KeyOf(a, isSync)] = IF lifo THEN <<s>> \o @ ELSE Append(@, s)]

Dequeue(a) ==
  LET k == KeyOf(a, waiters[Masked(a)] # <<>>) IN
  /\ waiters[k] # <<>>
  /\ waiters' = [waiters EXCEPT ![k] = Tail(@)]

GcDequeue(s, a) ==
  \E i \in DOMAIN waiters[Masked(a)] :
    /\ waiters[Masked(a)][i] = s
    /\ waiters' = [waiters EXCEPT ![Masked(a)] = RemoveAt(@, i)]

Next ==
  \/ \E s \in Idle, a \in Addr, lifo, isSync \in BOOLEAN : Queue(s, a, lifo, isSync)
  \/ \E a \in Addr : Dequeue(a)
  \/ \E s \in Sudog, a \in Addr : GcDequeue(s, a)

Spec == Init /\ [][Next]_waiters
=============================================================================
