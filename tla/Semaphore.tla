----------------------------- MODULE Semaphore -----------------------------
(***************************************************************************)
(* What sema.go promises its callers: permits are neither made nor lost,   *)
(* and nobody acquires what has not been released.  Memory that has been   *)
(* collected and allocated again starts without permits.                   *)
(***************************************************************************)
EXTENDS Integers

CONSTANT Addr

VARIABLE permits    \* semaphore -> what may still be acquired

Init == permits \in [Addr -> Nat]

Acquire(a) == permits[a] > 0 /\ permits' = [permits EXCEPT ![a] = @ - 1]
Release(a) == permits' = [permits EXCEPT ![a] = @ + 1]
Reuse(a) == permits' = [permits EXCEPT ![a] = 0]

Next == \E a \in Addr : Acquire(a) \/ Release(a) \/ Reuse(a)

Spec == Init /\ [][Next]_permits
=============================================================================
