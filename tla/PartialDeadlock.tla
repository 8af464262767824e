--------------------------- MODULE PartialDeadlock ---------------------------
(***************************************************************************)
(* What a collector that detects partial deadlocks promises: it may report *)
(* a set of blocked goroutines, and it may free objects, only when it has  *)
(* a certificate that no other goroutine can ever reach what they wait     *)
(* for, respectively the objects freed.  How it finds one is GolfMark's    *)
(* business; that a certificate once found is never invalidated by what    *)
(* the program does next is proved in GolfMark_proof.                     *)
(***************************************************************************)
EXTENDS Goroutines

\* The program is caught in any state in which it has not been looked at yet:
\* queues hold exactly the waiting goroutines, nobody is being woken.
ContractInit ==
  /\ ProgramTypeOK
  /\ \A g \in Goroutine :
       /\ status[g] # "_Gdeadlocked"
       /\ status[g] \in {"_Gidle", "_Gdead"} => stack[g] = {}
       /\ stack[g] \subseteq allocated
       /\ waitingOn[g] \subseteq stack[g] /\ CanWaitFor(waitingOn[g])
       /\ status[g] # "_Gwaiting" => waitingOn[g] = {}
  /\ queue = [o \in Object |-> {g \in Goroutine : o \in waitingOn[g]}]
  /\ waking = [g \in Goroutine |-> {}]
  /\ Closed(allocated)

Program ==
  \E g \in Goroutine :
    \/ \E o \in Object : Load(g, o) \/ Forget(g, o) \/ New(g, o)
    \/ LoadGlobal(g)
    \/ \E o \in Object, v \in Object \cup {Nil} : Store(g, o, v)
    \/ \E v \in Object \cup {Nil} : StoreGlobal(g, v)
    \/ \E h \in Goroutine, args \in SUBSET Object : Go(g, h, args)
    \/ Goexit(g)
    \/ \E objs \in SUBSET Object : Park(g, objs)
    \/ Sleep(g)
    \/ WakeUp(g)
    \/ \E o \in Object, hs \in SUBSET Goroutine, v \in Object \cup {Nil}, keep \in BOOLEAN :
         Dequeue(g, o, hs, v, keep)
    \/ \E h \in Goroutine : Ready(g, h)

\* M certifies that the goroutines of D cannot be woken by the others.
Certifies(M, D) ==
  /\ Closed(M)
  /\ \A g \in Goroutine \ D : status[g] # "_Gdeadlocked" => stack[g] \subseteq M
  /\ \A g \in D : waitingOn[g] \cap M = {}

\* gcdetectdeadlocks=1 recycles them, gcdetectdeadlocks=2 keeps them.
Report(D) ==
  /\ \A g \in D : status[g] = "_Gwaiting" /\ g \notin BeingWoken
  /\ \E M \in SUBSET Object : Certifies(M, D)
  /\ Recycle(D) \/ Keep(D)

\* Memory held by kept goroutines is kept as well.
FreeGarbage(objs) ==
  /\ \E M \in SUBSET Object :
       /\ Closed(M) /\ M \cap objs = {}
       /\ \A g \in Goroutine : stack[g] \subseteq M
  /\ Free(objs)

ContractNext ==
  \/ Program
  \/ \E D \in SUBSET Goroutine : Report(D)
  \/ \E objs \in SUBSET Object : FreeGarbage(objs)

Contract == ContractInit /\ [][ContractNext]_progVars
=============================================================================
