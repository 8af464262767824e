-------------------------------- MODULE Sema --------------------------------
(***************************************************************************)
(* Acquiring and releasing the semaphores of one semaRoot: the fast paths  *)
(* without the lock, the slow paths under it, and the collector   *)
(* taking waiters off semaphores nobody can reach any more.  One action    *)
(* per atomic access or critical section.  Which of the waiters of a       *)
(* semaphore is dequeued is left open: their order is SemaQueue's.         *)
(***************************************************************************)
EXTENDS Integers, FiniteSets

CONSTANTS
  Proc,             \* goroutines
  Addr,             \* semaphores that share the semaRoot
  Nobody,
  MaxReleases,      \* bound on the calls of semrelease1
  MaxReports        \* bound on the collections that report somebody

ASSUME ProcAssumption == IsFiniteSet(Proc) /\ Nobody \notin Proc
ASSUME BoundsAssumption == MaxReleases \in Nat /\ MaxReports \in Nat

VARIABLES
  value,            \* semaphore -> its counter, *addr
  nwait,            \* root.nwait
  lock,             \* the holder of root.lock
  pc,               \* goroutine -> where it is
  addr,             \* goroutine -> the semaphore of its current or last call
  wakes,            \* goroutine -> the waiter it has dequeued, itself if none
  ticket,           \* goroutine -> s.ticket of its sudog, 1 for any nonzero value
  doomed,           \* semaphores whose waiters have been reported
  releases,
  reports,
  permits           \* history: released and not yet acquired, as callers see it

vars == <<value, nwait, lock, pc, addr, wakes, ticket, doomed, releases, reports, permits>>

Acquiring == {"lock", "recheck", "undo", "queue", "parked", "dequeued", "ready"}
Releasing == {"released", "rlock", "rrecheck", "runlock", "handoff", "wake"}

TypeOK ==
  /\ value \in [Addr -> Nat]
  /\ nwait \in Nat
  /\ lock \in Proc \cup {Nobody}
  /\ pc \in [Proc -> {"idle"} \cup Acquiring \cup Releasing]
  /\ addr \in [Proc -> Addr]
  /\ wakes \in [Proc -> Proc]
  /\ ticket \in [Proc -> {0, 1}]
  /\ doomed \subseteq Addr
  /\ releases \in 0 .. MaxReleases
  /\ reports \in 0 .. MaxReports
  /\ permits \in [Addr -> Int]

Init ==
  /\ value \in [Addr -> Nat] /\ permits = value
  /\ nwait = 0 /\ lock = Nobody /\ releases = 0 /\ reports = 0 /\ doomed = {}
  /\ pc = [p \in Proc |-> "idle"]
  /\ addr \in [Proc -> Addr]
  /\ wakes = [p \in Proc |-> p]
  /\ ticket = [p \in Proc |-> 0]

Parked(a) == {p \in Proc : pc[p] = "parked" /\ addr[p] = a}

\* cansemacquire: atomic, since it retries until it has either seen zero or won.
cansemacquire(a) == value[a] > 0 /\ value' = [value EXCEPT ![a] = @ - 1]
GoTo(p, l) == pc' = [pc EXCEPT ![p] = l]
Acquired(a) == permits' = [permits EXCEPT ![a] = @ - 1]
-----------------------------------------------------------------------------
(* semacquire1 *)
AcquireEasy(p, a) ==
  /\ pc[p] = "idle" /\ a \notin doomed
  /\ cansemacquire(a) /\ Acquired(a)
  /\ UNCHANGED <<nwait, lock, pc, addr, wakes, ticket, doomed, releases, reports>>

AcquireHard(p, a) ==
  /\ pc[p] = "idle" /\ a \notin doomed /\ value[a] = 0
  /\ GoTo(p, "lock") /\ addr' = [addr EXCEPT ![p] = a] /\ ticket' = [ticket EXCEPT ![p] = 0]
  /\ UNCHANGED <<value, nwait, lock, wakes, doomed, releases, reports, permits>>

\* mutant: the semaphore is not tried again after nwait has been raised
AddWaiterAndQueue(p) ==
  /\ pc[p] = "lock" /\ lock = Nobody
  /\ lock' = p /\ nwait' = nwait + 1 /\ GoTo(p, "queue")
  /\ UNCHANGED <<value, addr, wakes, ticket, doomed, releases, reports, permits>>

AddWaiter(p) ==
  /\ pc[p] = "lock" /\ lock = Nobody
  /\ lock' = p /\ nwait' = nwait + 1 /\ GoTo(p, "recheck")
  /\ UNCHANGED <<value, addr, wakes, ticket, doomed, releases, reports, permits>>

RecheckSucceeds(p) ==
  /\ pc[p] = "recheck"
  /\ cansemacquire(addr[p]) /\ GoTo(p, "undo")
  /\ UNCHANGED <<nwait, lock, addr, wakes, ticket, doomed, releases, reports, permits>>

Undo(p) ==
  /\ pc[p] = "undo"
  /\ nwait' = nwait - 1 /\ lock' = Nobody /\ GoTo(p, "idle") /\ Acquired(addr[p])
  /\ UNCHANGED <<value, addr, wakes, ticket, doomed, releases, reports>>

RecheckFails(p) ==
  /\ pc[p] = "recheck" /\ value[addr[p]] = 0 /\ GoTo(p, "queue")
  /\ UNCHANGED <<value, nwait, lock, addr, wakes, ticket, doomed, releases, reports, permits>>

\* queue and goparkunlock, which unlocks only when the goroutine has parked.  In
\* the treap the ticket of the first in line is its random priority, never zero.
Queue(p) ==
  /\ pc[p] = "queue" /\ lock' = Nobody /\ GoTo(p, "parked")
  /\ \E t \in {0, 1} : ticket' = [ticket EXCEPT ![p] = t]
  /\ UNCHANGED <<value, nwait, addr, wakes, doomed, releases, reports, permits>>

HandedOff(p) ==
  /\ pc[p] = "ready" /\ ticket[p] # 0
  /\ GoTo(p, "idle") /\ Acquired(addr[p]) /\ ticket' = [ticket EXCEPT ![p] = 0]
  /\ UNCHANGED <<value, nwait, lock, addr, wakes, doomed, releases, reports>>

ReadySucceeds(p) ==
  /\ pc[p] = "ready" /\ ticket[p] = 0
  /\ cansemacquire(addr[p]) /\ GoTo(p, "idle") /\ Acquired(addr[p])
  /\ UNCHANGED <<nwait, lock, addr, wakes, ticket, doomed, releases, reports>>

ReadyFails(p) ==
  /\ pc[p] = "ready" /\ ticket[p] = 0 /\ value[addr[p]] = 0 /\ GoTo(p, "lock")
  /\ UNCHANGED <<value, nwait, lock, addr, wakes, ticket, doomed, releases, reports, permits>>
-----------------------------------------------------------------------------
(* semrelease1 *)
Release(p, a) ==
  /\ pc[p] = "idle" /\ a \notin doomed /\ releases < MaxReleases
  /\ value' = [value EXCEPT ![a] = @ + 1] /\ permits' = [permits EXCEPT ![a] = @ + 1]
  /\ releases' = releases + 1
  /\ GoTo(p, "released") /\ addr' = [addr EXCEPT ![p] = a]
  /\ UNCHANGED <<nwait, lock, wakes, ticket, doomed, reports>>

NobodyWaits(p) ==
  /\ pc[p] = "released" /\ nwait = 0 /\ GoTo(p, "idle")
  /\ UNCHANGED <<value, nwait, lock, addr, wakes, ticket, doomed, releases, reports, permits>>

SomebodyWaits(p) ==
  /\ pc[p] = "released" /\ nwait # 0 /\ GoTo(p, "rlock")
  /\ UNCHANGED <<value, nwait, lock, addr, wakes, ticket, doomed, releases, reports, permits>>

LockRoot(p) ==
  /\ pc[p] = "rlock" /\ lock = Nobody /\ lock' = p /\ GoTo(p, "rrecheck")
  /\ UNCHANGED <<value, nwait, addr, wakes, ticket, doomed, releases, reports, permits>>

\* mutant: a single waiter is overlooked
AlreadyConsumedOffByOne(p) ==
  /\ pc[p] = "rrecheck" /\ nwait <= 1 /\ lock' = Nobody /\ GoTo(p, "idle")
  /\ UNCHANGED <<value, nwait, addr, wakes, ticket, doomed, releases, reports, permits>>

AlreadyConsumed(p) ==
  /\ pc[p] = "rrecheck" /\ nwait = 0 /\ lock' = Nobody /\ GoTo(p, "idle")
  /\ UNCHANGED <<value, nwait, addr, wakes, ticket, doomed, releases, reports, permits>>

\* Whoever is counted in nwait waits for another semaphore of the root.
NobodyOnAddr(p) ==
  /\ pc[p] = "rrecheck" /\ nwait # 0 /\ Parked(addr[p]) = {} /\ lock' = Nobody /\ GoTo(p, "idle")
  /\ UNCHANGED <<value, nwait, addr, wakes, ticket, doomed, releases, reports, permits>>

\* mutant: the priority of the treap stays in the ticket
DequeueKeepsTicket(p, w) ==
  /\ pc[p] = "rrecheck" /\ nwait # 0 /\ w \in Parked(addr[p])
  /\ pc' = [pc EXCEPT ![p] = "runlock", ![w] = "dequeued"]
  /\ wakes' = [wakes EXCEPT ![p] = w]
  /\ UNCHANGED <<value, nwait, lock, addr, ticket, doomed, releases, reports, permits>>

Dequeue(p, w) ==
  /\ pc[p] = "rrecheck" /\ nwait # 0 /\ w \in Parked(addr[p])
  /\ pc' = [pc EXCEPT ![p] = "runlock", ![w] = "dequeued"]
  /\ wakes' = [wakes EXCEPT ![p] = w] /\ ticket' = [ticket EXCEPT ![w] = 0]
  /\ UNCHANGED <<value, nwait, lock, addr, doomed, releases, reports, permits>>

Unlock(p) ==
  /\ pc[p] = "runlock" /\ nwait' = nwait - 1 /\ lock' = Nobody /\ GoTo(p, "handoff")
  /\ UNCHANGED <<value, addr, wakes, ticket, doomed, releases, reports, permits>>

\* The argument handoff is read nowhere else, so it is chosen here.
Handoff(p) ==
  /\ pc[p] = "handoff" /\ cansemacquire(addr[p])
  /\ ticket' = [ticket EXCEPT ![wakes[p]] = 1] /\ GoTo(p, "wake")
  /\ UNCHANGED <<nwait, lock, addr, wakes, doomed, releases, reports, permits>>

NoHandoff(p) ==
  /\ pc[p] = "handoff" /\ GoTo(p, "wake")
  /\ UNCHANGED <<value, nwait, lock, addr, wakes, ticket, doomed, releases, reports, permits>>

readyWithTime(p) ==
  /\ pc[p] = "wake" /\ pc' = [pc EXCEPT ![p] = "idle", ![wakes[p]] = "ready"]
  /\ wakes' = [wakes EXCEPT ![p] = p]
  /\ UNCHANGED <<value, nwait, lock, addr, ticket, doomed, releases, reports, permits>>
-----------------------------------------------------------------------------
(* The collector.  It reports the waiters of a semaphore all other          *)
(* goroutines have lost (GolfMark says when), recycles them one by one, in  *)
(* a world that runs, and only then frees the memory for reuse.             *)
Report(a) ==
  /\ reports < MaxReports /\ reports' = reports + 1
  /\ a \notin doomed /\ Parked(a) # {}
  /\ \A p \in Proc : addr[p] = a => pc[p] \in {"idle", "parked"}
  /\ doomed' = doomed \cup {a}
  /\ UNCHANGED <<value, nwait, lock, pc, addr, wakes, ticket, releases, permits>>

\* mutant: nwait keeps counting the goroutine that is gone
GcDequeueUncounted(p) ==
  /\ pc[p] = "parked" /\ addr[p] \in doomed /\ lock = Nobody /\ GoTo(p, "idle")
  /\ UNCHANGED <<value, nwait, lock, addr, wakes, ticket, doomed, releases, reports, permits>>

GcDequeue(p) ==
  /\ pc[p] = "parked" /\ addr[p] \in doomed /\ lock = Nobody
  /\ nwait' = nwait - 1 /\ ticket' = [ticket EXCEPT ![p] = 0] /\ GoTo(p, "idle")
  /\ UNCHANGED <<value, lock, addr, wakes, doomed, releases, reports, permits>>

Reuse(a) ==
  /\ a \in doomed /\ Parked(a) = {}
  /\ doomed' = doomed \ {a} /\ value' = [value EXCEPT ![a] = 0] /\ permits' = [permits EXCEPT ![a] = 0]
  /\ UNCHANGED <<nwait, lock, pc, addr, wakes, ticket, releases, reports>>

Call(p) ==
  \E a \in Addr : AcquireEasy(p, a) \/ AcquireHard(p, a) \/ Release(p, a)

Continue(p) ==
  \/ AddWaiter(p) \/ RecheckSucceeds(p) \/ Undo(p) \/ RecheckFails(p) \/ Queue(p)
  \/ HandedOff(p) \/ ReadySucceeds(p) \/ ReadyFails(p)
  \/ NobodyWaits(p) \/ SomebodyWaits(p) \/ LockRoot(p) \/ AlreadyConsumed(p) \/ NobodyOnAddr(p)
  \/ \E w \in Proc : Dequeue(p, w)
  \/ Unlock(p) \/ Handoff(p) \/ NoHandoff(p) \/ readyWithTime(p)

Collect == (\E p \in Proc : GcDequeue(p)) \/ \E a \in Addr : Report(a) \/ Reuse(a)

Next == (\E p \in Proc : Call(p) \/ Continue(p)) \/ Collect

Spec == Init /\ [][Next]_vars

\* A goroutine that is not parked goes on: runnable goroutines get to run.
FairSpec == Spec /\ \A p \in Proc : WF_vars(Continue(p))
-----------------------------------------------------------------------------
(* Properties. *)

\* nwait counts the goroutines that are queued, about to be, or no longer and
\* not yet subtracted, however acquirers, releasers and the collector interleave
\* (semacquire1, semrelease1, gcDequeue): a fast path that reads zero is right.
Counted == {p \in Proc : pc[p] \in {"recheck", "undo", "queue", "parked", "runlock"}}
NwaitExact == nwait = Cardinality(Counted)

\* Goroutines on their way to a's permits: releasers that have not looked for a
\* waiter, and waiters that have been dequeued and not been served.
InFlight(a) ==
  {p \in Proc : addr[p] = a /\ \/ pc[p] \in {"released", "rlock", "rrecheck"}
                               \/ pc[p] \in {"dequeued", "ready"} /\ ticket[p] = 0}

\* No wake-up is missed: while somebody is queued for a semaphore, every permit
\* it has is about to be offered ("avoid missed wakeup", semacquire1).
NoMissedWakeup ==
  \A a \in Addr : Parked(a) # {} => value[a] <= Cardinality(InFlight(a))

\* No permit is made or lost, whether it goes through the counter or is handed
\* off in the ticket, and nobody returns from semacquire1 without one.
Abstract == INSTANCE Semaphore
ImplementsSemaphore == Abstract!Spec

\* A semaphore does not stay free while somebody is parked on it.
PermitsFindWaiters ==
  \A a \in Addr : (value[a] > 0 /\ Parked(a) # {}) ~> (value[a] = 0 \/ Parked(a) = {})
=============================================================================
