------------------------------ MODULE RootJobs ------------------------------
(***************************************************************************)
(* The markroot job counters of the GOLF collector (mgcmark.go, mgc.go).   *)
(*                                                                         *)
(* A mark cycle publishes the root jobs 0 .. markrootJobs-1 and the mark   *)
(* workers claim them by advancing markrootNext.  In the baseline runtime  *)
(* the number of jobs is fixed for the whole cycle and a claim is one      *)
(* Xadd; GOLF appends jobs while workers are claiming (a blocked goroutine *)
(* found runnable becomes a new stack root), so the claim is the           *)
(* compare-and-swap loop of gcUpdateMarkrootNext, modelled here one atomic *)
(* load or CAS per step.                                                   *)
(***************************************************************************)
EXTENDS Naturals

CONSTANTS
  Workers,          \* the Ps that run mark workers or assists
  BaseStacks,       \* work.baseStacks: number of jobs that are not stacks
  MaxStackRoots     \* bound on work.nStackRoots, the goroutines of a cycle

ASSUME BoundsAssumption == BaseStacks \in Nat /\ MaxStackRoots \in Nat

VARIABLES
  markrootNext,      \* the next job to claim
  markrootJobs,      \* the number of jobs published
  nStackRoots,       \* the goroutines of the snapshot
  nValidStackRoots,  \* the ones found runnable so far
  pc,                \* where each worker is in gcUpdateMarkrootNext
  next,              \* its local variable of that name
  claims             \* history: how often each job was handed out this cycle

vars == <<markrootNext, markrootJobs, nStackRoots, nValidStackRoots, pc, next, claims>>

\* The indices markroot can be called with, plus one past the end.
Jobs == 0 .. (BaseStacks + MaxStackRoots)
Labels == {"idle", "test", "cas", "reload", "retest"}

TypeOK ==
  /\ markrootNext \in Nat
  /\ markrootJobs \in 0 .. (BaseStacks + MaxStackRoots)
  /\ nStackRoots \in 0 .. MaxStackRoots
  /\ nValidStackRoots \in 0 .. nStackRoots
  /\ pc \in [Workers -> Labels]
  /\ next \in [Workers -> Nat]
  /\ claims \in [Jobs -> Nat]

Goto(w, label) == pc' = [pc EXCEPT ![w] = label]

\* gcUpdateMarkrootNext returns (and what is left in its local is gone).
Return(w) == Goto(w, "idle") /\ next' = [next EXCEPT ![w] = 0]

\* No worker is inside gcUpdateMarkrootNext: the code runs non-preemptibly, so
\* this is what a stopped world guarantees.
Stopped == \A w \in Workers : pc[w] = "idle"

(* The collector is off: nothing is published and nothing is claimed.      *)
Init ==
  /\ markrootNext = 0 /\ markrootJobs = 0
  /\ nStackRoots = 0 /\ nValidStackRoots = 0
  /\ pc = [w \in Workers |-> "idle"]
  /\ next = [w \in Workers |-> 0]
  /\ claims = [j \in Jobs |-> 0]

(* gcMarkRootPrepare, world stopped: a new cycle.  The previous one has    *)
(* drained its jobs, otherwise gcMark panics.                              *)
Prepare(n, v) ==
  /\ Stopped
  /\ markrootNext >= markrootJobs
  /\ nStackRoots' = n
  /\ nValidStackRoots' = v
  /\ markrootNext' = 0
  /\ markrootJobs' = BaseStacks + v
  /\ claims' = [j \in Jobs |-> 0]
  /\ UNCHANGED <<pc, next>>

(* gcDiscoverMoreStackRoots moved the boundary to v while workers claim.   *)
Discover(v) ==
  /\ BaseStacks + v > markrootJobs
  /\ nValidStackRoots' = v
  /\ markrootJobs' = BaseStacks + v
  /\ UNCHANGED <<markrootNext, nStackRoots, pc, next, claims>>

(* detectPartialDeadlocks, world stopped and every job claimed: k of the   *)
(* remaining goroutines turned out to be runnable, one job for each.       *)
DetectMore(k) ==
  /\ Stopped
  /\ markrootNext >= markrootJobs
  /\ nValidStackRoots' = nValidStackRoots + k
  /\ markrootJobs' = markrootJobs + k
  /\ UNCHANGED <<markrootNext, nStackRoots, pc, next, claims>>

(* gcUpdateMarkrootNext, one shared access per step.                       *)
LoadNext(w) ==
  /\ pc[w] = "idle"
  /\ next' = [next EXCEPT ![w] = markrootNext]
  /\ Goto(w, "test")
  /\ UNCHANGED <<markrootNext, markrootJobs, nStackRoots, nValidStackRoots, claims>>

\* mutant: an off-by-one in the availability test
TestOffByOne(w) ==
  /\ pc[w] = "test"
  /\ IF next[w] + 1 < markrootJobs THEN Goto(w, "cas") /\ UNCHANGED next ELSE Return(w)
  /\ UNCHANGED <<markrootNext, markrootJobs, nStackRoots, nValidStackRoots, claims>>

Test(w) ==
  /\ pc[w] = "test"
  /\ IF next[w] < markrootJobs THEN Goto(w, "cas") /\ UNCHANGED next ELSE Return(w)
  /\ UNCHANGED <<markrootNext, markrootJobs, nStackRoots, nValidStackRoots, claims>>

\* mutant: the baseline's claim, an unconditional Xadd
Xadd(w) ==
  /\ pc[w] = "cas"
  /\ markrootNext' = markrootNext + 1
  /\ claims' = IF markrootNext \in Jobs THEN [claims EXCEPT ![markrootNext] = @ + 1] ELSE claims
  /\ Return(w)
  /\ UNCHANGED <<markrootJobs, nStackRoots, nValidStackRoots>>

\* mutant: load and store instead of a compare-and-swap
StoreNext(w) ==
  /\ pc[w] = "cas"
  /\ markrootNext' = next[w] + 1
  /\ claims' = [claims EXCEPT ![next[w]] = @ + 1]
  /\ Return(w)
  /\ UNCHANGED <<markrootJobs, nStackRoots, nValidStackRoots>>

CasSucceeds(w) ==
  /\ pc[w] = "cas"
  /\ markrootNext = next[w]
  /\ markrootNext' = next[w] + 1
  /\ claims' = [claims EXCEPT ![next[w]] = @ + 1]
  /\ Return(w)
  /\ UNCHANGED <<markrootJobs, nStackRoots, nValidStackRoots>>

CasFails(w) ==
  /\ pc[w] = "cas"
  /\ markrootNext # next[w]
  /\ Goto(w, "reload")
  /\ UNCHANGED <<markrootNext, markrootJobs, nStackRoots, nValidStackRoots, next, claims>>

Reload(w) ==
  /\ pc[w] = "reload"
  /\ next' = [next EXCEPT ![w] = markrootNext]
  /\ Goto(w, "retest")
  /\ UNCHANGED <<markrootNext, markrootJobs, nStackRoots, nValidStackRoots, claims>>

Retest(w) ==
  /\ pc[w] = "retest"
  /\ IF next[w] < markrootJobs THEN Goto(w, "cas") /\ UNCHANGED next ELSE Return(w)
  /\ UNCHANGED <<markrootNext, markrootJobs, nStackRoots, nValidStackRoots, claims>>

Worker(w) ==
  \/ LoadNext(w)
  \/ Test(w)
  \/ CasSucceeds(w)
  \/ CasFails(w)
  \/ Reload(w)
  \/ Retest(w)

Next ==
  \/ \E n \in 0 .. MaxStackRoots : \E v \in 0 .. n : Prepare(n, v)
  \/ \E v \in nValidStackRoots .. nStackRoots : Discover(v)
  \/ \E k \in 1 .. (nStackRoots - nValidStackRoots) : DetectMore(k)
  \/ \E w \in Workers : Worker(w)

(* findRunnableGCWorker keeps scheduling a mark worker while               *)
(* gcMarkWorkAvailable says there are jobs; new cycles are not promised.   *)
Fairness == \A w \in Workers : WF_vars(Worker(w))

Spec == Init /\ [][Next]_vars /\ Fairness

-----------------------------------------------------------------------------
(* The claim counter never passes the number of jobs published.  With the  *)
(* baseline's Xadd it would, and a job appended later would fall into the  *)
(* gap and never be scanned.                                               *)
NextWithinJobs == markrootNext <= markrootJobs

(* Every job below the counter was handed out exactly once and no other    *)
(* was: a second scan of a stack is the throw "g already scanned", and a   *)
(* job skipped is a goroutine whose references are lost.                   *)
ClaimedExactlyOnce ==
  \A j \in Jobs : claims[j] = IF j < markrootNext THEN 1 ELSE 0

(* A worker told "no more jobs" was told the truth: at the instant it gave *)
(* up, every job published so far had been claimed.                        *)
GivesUpOnlyWhenDrained ==
  [][ \A w \in Workers :
        pc[w] \in {"test", "retest"} /\ pc'[w] = "idle" => markrootNext = markrootJobs ]_vars

(* A job appended at any moment, even while every worker is leaving with   *)
(* "no more jobs", is claimed eventually.                                  *)
EveryJobClaimed == []<>(markrootNext = markrootJobs)
=============================================================================
