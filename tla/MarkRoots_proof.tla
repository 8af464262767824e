-------------------------- MODULE MarkRoots_proof --------------------------
(***************************************************************************)
(* Suspending goroutines is safe for every set of goroutines, workers and  *)
(* tracers and any number of cycles: no stack is shared (StackOwned),      *)
(* whoever readies a goroutine finds it waiting (ReadyFindsWaiting), every *)
(* stopped goroutine has somebody to resume it (StoppedHasOwner), and what *)
(* RootJobs promises of the jobs holds while goroutines come and go.       *)
(*                                                                         *)
(* The facts that carry the induction: what an M does with a goroutine     *)
(* determines its status (Placed); the scan bit has one holder, who keeps  *)
(* the status from changing (Locked); a goroutine that was stopped for a   *)
(* suspender is in no queue and nobody else's (Owned); and a request is    *)
(* made by somebody who then waits for it (Sought).                        *)
(***************************************************************************)
EXTENDS MarkRoots, FiniteSetTheorems, TLAPS

-----------------------------------------------------------------------------
(* The root-job counters by themselves (RootJobs), for any number of      *)
(* workers, fixed jobs and goroutines.                                     *)

(* What a worker holds in its local variable: a value the counter has      *)
(* passed or still has, and, once the test let it through, a job that has  *)
(* been published.  Jobs are only appended, so the test cannot be undone.  *)
LocalNext ==
  \A w \in Workers :
    /\ pc[w] # "idle" => next[w] <= markrootNext
    /\ pc[w] = "cas"  => next[w] < markrootJobs

(* Jobs are appended only up to the goroutines of the snapshot.            *)
JobsWithinSnapshot ==
  \/ markrootJobs = BaseStacks + nValidStackRoots
  \/ markrootJobs = 0 /\ nStackRoots = 0

IInv == TypeOK /\ NextWithinJobs /\ LocalNext /\ JobsWithinSnapshot /\ ClaimedExactlyOnce

LEMMA InitIInv == Init => IInv
  BY BoundsAssumption
  DEF Init, IInv, TypeOK, NextWithinJobs, LocalNext, JobsWithinSnapshot, ClaimedExactlyOnce,
      Labels, Jobs

(* The strengthened invariant survives every step.                         *)
LEMMA NextIInv == IInv /\ [Next]_vars => IInv'
<1> SUFFICES ASSUME IInv, [Next]_vars
             PROVE  IInv'
  OBVIOUS
<1> USE BoundsAssumption
    DEF IInv, TypeOK, NextWithinJobs, LocalNext, JobsWithinSnapshot, ClaimedExactlyOnce, Labels
<1>1. ASSUME NEW n \in 0 .. MaxStackRoots, NEW v \in 0 .. n, Prepare(n, v)
      PROVE  IInv'
  BY <1>1 DEF Prepare, Stopped, Jobs
<1>2. ASSUME NEW v \in nValidStackRoots .. nStackRoots, Discover(v)
      PROVE  IInv'
  BY <1>2 DEF Discover
<1>3. ASSUME NEW k \in 1 .. (nStackRoots - nValidStackRoots), DetectMore(k)
      PROVE  IInv'
  BY <1>3 DEF DetectMore, Stopped
<1>4. ASSUME NEW w \in Workers, LoadNext(w)
      PROVE  IInv'
  BY <1>4 DEF LoadNext, Goto, Return
<1>5. ASSUME NEW w \in Workers, Test(w)
      PROVE  IInv'
  BY <1>5 DEF Test, Goto, Return
<1>6. ASSUME NEW w \in Workers, CasSucceeds(w)
      PROVE  IInv'
  <2>1. next[w] = markrootNext /\ next[w] < markrootJobs /\ next[w] \in Jobs
    BY <1>6 DEF CasSucceeds, Return, Goto, Jobs
  <2>2. ClaimedExactlyOnce'
    BY <1>6, <2>1 DEF CasSucceeds, Return, Goto, Jobs
  <2>3. TypeOK' /\ NextWithinJobs' /\ LocalNext' /\ JobsWithinSnapshot'
    BY <1>6, <2>1 DEF CasSucceeds, Goto, Return
  <2> QED
    BY <2>2, <2>3
<1>7. ASSUME NEW w \in Workers, CasFails(w)
      PROVE  IInv'
  BY <1>7 DEF CasFails, Goto, Return
<1>8. ASSUME NEW w \in Workers, Reload(w)
      PROVE  IInv'
  BY <1>8 DEF Reload, Goto, Return
<1>9. ASSUME NEW w \in Workers, Retest(w)
      PROVE  IInv'
  BY <1>9 DEF Retest, Goto, Return
<1>10. CASE UNCHANGED vars
  BY <1>10 DEF vars
<1> QED
  BY <1>1, <1>2, <1>3, <1>4, <1>5, <1>6, <1>7, <1>8, <1>9, <1>10 DEF Next, Worker

(* The strengthened invariant holds throughout every behaviour.            *)
LEMMA Inductive == Spec => []IInv
  BY InitIInv, NextIInv, PTL DEF Spec

(* gcUpdateMarkrootNext never drives markrootNext past markrootJobs, so    *)
(* no appended job is skipped.                                             *)
THEOREM ClaimsStayWithinJobs == Spec => []NextWithinJobs
<1>1. IInv => NextWithinJobs
  BY DEF IInv
<1> QED
  BY Inductive, <1>1, PTL

(* Every job below the counter is handed out once: no stack is scanned     *)
(* twice, none is skipped.                                                 *)
THEOREM JobsClaimedOnce == Spec => []ClaimedExactlyOnce
<1>1. IInv => ClaimedExactlyOnce
  BY DEF IInv
<1> QED
  BY Inductive, <1>1, PTL

(* Only the test of the caller's own copy of markrootNext makes it give up. *)
LEMMA GivesUpDrained ==
  ASSUME IInv, Next, NEW w \in Workers, pc[w] \in {"test", "retest"}, pc'[w] = "idle"
  PROVE  markrootNext = markrootJobs
<1> USE DEF IInv, TypeOK, NextWithinJobs, LocalNext, Labels
<1>1. PICK u \in Workers : Test(u) \/ Retest(u)
  BY DEF Next, Worker, Prepare, Discover, DetectMore, LoadNext, CasSucceeds, CasFails, Reload,
      Goto, Return, Stopped
<1>2. u = w
  BY <1>1 DEF Test, Retest, Goto, Return
<1>3. next[w] >= markrootJobs
  BY <1>1, <1>2, BoundsAssumption DEF Test, Retest, Goto, Return
<1> QED
  BY <1>3, BoundsAssumption

(* gcUpdateMarkrootNext returns false only at an instant at which all      *)
(* published jobs are claimed.                                             *)
THEOREM FailureMeansDrained == Spec => GivesUpOnlyWhenDrained
<1>1. IInv /\ [Next]_vars =>
        [ \A w \in Workers :
            pc[w] \in {"test", "retest"} /\ pc'[w] = "idle" => markrootNext = markrootJobs ]_vars
  BY GivesUpDrained
<1> QED
  BY Inductive, <1>1, PTL DEF Spec, GivesUpOnlyWhenDrained
-----------------------------------------------------------------------------
(* The goroutines the jobs are for.                                        *)

Typed ==
  /\ status \in [Goroutine -> Status]
  /\ scan \in [Goroutine -> BOOLEAN]
  /\ preemptStop \in [Goroutine -> BOOLEAN]
  /\ hasM \in [Goroutine -> BOOLEAN]
  /\ at \in [Goroutine -> At]
  /\ leaving \in [Goroutine -> {"no", "sched", "park", "preempt", "exit"}]
  /\ runq \in SUBSET Goroutine
  /\ waiter \in [Goroutine -> {"none", "queued", "taken"}]
  /\ target \in [Goroutine -> Goroutine]
  /\ stopped \in [Goroutine -> BOOLEAN]
  /\ masked \subseteq Goroutine /\ unclaimed \subseteq Goroutine
  /\ gcdetectdeadlocks \in Modes
  /\ stopper \in Goroutine \cup {None}
  /\ stopper # None => at[stopper] = "stop"

Placed ==
  \A g \in Goroutine :
    /\ at[g] \in {"user", "stop"} <=> status[g] = "running"
    /\ at[g] = "syscall" <=> status[g] = "syscall"
    /\ at[g] \in OnSystemStack => status[g] = "waiting" /\ waiter[g] = "none"
    /\ at[g] # "off" => hasM[g] /\ leaving[g] = "no"
    /\ waiter[g] # "none" => status[g] = "waiting" /\ leaving[g] = "no"
    /\ g \in runq => status[g] = "runnable" /\ leaving[g] = "no"
    /\ leaving[g] = "sched" => status[g] = "runnable"
    /\ leaving[g] = "park" => status[g] = "waiting"
    /\ leaving[g] = "preempt" => status[g] = "preempted" /\ scan[g]
    /\ leaving[g] = "exit" => status[g] = "dead"

Locked ==
  \A s \in Goroutine :
    /\ at[s] \in {"scan", "request"} => scan[target[s]] /\ leaving[target[s]] # "preempt"
    /\ at[s] = "scan" => status[target[s]] \in {"runnable", "syscall", "waiting", "deadlocked"}
    /\ at[s] = "request" => status[target[s]] = "running"
    /\ \A r \in Goroutine : Holds(r, target[s]) /\ Holds(s, target[s]) => r = s

Owned ==
  \A s \in Goroutine :
    /\ at[s] = "ready" => stopped[s]
    /\ stopped[s] =>
         /\ at[s] \in {"suspend", "scan", "ready"}
         /\ status[target[s]] = "waiting" /\ waiter[target[s]] = "none"
         /\ at[target[s]] = "off" /\ leaving[target[s]] = "no"
         /\ \A r \in Goroutine : stopped[r] /\ target[r] = target[s] => r = s

Seeks(s, g) == at[s] \in {"suspend", "request"} /\ target[s] = g

Sought ==
  \A g \in Goroutine :
    /\ status[g] = "preempted" \/ (preemptStop[g] /\ leaving[g] # "exit") =>
         \E s \in Goroutine : Seeks(s, g)
    /\ status[g] = "dead" /\ leaving[g] # "exit" => ~preemptStop[g]
    /\ status[g] = "waiting" =>
         \/ waiter[g] # "none"
         \/ leaving[g] = "park"
         \/ at[g] \in OnSystemStack
         \/ \E s \in Goroutine : stopped[s] /\ target[s] = g

StatusIInv == Typed /\ Placed /\ Locked /\ Owned /\ Sought

USE DEF Status, OnSystemStack, At

LEMMA StatusInitIInv == StatusInit => StatusIInv
  BY RolesAssumption DEF StatusInit, StatusIInv, Typed, Placed, Locked, Owned, Sought, Holds

(* The scheduler's steps change one goroutine and no suspender.            *)
LEMMA SchedulerKeeps == ASSUME StatusIInv, NEW g \in Goroutine, Scheduler(g) PROVE StatusIInv'
<1> USE DEF StatusIInv, Typed, Placed, Locked, Owned, Holds, suspendVars, cycleVars
<1> UNCHANGED <<suspendVars, cycleVars>>
  BY DEF Scheduler
<1>1. CASE Execute(g)
  BY <1>1 DEF Execute, Casgstatus, Sought, Seeks
<1>2. CASE Gosched(g)
  BY <1>2 DEF Gosched, Running, Casgstatus, SwitchFrom, Sought, Seeks
<1>3. CASE Park(g)
  BY <1>3 DEF Park, Running, Casgstatus, SwitchFrom, Sought, Seeks
<1>4. CASE PreemptPark(g)
  BY <1>4 DEF PreemptPark, Running, SwitchFrom, Sought, Seeks
<1>5. CASE Exit(g)
  BY <1>5 DEF Exit, Running, Casgstatus, SwitchFrom, Sought, Seeks
<1>6. CASE FinishSched(g)
  BY <1>6 DEF FinishSched, Sought, Seeks
<1>7. CASE FinishPark(g)
  BY <1>7 DEF FinishPark, Sought, Seeks
<1>8. CASE FinishPreempt(g)
  BY <1>8 DEF FinishPreempt, Sought, Seeks
<1>9. CASE FinishExit(g)
  BY <1>9 DEF FinishExit, Sought, Seeks
<1>10. CASE Newproc(g)
  BY <1>10 DEF Newproc, Casgstatus, Sought, Seeks
<1>11. CASE EnterSyscall(g)
  BY <1>11 DEF EnterSyscall, Running, Casgstatus, Sought, Seeks
<1>12. CASE ExitSyscall(g)
  BY <1>12 DEF ExitSyscall, Casgstatus, Sought, Seeks
<1>13. CASE ExitSyscallNoP(g)
  BY <1>13 DEF ExitSyscallNoP, Casgstatus, SwitchFrom, Sought, Seeks
<1>14. CASE Dequeue(g)
  BY <1>14 DEF Dequeue, Sought, Seeks
<1>15. CASE Ready(g)
  BY <1>15 DEF Ready, Casgstatus, Sought, Seeks
<1> QED
  BY <1>1, <1>2, <1>3, <1>4, <1>5, <1>6, <1>7, <1>8, <1>9, <1>10, <1>11, <1>12, <1>13, <1>14,
      <1>15
  DEF Scheduler, Finish

(* Workers, assists and the tracer.                                        *)
LEMMA SuspenderKeeps ==
  ASSUME StatusIInv, NEW s \in Goroutine, DrainEnter(s) \/ DrainLeave(s) \/ Suspender(s)
  PROVE  StatusIInv'
<1> USE DEF StatusIInv, Typed, Placed, Locked, Owned, Holds, suspendVars, cycleVars
<1>1. CASE DrainEnter(s)
  BY <1>1 DEF DrainEnter, Running, Casgstatus, Sought, Seeks
<1>2. CASE DrainLeave(s)
  BY <1>2 DEF DrainLeave, Casgstatus, Sought, Seeks
<1>3. CASE Trace(s)
  BY <1>3 DEF Trace, StartSuspend, Sought, Seeks
<1>4. CASE LockRunning(s)
  BY <1>4 DEF LockRunning, Sought, Seeks
<1>5. CASE Request(s)
  BY <1>5 DEF Request, Sought, Seeks
<1>6. CASE Resume(s) /\ stopped[s]
  <2>1. /\ at[s] = "scan"
        /\ scan' = [scan EXCEPT ![target[s]] = FALSE]
        /\ at' = [at EXCEPT ![s] = "ready"]
        /\ UNCHANGED <<status, preemptStop, hasM, leaving, runq, waiter, target, stopped, cycleVars>>
    BY <1>6 DEF Resume
  <2>2. Typed' /\ Placed'
    BY <2>1
  <2>3. Locked'
    BY <2>1
  <2>4. Owned'
    BY <1>6, <2>1
  <2>5. Sought'
    BY <2>1 DEF Sought, Seeks
  <2> QED
    BY <2>2, <2>3, <2>4, <2>5
<1>11. CASE Resume(s) /\ ~stopped[s]
  <2>1. /\ at[s] = "scan"
        /\ scan' = [scan EXCEPT ![target[s]] = FALSE]
        /\ at' = [at EXCEPT ![s] = "drain"]
        /\ target' = [target EXCEPT ![s] = s]
        /\ UNCHANGED <<status, preemptStop, hasM, leaving, runq, waiter, stopped, cycleVars>>
    BY <1>11 DEF Resume, Done
  <2>2. Typed' /\ Placed'
    BY <2>1
  <2>4. Locked'
    BY <2>1
  <2>5. Owned'
    BY <1>11, <2>1
  <2>3. Sought'
    <3>1. ASSUME NEW g \in Goroutine, NEW r \in Goroutine, Seeks(r, g)
          PROVE  Seeks(r, g)'
      BY <2>1, <3>1 DEF Seeks
    <3>2. ASSUME NEW g \in Goroutine, NEW r \in Goroutine, stopped[r], target[r] = g
          PROVE  stopped'[r] /\ target'[r] = g
      BY <1>11, <2>1, <3>2
    <3> QED
      BY <2>1, <3>1, <3>2 DEF Sought
  <2> QED
    BY <2>2, <2>3, <2>4, <2>5
<1>7. CASE ReadyStopped(s)
  BY <1>7 DEF ReadyStopped, Done, Casgstatus, Sought, Seeks
<1>8. CASE Catch(s) /\ SeeDead(s, target[s])
  BY <1>8 DEF Catch, SeeDead, Done, Sought, Seeks
<1>9. CASE Catch(s) /\ TakePreempted(s, target[s])
  BY <1>9 DEF Catch, TakePreempted, Casgstatus, Sought, Seeks
<1>10. CASE Catch(s) /\ TakeStopped(s, target[s])
  BY <1>10 DEF Catch, TakeStopped, Sought, Seeks
<1> QED
  BY <1>1, <1>2, <1>3, <1>4, <1>5, <1>6, <1>7, <1>8, <1>9, <1>10, <1>11
  DEF Suspender, Ask, Catch

LEMMA ClaimKeeps == ASSUME StatusIInv, NEW w \in Workers, Claim(w) PROVE StatusIInv'
<1> USE DEF StatusIInv, Typed, Placed, Locked, Owned, Holds, suspendVars, cycleVars
<1>1. CASE UNCHANGED <<at, target, unclaimed>>
  BY <1>1 DEF Claim, Sought, Seeks
<1>2. CASE \E g \in unclaimed : StartSuspend(w, g) /\ unclaimed' = unclaimed \ {g}
  BY <1>2, RolesAssumption DEF Claim, StartSuspend, Sought, Seeks
<1> QED
  BY <1>1, <1>2 DEF Claim

(* Nobody is suspending while the world is stopped, and who is blocked is  *)
(* in a queue.                                                             *)
LEMMA CollectorKeeps ==
  ASSUME StatusIInv, (\E c \in Goroutine : StopTheWorld(c)) \/ DiscoverRoots \/ InStoppedWorld
  PROVE  StatusIInv'
<1> USE DEF StatusIInv, Typed, Placed, Locked, Owned, Holds, suspendVars, cycleVars
<1>1. CASE \E c \in Goroutine : StopTheWorld(c)
  BY <1>1 DEF StopTheWorld, Running, Sought, Seeks
<1>2. CASE StartCycle
  BY <1>2 DEF StartCycle, WorldStopped, StartTheWorld, Sought, Seeks
<1>3. CASE DiscoverRoots
  BY <1>3 DEF DiscoverRoots, Promote, gVars, Sought, Seeks
<1>4. CASE DetectRoots
  BY <1>4 DEF DetectRoots, Promote, WorldStopped, StartTheWorld, Sought, Seeks
<1>5. CASE Detect
  BY <1>5 DEF Detect, Blocked, WorldStopped, StartTheWorld, Sought, Seeks
<1> QED
  BY <1>1, <1>2, <1>3, <1>4, <1>5 DEF InStoppedWorld

LEMMA StatusNextIInv == StatusIInv /\ [StatusNext]_allVars => StatusIInv'
<1> SUFFICES ASSUME StatusIInv, [StatusNext]_allVars PROVE StatusIInv'
  OBVIOUS
<1>1. CASE UNCHANGED allVars
  BY <1>1 DEF allVars, gVars, suspendVars, cycleVars, StatusIInv, Typed, Placed, Locked, Owned,
      Sought, Seeks, Holds
<1> QED
  BY <1>1, SchedulerKeeps, SuspenderKeeps, ClaimKeeps, CollectorKeeps DEF StatusNext

LEMMA StatusInductive == StatusSpec => []StatusIInv
  BY StatusInitIInv, StatusNextIInv, PTL DEF StatusSpec

LEMMA Part ==
  ASSUME NEW S, IsFiniteSet(S), NEW T \in SUBSET S
  PROVE  /\ IsFiniteSet(T) /\ IsFiniteSet(S \ T)
         /\ Cardinality(S) \in Nat /\ Cardinality(T) \in 0 .. Cardinality(S)
         /\ Cardinality(S \ T) = Cardinality(S) - Cardinality(T)
         /\ T # {} => Cardinality(T) > 0
<1>1. IsFiniteSet(T) /\ Cardinality(T) <= Cardinality(S)
  BY FS_Subset
<1>2. Cardinality(S) \in Nat /\ Cardinality(T) \in Nat
  BY <1>1, FS_CardinalityType
<1>3. S \cap T = T
  OBVIOUS
<1>4. IsFiniteSet(S \ T) /\ Cardinality(S \ T) = Cardinality(S) - Cardinality(T)
  BY <1>3, FS_Difference
<1>5. T # {} => Cardinality(T) # 0
  BY <1>1, FS_EmptySet
<1> QED
  BY <1>1, <1>2, <1>4, <1>5

(* The jobs, with the goroutines they are for.                             *)
JobsInv == IInv /\ RootsOK

LEMMA InitJobsInv == StatusInit => JobsInv
<1> SUFFICES ASSUME StatusInit PROVE JobsInv
  OBVIOUS
<1>1. IInv
  BY InitIInv DEF StatusInit
<1>2. RootsOK
  BY FS_EmptySet, BoundsAssumption DEF StatusInit, Init, RootsOK
<1> QED
  BY <1>1, <1>2 DEF JobsInv

(* A claim takes one entry, and only a job of a stack has one.             *)
LEMMA ClaimKeepsJobs == ASSUME JobsInv, NEW w \in Workers, Claim(w) PROVE JobsInv'
<1>1. IInv'
  BY NextIInv DEF Claim, Next, JobsInv
<1> USE DEF JobsInv, IInv, TypeOK, NextWithinJobs, LocalNext, JobsWithinSnapshot, RootsOK
<1>2. masked' = masked /\ UNCHANGED <<markrootJobs, nStackRoots, nValidStackRoots>>
  BY DEF Claim, Worker, LoadNext, Test, CasSucceeds, CasFails, Reload, Retest
<1>3. markrootNext' = markrootNext \/ markrootNext' = markrootNext + 1
  BY DEF Claim, Worker, LoadNext, Test, CasSucceeds, CasFails, Reload, Retest
<1>4. IsFiniteSet(unclaimed)
  BY RolesAssumption, FS_Subset
<1>5. CASE markrootNext' > markrootNext /\ markrootNext \in BaseStacks .. (markrootJobs - 1)
  <2>1. PICK g \in unclaimed : unclaimed' = unclaimed \ {g}
    BY <1>5 DEF Claim
  <2>2. Cardinality(unclaimed') = Cardinality(unclaimed) - 1
    BY <1>4, <2>1, FS_RemoveElement
  <2> QED
    BY <1>1, <1>2, <1>3, <1>5, <2>1, <2>2, BoundsAssumption
<1>6. CASE ~(markrootNext' > markrootNext /\ markrootNext \in BaseStacks .. (markrootJobs - 1))
  <2>1. unclaimed' = unclaimed
    BY <1>6 DEF Claim
  <2> QED
    BY <1>1, <1>2, <1>3, <1>6, <2>1, BoundsAssumption
<1> QED
  BY <1>5, <1>6

LEMMA StartKeepsJobs == ASSUME JobsInv, StartCycle PROVE JobsInv'
<1> DEFINE n == Cardinality(Goroutine)
           v == Cardinality(unclaimed')
<1>1. masked' \in SUBSET Goroutine /\ unclaimed' = Goroutine \ masked'
  BY DEF StartCycle
<1>2. n \in Nat /\ v \in 0 .. n /\ Cardinality(masked') = n - v
  BY <1>1, Part, RolesAssumption
<1>3. Prepare(n, v)
  BY DEF StartCycle
<1>4. IInv'
  <2>1. n \in 0 .. MaxStackRoots
    BY <1>2, RolesAssumption
  <2> HIDE DEF n, v
  <2>2. Next
    BY <1>2, <1>3, <2>1 DEF Next
  <2> QED
    BY <2>2, NextIInv DEF JobsInv
<1>5. RootsOK'
  BY <1>1, <1>2, <1>3, BoundsAssumption DEF Prepare, RootsOK
<1> QED
  BY <1>4, <1>5 DEF JobsInv

(* Found entries change sides, with a job for each.                        *)
LEMMA PromoteKeepsRoots ==
  ASSUME JobsInv, NEW found \in SUBSET masked, Promote(found),
         nStackRoots' = nStackRoots, markrootNext' = markrootNext,
         nValidStackRoots' = nValidStackRoots + Cardinality(found),
         markrootJobs' = BaseStacks + nValidStackRoots'
  PROVE  /\ Cardinality(found) \in 1 .. (nStackRoots - nValidStackRoots)
         /\ markrootJobs = BaseStacks + nValidStackRoots
         /\ RootsOK'
<1> USE DEF JobsInv, IInv, TypeOK, NextWithinJobs, JobsWithinSnapshot, RootsOK
<1>1. IsFiniteSet(masked) /\ IsFiniteSet(unclaimed)
  BY RolesAssumption, FS_Subset
<1>2. /\ IsFiniteSet(found) /\ Cardinality(found) \in 1 .. Cardinality(masked)
      /\ Cardinality(masked') = Cardinality(masked) - Cardinality(found)
  <2>1. found # {} /\ masked' = masked \ found
    BY DEF Promote
  <2>2. /\ IsFiniteSet(found) /\ Cardinality(masked) \in Nat
        /\ Cardinality(found) \in 0 .. Cardinality(masked)
        /\ Cardinality(masked \ found) = Cardinality(masked) - Cardinality(found)
        /\ found # {} => Cardinality(found) > 0
    BY <1>1, Part
  <2> QED
    BY <2>1, <2>2
<1>3. Cardinality(found) \in 1 .. (nStackRoots - nValidStackRoots)
  BY <1>2
<1>4. markrootJobs = BaseStacks + nValidStackRoots
  BY <1>3
<1>5. Cardinality(unclaimed') = Cardinality(unclaimed) + Cardinality(found)
  <2>1. unclaimed \cap found = {}
    OBVIOUS
  <2>2. Cardinality(unclaimed \cup found)
          = Cardinality(unclaimed) + Cardinality(found) - Cardinality(unclaimed \cap found)
    BY <1>1, <1>2, FS_Union
  <2>3. Cardinality(unclaimed) \in Nat /\ Cardinality(found) \in Nat
    BY <1>1, <1>2, FS_CardinalityType
  <2>4. unclaimed' = unclaimed \cup found
    BY DEF Promote
  <2>5. Cardinality(unclaimed \cap found) = 0
    BY <2>1, FS_EmptySet
  <2>6. Cardinality(unclaimed \cup found) = Cardinality(unclaimed) + Cardinality(found)
    BY <2>2, <2>3, <2>5
  <2> QED
    BY <2>4, <2>6
<1>6. masked' \subseteq Goroutine /\ unclaimed' \subseteq Goroutine \ masked'
  BY DEF Promote
<1>7. Cardinality(masked') = nStackRoots' - nValidStackRoots'
  BY <1>2
<1>8. Cardinality(unclaimed') = markrootJobs' - (IF markrootNext' < BaseStacks /\ markrootJobs' > 0
                                                 THEN BaseStacks ELSE markrootNext')
  BY <1>2, <1>4, <1>5, BoundsAssumption
<1> QED
  BY <1>3, <1>4, <1>6, <1>7, <1>8

LEMMA DiscoverKeepsJobs == ASSUME JobsInv, DiscoverRoots PROVE JobsInv'
<1>1. PICK found \in SUBSET masked :
        Promote(found) /\ Discover(nValidStackRoots + Cardinality(found))
  BY DEF DiscoverRoots
<1>2. Cardinality(found) \in 1 .. (nStackRoots - nValidStackRoots) /\ RootsOK'
  BY <1>1, PromoteKeepsRoots DEF Discover
<1>3. Next
  <2> DEFINE v == nValidStackRoots + Cardinality(found)
  <2>1. v \in nValidStackRoots .. nStackRoots /\ Discover(v)
    BY <1>1, <1>2 DEF JobsInv, IInv, TypeOK
  <2> HIDE DEF v
  <2> QED
    BY <2>1 DEF Next
<1> QED
  BY <1>2, <1>3, NextIInv DEF JobsInv

LEMMA DetectRootsKeepsJobs == ASSUME JobsInv, DetectRoots PROVE JobsInv'
<1>1. PICK found \in SUBSET masked : Promote(found) /\ DetectMore(Cardinality(found))
  BY DEF DetectRoots
<1>2. IsFiniteSet(masked) /\ Cardinality(found) \in 1 .. Cardinality(masked)
  <2>1. IsFiniteSet(masked)
    BY RolesAssumption, FS_Subset DEF JobsInv, RootsOK
  <2> QED
    BY <1>1, <2>1, Part DEF Promote
<1>3. markrootJobs = BaseStacks + nValidStackRoots
  BY <1>2 DEF JobsInv, IInv, TypeOK, JobsWithinSnapshot, RootsOK
<1>4. Cardinality(found) \in 1 .. (nStackRoots - nValidStackRoots) /\ RootsOK'
  <2>1. markrootJobs' = BaseStacks + nValidStackRoots'
    BY <1>1, <1>2, <1>3, BoundsAssumption DEF DetectMore, JobsInv, IInv, TypeOK
  <2> QED
    BY <1>1, <2>1, PromoteKeepsRoots DEF DetectMore
<1>5. Next
  BY <1>1, <1>4 DEF Next
<1> QED
  BY <1>4, <1>5, NextIInv DEF JobsInv

(* The drain of the last goroutines in one step, which RootJobs has not.   *)
LEMMA DetectKeepsJobs == ASSUME JobsInv, Detect PROVE JobsInv'
<1> USE DEF JobsInv, IInv, TypeOK, NextWithinJobs, LocalNext, JobsWithinSnapshot, RootsOK
<1> DEFINE n == Cardinality(masked)
<1>1. n \in Nat /\ n > 0
  <2>1. IsFiniteSet(masked) /\ masked # {}
    BY RolesAssumption, FS_Subset DEF Detect
  <2> QED
    BY <2>1, Part
<1>2. markrootJobs = BaseStacks + nValidStackRoots /\ markrootNext = markrootJobs
  BY <1>1 DEF Detect
<1>3. markrootJobs' = BaseStacks + nStackRoots /\ markrootNext' = markrootJobs'
  BY <1>1, <1>2, BoundsAssumption DEF Detect
<1>4. nValidStackRoots' = nStackRoots' /\ nStackRoots' = nStackRoots
  BY DEF Detect
<1>5. \A w \in Workers : pc'[w] = "idle"
  BY DEF Detect, WorldStopped, Stopped
<1>6. claims' \in [Jobs -> Nat] /\ ClaimedExactlyOnce'
  <2>1. claims' = [j \in Jobs |-> IF j \in markrootJobs .. (markrootJobs + n - 1)
                                   THEN claims[j] + 1 ELSE claims[j]]
    BY DEF Detect
  <2>2. markrootNext' = markrootJobs + n
    BY DEF Detect
  <2> HIDE DEF n
  <2> QED
    BY <1>1, <1>2, <2>1, <2>2, BoundsAssumption DEF ClaimedExactlyOnce, Jobs
<1>7. IInv'
  <2>1. UNCHANGED <<pc, next>>
    BY DEF Detect
  <2> QED
    BY <1>2, <1>3, <1>4, <1>5, <1>6, <2>1, BoundsAssumption DEF Labels
<1>8. RootsOK'
  <2>1. masked' = {} /\ unclaimed' = unclaimed
    BY DEF Detect
  <2>2. Cardinality(unclaimed) = 0
    BY <1>2, BoundsAssumption
  <2> QED
    BY <1>2, <1>3, <1>4, <2>1, <2>2, FS_EmptySet, BoundsAssumption
<1> QED
  BY <1>7, <1>8

LEMMA JobsNextInv == JobsInv /\ [StatusNext]_allVars => JobsInv'
<1> SUFFICES ASSUME JobsInv, [StatusNext]_allVars PROVE JobsInv'
  OBVIOUS
<1>1. CASE UNCHANGED <<vars, masked, unclaimed>>
  <2>1. IInv'
    BY <1>1, NextIInv DEF JobsInv
  <2> QED
    BY <1>1, <2>1 DEF JobsInv, RootsOK, vars
<1>2. ASSUME NEW g \in Goroutine, Scheduler(g) \/ DrainEnter(g) \/ DrainLeave(g) \/ Suspender(g)
      PROVE  JobsInv'
  <2>1. UNCHANGED <<vars, masked, unclaimed>>
    BY <1>2 DEF Scheduler, DrainEnter, DrainLeave, Suspender, Trace, Ask, LockRunning, Request,
        Catch, Resume, ReadyStopped, cycleVars
  <2> QED
    BY <1>1, <2>1
<1>3. ASSUME NEW c \in Goroutine, StopTheWorld(c) PROVE JobsInv'
  BY <1>1, <1>3 DEF StopTheWorld
<1>4. CASE UNCHANGED allVars
  BY <1>1, <1>4 DEF allVars, cycleVars
<1> QED
  BY <1>2, <1>3, <1>4, ClaimKeepsJobs, StartKeepsJobs, DiscoverKeepsJobs, DetectRootsKeepsJobs,
     DetectKeepsJobs DEF StatusNext, InStoppedWorld

LEMMA JobsInductive == StatusSpec => []JobsInv
  BY InitJobsInv, JobsNextInv, PTL DEF StatusSpec

(* Jobs stay claimed once, within those published, although goroutines are *)
(* stopped, woken and reported while workers claim.                        *)
THEOREM JobsClaimedOnceTogether == StatusSpec => [](NextWithinJobs /\ ClaimedExactlyOnce)
<1>1. JobsInv => NextWithinJobs /\ ClaimedExactlyOnce
  BY DEF JobsInv, IInv
<1> QED
  BY <1>1, JobsInductive, PTL

(* A worker gives up only when no job is left, also one whose claims are   *)
(* interleaved with suspensions.                                           *)
THEOREM DrainedAtGivingUp == StatusSpec => GivesUpOnlyWhenDrained
<1> DEFINE Drained == \A w \in Workers :
      pc[w] \in {"test", "retest"} /\ pc'[w] = "idle" => markrootNext = markrootJobs
<1>1. JobsInv /\ [StatusNext]_allVars => [Drained]_vars
  <2> SUFFICES ASSUME JobsInv, StatusNext, NEW w \in Workers,
                      pc[w] \in {"test", "retest"}, pc'[w] = "idle"
               PROVE  markrootNext = markrootJobs
    BY DEF allVars
  <2>1. PICK u \in Workers : Worker(u)
    BY DEF StatusNext, Scheduler, DrainEnter, DrainLeave, Suspender, Trace, Ask, LockRunning,
        Request, Catch, Resume, ReadyStopped, StopTheWorld, DiscoverRoots, Discover, InStoppedWorld,
        StartCycle, Prepare, DetectRoots, DetectMore, Detect, Claim, vars
  <2> QED
    BY <2>1, GivesUpDrained DEF Next, JobsInv
<1> QED
  BY JobsInductive, <1>1, PTL DEF StatusSpec, GivesUpOnlyWhenDrained

(* Who is asked to stop, or has stopped, is sought by a suspender that     *)
(* will resume it, and nobody waits where nobody will look.                *)
THEOREM StoppedAreOwned == StatusSpec => []StoppedHasOwner
<1>1. StatusIInv /\ JobsInv => StoppedHasOwner
  <2> SUFFICES ASSUME StatusIInv, JobsInv PROVE StoppedHasOwner
    OBVIOUS
  <2>1. StatusTypeOK
    BY DEF StatusIInv, Typed, JobsInv, IInv, StatusTypeOK
  <2> QED
    BY <2>1 DEF StatusIInv, Sought, Seeks, StoppedHasOwner
<1> QED
  BY <1>1, StatusInductive, JobsInductive, PTL

(* No two suspenders share a stack, no goroutine executes while its stack  *)
(* is scanned or before the M that ran it has let go of it: suspendG,      *)
(* casGToPreemptScan and casgstatus lock each other out.                   *)
THEOREM StacksNeverShared == StatusSpec => []StackOwned
<1>1. StatusIInv => StackOwned
  BY DEF StatusIInv, Typed, Placed, Locked, StackOwned, Holds
<1> QED
  BY <1>1, StatusInductive, PTL

(* ready never finds a goroutine in another status than _Gwaiting, nor one *)
(* that somebody else is going to ready.                                   *)
THEOREM ReadiedOnce == StatusSpec => []ReadyFindsWaiting
<1>1. StatusIInv => ReadyFindsWaiting
  BY DEF StatusIInv, Typed, Placed, Owned, ReadyFindsWaiting
<1> QED
  BY <1>1, StatusInductive, PTL
=============================================================================
