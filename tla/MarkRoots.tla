----------------------------- MODULE MarkRoots -----------------------------
(***************************************************************************)
(* Goroutine statuses while root jobs are worked off (preempt.go, proc.go, *)
(* markroot in mgcmark.go).                                                *)
(*                                                                         *)
(* A worker that has claimed the job of a stack (RootJobs) must get hold   *)
(* of a goroutine that runs, parks, is woken or exits meanwhile: suspendG  *)
(* drives it to a safe point and sets the scan bit of its status, which    *)
(* locks out every other change.  The workers are goroutines themselves    *)
(* and scan each other; the execution tracer suspends goroutines as well.  *)
(* GOLF adds the end of the blocked ones: _Gunreachable, then dead or      *)
(* _Gdeadlocked, from where the later cycles must still suspend them.      *)
(***************************************************************************)
EXTENDS RootJobs, FiniteSets

CONSTANTS
  Goroutine, \* the goroutines of allgs
  Users,     \* those of the program; the others are background mark workers
  Tracers,   \* users that advance the execution trace
  Modes,     \* the settings of gcdetectdeadlocks
  None

(* A mark assist is a user that works.  Nobody both marks and traces here. *)
ASSUME RolesAssumption ==
  /\ Users \subseteq Goroutine /\ Workers \subseteq Goroutine
  /\ Goroutine \ Users \subseteq Workers
  /\ Tracers \subseteq Users \ Workers
  /\ IsFiniteSet(Goroutine) /\ MaxStackRoots = Cardinality(Goroutine)
  /\ Modes \subseteq {1, 2}
  /\ None \notin Goroutine

VARIABLES
  gcdetectdeadlocks, \* debug.gcdetectdeadlocks
  status,       \* g.atomicstatus without the scan bit
  scan,         \* the scan bit
  preemptStop,  \* g.preemptStop
  hasM,         \* whether g.m is set
  at,           \* what the M that runs the goroutine is doing
  leaving,      \* an M that switched away from it and has to finish that
  runq,         \* the goroutines in some run queue
  waiter,       \* its place in what it waits for: a queue, or taken off it
  target,       \* suspendG's argument
  stopped,      \* suspendG's local variable of that name
  masked,       \* work.stackRoots from nValidStackRoots on
  unclaimed,    \* work.stackRoots below, as far as no worker has claimed it
  stopper       \* the goroutine that stops or has stopped the world

gVars == <<status, scan, preemptStop, hasM, at, leaving, runq, waiter>>
suspendVars == <<target, stopped>>
cycleVars == <<gcdetectdeadlocks, masked, unclaimed, stopper>>
allVars == <<vars, gVars, suspendVars, cycleVars>>

Status == {"runnable", "running", "syscall", "waiting", "preempted", "dead", "deadlocked"}
\* Where a tracer or worker is on the system stack, after casGToWaiting.
OnSystemStack == {"drain", "suspend", "request", "scan", "ready"}
At == {"off", "user", "syscall", "stop"} \cup OnSystemStack

\* One job for every entry below nValidStackRoots.
RootsOK ==
  /\ masked \subseteq Goroutine /\ Cardinality(masked) = nStackRoots - nValidStackRoots
  /\ unclaimed \subseteq Goroutine \ masked
  /\ Cardinality(unclaimed) = markrootJobs - (IF markrootNext < BaseStacks /\ markrootJobs > 0
                                                THEN BaseStacks ELSE markrootNext)

StatusTypeOK ==
  /\ TypeOK
  /\ status \in [Goroutine -> Status]
  /\ scan \in [Goroutine -> BOOLEAN]
  /\ preemptStop \in [Goroutine -> BOOLEAN]
  /\ hasM \in [Goroutine -> BOOLEAN]
  /\ at \in [Goroutine -> At]
  /\ leaving \in [Goroutine -> {"no", "sched", "park", "preempt", "exit"}]
  /\ runq \in SUBSET Goroutine
  /\ waiter \in [Goroutine -> {"none", "queued", "taken"}]
  /\ target \in [Goroutine -> Goroutine]
  /\ stopped \in [Goroutine -> BOOLEAN]
  /\ RootsOK
  /\ gcdetectdeadlocks \in Modes
  /\ stopper \in Goroutine \cup {None}

(* casgstatus: waits for the status it expects and for the scan bit.       *)
Casgstatus(g, old, new) ==
  /\ status[g] = old /\ ~scan[g]
  /\ status' = [status EXCEPT ![g] = new]
  /\ UNCHANGED scan

Running(g) == at[g] = "user" /\ status[g] = "running"

(* Every other M has come to schedule() or is in a system call.            *)
WorldStopped ==
  /\ stopper # None /\ Stopped
  /\ \A g \in Goroutine :
       leaving[g] = "no" /\ (g = stopper \/ at[g] \in {"off", "syscall"})

(* Everybody has just been started; background workers wait in their pool. *)
StatusInit ==
  /\ Init
  /\ gcdetectdeadlocks \in Modes
  /\ status = [g \in Goroutine |-> IF g \in Users THEN "runnable" ELSE "waiting"]
  /\ waiter = [g \in Goroutine |-> IF g \in Users THEN "none" ELSE "queued"]
  /\ runq = Users
  /\ scan = [g \in Goroutine |-> FALSE]
  /\ preemptStop = [g \in Goroutine |-> FALSE]
  /\ hasM = [g \in Goroutine |-> FALSE]
  /\ at = [g \in Goroutine |-> "off"]
  /\ leaving = [g \in Goroutine |-> "no"]
  /\ target = [g \in Goroutine |-> g]
  /\ stopped = [g \in Goroutine |-> FALSE]
  /\ masked = {} /\ unclaimed = {}
  /\ stopper = None

-----------------------------------------------------------------------------
(* The scheduler.                                                          *)

(* execute, of a goroutine taken off a run queue.                          *)
Execute(g) ==
  /\ g \in runq /\ stopper = None
  /\ Casgstatus(g, "runnable", "running")
  /\ runq' = runq \ {g}
  /\ hasM' = [hasM EXCEPT ![g] = TRUE]
  /\ at' = [at EXCEPT ![g] = "user"]
  /\ UNCHANGED <<preemptStop, leaving, waiter>>

\* The M of g has changed its status and is on its way to schedule().
SwitchFrom(g, why) ==
  /\ at' = [at EXCEPT ![g] = "off"]
  /\ leaving' = [leaving EXCEPT ![g] = why]

(* goschedImpl and goyield, by the program's wish or sysmon's or on the    *)
(* way to a stopped world; and exitsyscall0, when there is no P left.      *)
Gosched(g) ==
  /\ Running(g)
  /\ Casgstatus(g, "running", "runnable")
  /\ SwitchFrom(g, "sched")
  /\ UNCHANGED <<preemptStop, hasM, runq, waiter>>

ExitSyscallNoP(g) ==
  /\ at[g] = "syscall"
  /\ Casgstatus(g, "syscall", "runnable")
  /\ SwitchFrom(g, "sched")
  /\ UNCHANGED <<preemptStop, hasM, runq, waiter>>

(* park_m; the lock of the queue is held until the M has let go of g.      *)
Park(g) ==
  /\ Running(g)
  /\ Casgstatus(g, "running", "waiting")
  /\ SwitchFrom(g, "park")
  /\ UNCHANGED <<preemptStop, hasM, runq, waiter>>

\* mutant: the status that gives g away is set before g has been dropped
PreemptParkUnlocked(g) ==
  /\ Running(g) /\ preemptStop[g]
  /\ Casgstatus(g, "running", "preempted")
  /\ SwitchFrom(g, "preempt")
  /\ UNCHANGED <<preemptStop, hasM, runq, waiter>>

(* preemptPark, at a safe point after a request: the scan bit keeps g from *)
(* everybody until the M has let go of it.                                 *)
PreemptPark(g) ==
  /\ Running(g) /\ preemptStop[g]
  /\ status[g] = "running" /\ ~scan[g]
  /\ status' = [status EXCEPT ![g] = "preempted"]
  /\ scan' = [scan EXCEPT ![g] = TRUE]
  /\ SwitchFrom(g, "preempt")
  /\ UNCHANGED <<preemptStop, hasM, runq, waiter>>

(* gdestroy.                                                               *)
Exit(g) ==
  /\ g \in Users /\ Running(g)
  /\ Casgstatus(g, "running", "dead")
  /\ SwitchFrom(g, "exit")
  /\ UNCHANGED <<preemptStop, hasM, runq, waiter>>

\* mutant: gdestroy leaves preemptStop to the next user of the g
FinishExitOnly(g) ==
  /\ leaving[g] = "exit"
  /\ leaving' = [leaving EXCEPT ![g] = "no"]
  /\ hasM' = [hasM EXCEPT ![g] = FALSE]
  /\ UNCHANGED <<status, scan, preemptStop, at, runq, waiter>>

(* dropg, and what each of them does after it: put g in a queue, unlock,   *)
(* give up the scan bit, put the dead g in the free list.                  *)
FinishSched(g) ==
  /\ leaving[g] = "sched"
  /\ leaving' = [leaving EXCEPT ![g] = "no"]
  /\ hasM' = [hasM EXCEPT ![g] = FALSE]
  /\ runq' = runq \cup {g}
  /\ UNCHANGED <<status, scan, preemptStop, at, waiter>>

FinishPark(g) ==
  /\ leaving[g] = "park"
  /\ leaving' = [leaving EXCEPT ![g] = "no"]
  /\ hasM' = [hasM EXCEPT ![g] = FALSE]
  /\ waiter' = [waiter EXCEPT ![g] = "queued"]
  /\ UNCHANGED <<status, scan, preemptStop, at, runq>>

FinishPreempt(g) ==
  /\ leaving[g] = "preempt"
  /\ leaving' = [leaving EXCEPT ![g] = "no"]
  /\ hasM' = [hasM EXCEPT ![g] = FALSE]
  /\ scan' = [scan EXCEPT ![g] = FALSE]
  /\ UNCHANGED <<status, preemptStop, at, runq, waiter>>

FinishExit(g) ==
  /\ leaving[g] = "exit"
  /\ leaving' = [leaving EXCEPT ![g] = "no"]
  /\ hasM' = [hasM EXCEPT ![g] = FALSE]
  /\ preemptStop' = [preemptStop EXCEPT ![g] = FALSE]
  /\ UNCHANGED <<status, scan, at, runq, waiter>>

Finish(g) == FinishSched(g) \/ FinishPark(g) \/ FinishPreempt(g) \/ FinishExit(g)

(* newproc1, with a g from the free list.                                  *)
Newproc(g) ==
  /\ leaving[g] = "no" /\ ~WorldStopped
  /\ Casgstatus(g, "dead", "runnable")
  /\ runq' = runq \cup {g}
  /\ UNCHANGED <<preemptStop, hasM, at, leaving, waiter>>

EnterSyscall(g) ==
  /\ g \in Users /\ Running(g)
  /\ Casgstatus(g, "running", "syscall")
  /\ at' = [at EXCEPT ![g] = "syscall"]
  /\ UNCHANGED <<preemptStop, hasM, leaving, runq, waiter>>

ExitSyscall(g) ==
  /\ at[g] = "syscall" /\ stopper = None
  /\ Casgstatus(g, "syscall", "running")
  /\ at' = [at EXCEPT ![g] = "user"]
  /\ UNCHANGED <<preemptStop, hasM, leaving, runq, waiter>>

(* Somebody takes g off what it waits for (a worker: off its pool), and    *)
(* readies it a little later.                                              *)
Dequeue(g) ==
  /\ waiter[g] = "queued" /\ status[g] = "waiting" /\ ~WorldStopped
  /\ waiter' = [waiter EXCEPT ![g] = "taken"]
  /\ UNCHANGED <<status, scan, preemptStop, hasM, at, leaving, runq>>

Ready(g) ==
  /\ waiter[g] = "taken" /\ ~WorldStopped
  /\ Casgstatus(g, "waiting", "runnable")
  /\ waiter' = [waiter EXCEPT ![g] = "none"]
  /\ runq' = runq \cup {g}
  /\ UNCHANGED <<preemptStop, hasM, at, leaving>>

Scheduler(g) ==
  /\ \/ Execute(g)
     \/ Gosched(g)
     \/ Park(g)
     \/ PreemptPark(g)
     \/ Exit(g)
     \/ Finish(g)
     \/ Newproc(g)
     \/ EnterSyscall(g)
     \/ ExitSyscall(g)
     \/ ExitSyscallNoP(g)
     \/ Dequeue(g)
     \/ Ready(g)
  /\ UNCHANGED <<vars, suspendVars, cycleVars>>

-----------------------------------------------------------------------------
(* Workers, assists and the tracer.                                        *)

\* mutant: the goroutine stays running while its M drains, as a self-scan
\* would if markroot did not look for it
KeepRunning(s) ==
  /\ s \in Workers \cup Tracers /\ Running(s) /\ ~scan[s]
  /\ at' = [at EXCEPT ![s] = "drain"]
  /\ UNCHANGED <<status, scan, preemptStop, hasM, leaving, runq, waiter>>
  /\ UNCHANGED <<vars, suspendVars, cycleVars>>

(* casGToWaiting, so that others can scan the stack of s, or trace it,     *)
(* while s does the same to them from the system stack.                    *)
DrainEnter(s) ==
  /\ s \in Workers \cup Tracers /\ Running(s)
  /\ Casgstatus(s, "running", "waiting")
  /\ at' = [at EXCEPT ![s] = "drain"]
  /\ UNCHANGED <<preemptStop, hasM, leaving, runq, waiter>>
  /\ UNCHANGED <<vars, suspendVars, cycleVars>>

DrainLeave(s) ==
  /\ at[s] = "drain" /\ (s \in Workers => pc[s] = "idle")
  /\ Casgstatus(s, "waiting", "running")
  /\ at' = [at EXCEPT ![s] = "user"]
  /\ UNCHANGED <<preemptStop, hasM, leaving, runq, waiter>>
  /\ UNCHANGED <<vars, suspendVars, cycleVars>>

\* s starts to suspend g.
StartSuspend(s, g) ==
  /\ at' = [at EXCEPT ![s] = "suspend"]
  /\ target' = [target EXCEPT ![s] = g]

(* The steps of gcUpdateMarkrootNext; a stack root claimed is suspended    *)
(* next, whichever it is; other roots are marked at once, and markroot     *)
(* throws for an index beyond the jobs.                                    *)
Claim(w) ==
  /\ at[w] = "drain"
  /\ Worker(w)
  /\ IF markrootNext' > markrootNext /\ markrootNext \in BaseStacks .. (markrootJobs - 1)
       THEN \E g \in unclaimed : StartSuspend(w, g) /\ unclaimed' = unclaimed \ {g}
       ELSE UNCHANGED <<at, target, unclaimed>>
  /\ UNCHANGED <<status, scan, preemptStop, hasM, leaving, runq, waiter, stopped>>
  /\ UNCHANGED <<gcdetectdeadlocks, masked, stopper>>

(* traceAdvance looks at everybody but itself.                             *)
Trace(s) ==
  /\ s \in Tracers /\ at[s] = "drain"
  /\ \E g \in Goroutine \ {s} : StartSuspend(s, g)
  /\ UNCHANGED <<status, scan, preemptStop, hasM, leaving, runq, waiter, stopped>>
  /\ UNCHANGED <<vars, cycleVars>>

\* s is done with its target (and the local variables with it).
Done(s) ==
  /\ at' = [at EXCEPT ![s] = "drain"]
  /\ target' = [target EXCEPT ![s] = s]

(* The loop of suspendG, one pass per step, by the status it finds.        *)
SeeDead(s, g) ==
  /\ status[g] = "dead"
  /\ Done(s)
  /\ UNCHANGED <<status, scan, preemptStop, stopped>>

(* casGFromPreempted: whoever wins has to ready g when done.               *)
TakePreempted(s, g) ==
  /\ Casgstatus(g, "preempted", "waiting")
  /\ stopped' = [stopped EXCEPT ![s] = TRUE]
  /\ UNCHANGED <<preemptStop, at, target>>

\* mutant: the status the switch ended with decides who readies g
TakeStoppedByStatus(s, g) ==
  /\ status[g] \in {"runnable", "syscall", "waiting", "deadlocked"} /\ ~scan[g]
  /\ scan' = [scan EXCEPT ![g] = TRUE]
  /\ preemptStop' = [preemptStop EXCEPT ![g] = FALSE]
  /\ stopped' = [stopped EXCEPT ![s] = @ \/ status[g] = "waiting"]
  /\ at' = [at EXCEPT ![s] = "scan"]
  /\ UNCHANGED <<status, target>>

(* castogscanstatus at a safe point; the request is taken back.            *)
TakeStopped(s, g) ==
  /\ status[g] \in {"runnable", "syscall", "waiting", "deadlocked"} /\ ~scan[g]
  /\ scan' = [scan EXCEPT ![g] = TRUE]
  /\ preemptStop' = [preemptStop EXCEPT ![g] = FALSE]
  /\ at' = [at EXCEPT ![s] = "scan"]
  /\ UNCHANGED <<status, stopped, target>>

Catch(s) ==
  /\ at[s] = "suspend"
  /\ \/ SeeDead(s, target[s])
     \/ TakePreempted(s, target[s])
     \/ TakeStopped(s, target[s])
  /\ UNCHANGED <<hasM, leaving, runq, waiter>>
  /\ UNCHANGED <<vars, cycleVars>>

(* A running goroutine gets a request, under the scan bit; whoever has     *)
(* made one does not repeat it to the same M, which the model lets it do.  *)
LockRunning(s) ==
  /\ at[s] = "suspend"
  /\ LET g == target[s]
     IN  /\ status[g] = "running" /\ ~scan[g]
         /\ scan' = [scan EXCEPT ![g] = TRUE]
  /\ at' = [at EXCEPT ![s] = "request"]
  /\ UNCHANGED <<status, preemptStop, hasM, leaving, runq, waiter>>
  /\ UNCHANGED <<vars, suspendVars, cycleVars>>

Request(s) ==
  /\ at[s] = "request"
  /\ preemptStop' = [preemptStop EXCEPT ![target[s]] = TRUE]
  /\ scan' = [scan EXCEPT ![target[s]] = FALSE]
  /\ at' = [at EXCEPT ![s] = "suspend"]
  /\ UNCHANGED <<status, hasM, leaving, runq, waiter>>
  /\ UNCHANGED <<vars, suspendVars, cycleVars>>

\* mutant: resumeG forgets whom it stopped
ResumeOnly(s) ==
  /\ at[s] = "scan"
  /\ scan' = [scan EXCEPT ![target[s]] = FALSE]
  /\ Done(s)
  /\ stopped' = [stopped EXCEPT ![s] = FALSE]
  /\ UNCHANGED <<status, preemptStop, hasM, leaving, runq, waiter>>
  /\ UNCHANGED <<vars, cycleVars>>

(* The stack has been scanned: resumeG clears the scan bit ...             *)
Resume(s) ==
  /\ at[s] = "scan"
  /\ scan' = [scan EXCEPT ![target[s]] = FALSE]
  /\ IF stopped[s]
       THEN at' = [at EXCEPT ![s] = "ready"] /\ UNCHANGED target
       ELSE Done(s)
  /\ UNCHANGED <<status, preemptStop, hasM, leaving, runq, waiter, stopped>>
  /\ UNCHANGED <<vars, cycleVars>>

(* ... and readies what this suspendG stopped.                             *)
ReadyStopped(s) ==
  /\ at[s] = "ready"
  /\ Casgstatus(target[s], "waiting", "runnable")
  /\ runq' = runq \cup {target[s]}
  /\ stopped' = [stopped EXCEPT ![s] = FALSE]
  /\ Done(s)
  /\ UNCHANGED <<preemptStop, hasM, leaving, waiter>>
  /\ UNCHANGED <<vars, cycleVars>>

-----------------------------------------------------------------------------
(* The collector.                                                          *)

(* stopTheWorldWithSema, called by gcStart or by gcMarkDone when no worker *)
(* has a root job left.  The caller keeps its status, _Grunning, but is on *)
(* the system stack and cannot be preempted, while the others go on until  *)
(* they come to their stop: who suspends it meanwhile waits for it, and it *)
(* for them.                                                               *)
StopTheWorld(c) ==
  /\ stopper = None /\ Running(c)
  /\ Stopped /\ markrootNext >= markrootJobs
  /\ \A w \in Workers : at[w] \notin {"suspend", "request", "scan", "ready"}
  /\ stopper' = c
  /\ at' = [at EXCEPT ![c] = "stop"]
  /\ UNCHANGED <<status, scan, preemptStop, hasM, leaving, runq, waiter>>
  /\ UNCHANGED <<vars, suspendVars, gcdetectdeadlocks, masked, unclaimed>>

StartTheWorld ==
  /\ stopper' = None
  /\ at' = [at EXCEPT ![stopper] = "user"]

Blocked(g) == g \in Users /\ status[g] = "waiting" /\ waiter[g] = "queued"

(* The snapshot; some blocked goroutines may wait for something outside.   *)
StartCycle ==
  /\ WorldStopped
  /\ nValidStackRoots = nStackRoots
  /\ masked' \in SUBSET {g \in Goroutine : Blocked(g)}
  /\ unclaimed' = Goroutine \ masked'
  /\ Prepare(Cardinality(Goroutine), Cardinality(unclaimed'))
  /\ StartTheWorld
  /\ UNCHANGED <<status, scan, preemptStop, hasM, leaving, runq, waiter>>
  /\ UNCHANGED <<suspendVars, gcdetectdeadlocks>>

\* These have been found to be roots after all: they are moved over the
\* boundary and unmasked.
Promote(found) ==
  /\ found # {}
  /\ masked' = masked \ found
  /\ unclaimed' = unclaimed \cup found

(* gcDiscoverMoreStackRoots: those whose object has been reached, and the  *)
(* ones seen awake; concurrently, so others may have been woken since.     *)
DiscoverRoots ==
  /\ stopper = None
  /\ \E found \in SUBSET masked :
       Promote(found) /\ Discover(nValidStackRoots + Cardinality(found))
  /\ UNCHANGED <<gVars, suspendVars, gcdetectdeadlocks, stopper>>

(* The first half of detectPartialDeadlocks: the same in a stopped world.  *)
DetectRoots ==
  /\ WorldStopped
  /\ \E found \in SUBSET masked :
       /\ \A g \in masked : ~Blocked(g) => g \in found
       /\ Promote(found) /\ DetectMore(Cardinality(found))
  /\ StartTheWorld
  /\ UNCHANGED <<status, scan, preemptStop, hasM, leaving, runq, waiter>>
  /\ UNCHANGED <<suspendVars, gcdetectdeadlocks>>

(* The second half: the rest becomes _Gunreachable and the caller works    *)
(* its jobs off before anybody else moves.  gcGoexit takes a goroutine     *)
(* off every queue; a kept one is suspended, scanned and resumed.          *)
Detect ==
  /\ WorldStopped
  /\ markrootNext >= markrootJobs
  /\ masked # {} /\ \A g \in masked : Blocked(g)
  /\ LET n == Cardinality(masked)
     IN  /\ markrootJobs' = markrootJobs + n
         /\ markrootNext' = markrootJobs + n
         /\ claims' = [j \in Jobs |-> IF j \in markrootJobs .. (markrootJobs + n - 1)
                                        THEN claims[j] + 1 ELSE claims[j]]
  /\ nValidStackRoots' = nStackRoots
  /\ status' = [g \in Goroutine |->
       IF g \notin masked THEN status[g]
       ELSE IF gcdetectdeadlocks = 1 THEN "dead" ELSE "deadlocked"]
  /\ waiter' = [g \in Goroutine |-> IF g \in masked THEN "none" ELSE waiter[g]]
  /\ preemptStop' = [g \in Goroutine |-> g \notin masked /\ preemptStop[g]]
  /\ masked' = {}
  /\ StartTheWorld
  /\ UNCHANGED <<nStackRoots, pc, next, scan, hasM, leaving, runq, suspendVars>>
  /\ UNCHANGED <<gcdetectdeadlocks, unclaimed>>

InStoppedWorld == StartCycle \/ DetectRoots \/ Detect

Ask(s) == LockRunning(s) \/ Request(s)
Suspender(s) == Trace(s) \/ Ask(s) \/ Catch(s) \/ Resume(s) \/ ReadyStopped(s)

StatusNext ==
  \/ \E g \in Goroutine :
       Scheduler(g) \/ DrainEnter(g) \/ DrainLeave(g) \/ Suspender(g)
  \/ \E w \in Workers : Claim(w)
  \/ \E c \in Goroutine : StopTheWorld(c)
  \/ DiscoverRoots
  \/ InStoppedWorld

\* What is bound to go on whatever the program does: a goroutine in a run
\* queue, an M that switches away from one, suspends one or ends a drain, a
\* stop that is requested, a waiter taken off its queue.
GoOn(g) ==
  \/ /\ Execute(g) \/ Finish(g) \/ PreemptPark(g) \/ Ready(g)
     /\ UNCHANGED <<vars, suspendVars, cycleVars>>
  \/ Catch(g) \/ Resume(g) \/ ReadyStopped(g)
  \/ DrainLeave(g)

RootJobsLeft == markrootNext < markrootJobs

WakeWorker(w) ==
  /\ RootJobsLeft
  /\ Dequeue(w)
  /\ UNCHANGED <<vars, suspendVars, cycleVars>>

\* The preemption that the stopper asks for.
StopForWorld(g) ==
  /\ stopper # None /\ Gosched(g)
  /\ UNCHANGED <<vars, suspendVars, cycleVars>>

\* While root jobs are left, background workers drain and claim; while a stop
\* is requested, drains end and goroutines stop.  The world is stopped with no
\* job left, so the two never meet and can share a fairness condition.
Turn(w) ==
  \/ RootJobsLeft /\ DrainEnter(w)
  \/ stopper # None /\ \E s \in Goroutine : DrainLeave(s)

Advance(w) ==
  \/ RootJobsLeft /\ Claim(w)
  \/ \E g \in Goroutine : StopForWorld(g)

(* Every status change spins until the scan bit is clear, and suspendG     *)
(* until it finds the status it needs: fairness is strong because a spin   *)
(* that could succeed again and again does.  Background workers are woken  *)
(* while there are root jobs, drain when woken and, if preempted in their  *)
(* drain, take it up again.  Assists owe nothing but the end of a claim.   *)
StatusFairness ==
  /\ WF_allVars(InStoppedWorld)
  /\ \A g \in Goroutine : SF_allVars(GoOn(g)) /\ WF_allVars(Ask(g))
  /\ \A w \in Workers : WF_allVars(pc[w] # "idle" /\ Claim(w))
  /\ \A w \in Goroutine \ Users :
       WF_allVars(WakeWorker(w)) /\ SF_allVars(Turn(w)) /\ SF_allVars(Advance(w))

StatusSpec == StatusInit /\ [][StatusNext]_allVars /\ StatusFairness

-----------------------------------------------------------------------------
Holds(s, g) == at[s] \in {"scan", "request"} /\ target[s] = g

(* A stack is scanned by one suspender at a time, never while its          *)
(* goroutine executes, and no goroutine is executed while an M that ran it *)
(* before has still to let go of it.                                       *)
StackOwned ==
  \A g \in Goroutine :
    /\ status[g] = "running" => hasM[g] /\ leaving[g] = "no"
    /\ \A r, s \in Goroutine : Holds(r, g) /\ Holds(s, g) => r = s
    /\ \A s \in Goroutine : at[s] = "scan" /\ target[s] = g => at[g] # "user"

(* Whoever goes to ready a goroutine finds it waiting and is the only one: *)
(* otherwise ready throws "bad g->status in ready", or casgstatus throws   *)
(* "waiting for Gwaiting but is Grunnable".                                *)
ReadyFindsWaiting ==
  \A g \in Goroutine :
    /\ waiter[g] = "taken" => status[g] = "waiting"
    /\ \A s \in Goroutine : stopped[s] /\ target[s] = g =>
         /\ status[g] = "waiting" /\ waiter[g] # "taken"
         /\ \A r \in Goroutine : stopped[r] /\ target[r] = g => r = s

(* A goroutine stopped for a suspender, or asked to stop, has a suspender  *)
(* that is still after it, and one that waits is in a queue, on its way    *)
(* there or out, draining, or in the hands of its suspender.  A g reused   *)
(* with the request of its predecessor would stop for nobody.              *)
StoppedHasOwner ==
  /\ StatusTypeOK
  /\ \A g \in Goroutine :
       LET sought == \E s \in Goroutine : at[s] \in {"suspend", "request"} /\ target[s] = g
           owned  == \E s \in Goroutine : stopped[s] /\ target[s] = g
       IN  /\ status[g] = "preempted" \/ (preemptStop[g] /\ leaving[g] # "exit") => sought
           /\ status[g] = "waiting" =>
                \/ waiter[g] # "none"
                \/ leaving[g] = "park"
                \/ at[g] \in OnSystemStack
                \/ owned

(* The stopper waits for a suspender to come to its stop and the suspender *)
(* for the stopper: the mutual preemption deadlock that stopTheWorld warns *)
(* of, and that gcStart and gcMarkDone do nothing against.                 *)
MutualPreemption ==
  \E s \in Goroutine : /\ at[s] \in {"suspend", "request"}
                       /\ stopper # None /\ target[s] = stopper

(* No goroutine of the program stays stopped for a scan or a trace, asleep *)
(* in no queue, taken off one and not readied, or busy with a goroutine it *)
(* cannot suspend: the mutual preemption deadlock is the only way in which *)
(* a spin on a status, or a stop of the world, is for ever.                *)
NobodyStranded ==
  \A g \in Users :
    <>[]MutualPreemption \/
    []<>(/\ status[g] # "preempted" /\ waiter[g] # "taken"
         /\ at[g] \notin {"suspend", "ready", "stop"}
         /\ status[g] = "waiting" => waiter[g] = "queued" \/ at[g] # "off")
=============================================================================
