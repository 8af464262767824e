# A TLA+ development of GOLF

GOLF is a Go runtime (`golf/`, Go 1.22.5) whose garbage collector reports and
reclaims *partial deadlocks*: goroutines blocked on channels, semaphores or
condition variables that no other goroutine can ever reach again. `baseline/` is
the unmodified toolchain and `tester/` the harness that compares the two. This
directory specifies the part GOLF adds and the protocols of the Go runtime it
leans on, model-checks small instances with TLC and proves the central facts
with TLAPS.

## 1. The system

### Components

| component | code | state it keeps | operations |
|---|---|---|---|
| root job queue | `mgcmark.go`, `mgc.go` | `work.markrootNext`, `markrootJobs`, `nValidStackRoots`, `nStackRoots`, `base*` | `gcMarkRootPrepare`, `gcUpdateMarkrootNext`, appending in `gcDiscoverMoreStackRoots` and `detectPartialDeadlocks` |
| detection | `mgc.go`, `mgcmark.go` | `work.stackRoots` (partitioned: roots, then masked blocked goroutines), `detectedDeadlocks`, mark bits, `gcscandone` | snapshot, `markroot`, `scanobject`, `stackRootValid`, `gcDiscoverMoreStackRoots`, `detectPartialDeadlocks`, `gcGoexit` |
| mark termination | `mgc.go`, `mgcwork.go`, `mwbbuf.go` | per P: `gcw`, `wbBuf`, `flushedWork`; global: `work.full`, `nwait`, `markDoneSema`, `gcMarkDoneFlushed`; per M: `preemptoff` | background mark workers, assists, `gcMarkDone` |
| semaphores | `sema.go` | 251 `semaRoot`s: a treap of addresses, a list of waiters per address, `nwait` | `semacquire1`, `semrelease1`, `queue`, `dequeue`, and GOLF's `gcDequeue` |
| notify lists | `sema.go` | `wait`, `notify`, list of waiters | `notifyListAdd/Wait/NotifyOne/NotifyAll`, GOLF's `gcNotifyListNotifyOne` |
| channels, select | `chan.go`, `select.go` | queues of sudogs | send, receive, close, select |
| goroutine status | `proc.go`, `preempt.go` | `atomicstatus` with the new `_Gunreachable`, `_Gdeadlocked` | `casgstatus`, `suspendG`, `resumeG`, `preemptPark`, `ready`, `gopark`, stopping the world |
| masking | `mgcmark.go`, `proc.go` | masked entries of `allgs`, `stackRoots`, `sudog.elem`, `waiting_sema` | `gcMask`, `gcUnmask`, `scanobject` |
| sync package | `sync/*.go` | states of WaitGroup, Mutex, Cond | GOLF gives WaitGroup a wait reason of its own |
| harness | `tester/*.go` | configurations, targets, annotations, tickets, compiled targets, results | runner with timeouts and repetitions, trace validation, report |

### How they interact

The program and the collector run concurrently. The program tells the collector
about references through write barriers (`wbBuf`, per P) and about blocking
through `waitreason`, `waiting`, `waiting_sema` and `waiting_notifier`. The
collector marks from the roots of goroutines that can run; when the workers run
dry, `gcMarkDone` first looks for blocked goroutines whose channel or semaphore
has been marked (they become root jobs), then runs a ragged barrier over all Ps,
stops the world, checks the caches once more (but not `work.full`, section 5) and lets
`detectPartialDeadlocks` decide about the rest: more roots, or a report. Reported goroutines are recycled
on the spot (`gcdetectdeadlocks=1`, which removes them from semaphores and notify
lists) or kept for good (`=2`).

Before a worker can scan a stack it must have its goroutine suspended, by the status word
the scheduler changes at the same time; workers, assists and the execution tracer do that to
each other too. And since a blocked goroutine must be marked only if the program can reach it,
every table of the runtime refers to it by a masked address, which the collector does not follow:
the price is that nothing but the write barrier keeps the g structs themselves alive.

The harness stands apart: it compiles each benchmark, runs it in every configuration, and compares
the goroutines reported with the annotations of the source.

### What is hard

Jobs are appended to a queue that workers drain without locks. Goroutines block
and wake while the collector classifies them. Work hides in per-P caches while
the collector decides that there is none. A wake-up is not atomic. Recycled
goroutines leave entries in queues. Suspenders suspend each other while the suspended run,
park, wake and exit, and some stop the world meanwhile. Masks hide from the collector
what must stay, too. In the harness, timeouts race with compilations that others wait for. `PROJECT.json` lists these hazards, each with
the line where it bites and the properties aimed at it.

## 2. The modules

| module | what it is | status |
|---|---|---|
| `RootJobs` | the claim loop, one atomic access per step | checked in `MarkRoots`, proved in `MarkRoots_proof` |
| `MarkRoots`, `MarkRoots_proof` | composes `RootJobs` with the goroutines its jobs are for: statuses, scan bit, suspension | checked, proved |
| `StackRoots`, `StackRoots_proof` | masked words and what keeps g structs and sudogs alive | checked, proved |
| `Goroutines` | the program as the collector sees it: one action per kind of step | used by the next two |
| `PartialDeadlock` | the contract: report and free only with a certificate | checked (as what `GolfMark` implements), proved in `GolfMark_proof` |
| `GolfMark`, `GolfMark_proof` | one mark phase after the other, concurrently with `Goroutines`; extends and implements `PartialDeadlock` | checked, proved |
| `MarkDone`, `MarkDone_proof` | termination of the mark phase by counting objects | checked, proved |
| `SemaQueue` | what a semaRoot promises: a queue per key | abstract |
| `SemaTreap`, `SemaTreap_proof` | the treap and its wait lists, pointer by pointer; implements `SemaQueue` | checked, proved |
| `Semaphore` | what `semacquire1` and `semrelease1` promise: permits are conserved | abstract |
| `Sema`, `Sema_proof` | the two protocols around the treap; implements `Semaphore` | checked, proved |
| `Cond` | what a notify list promises `sync.Cond` | abstract |
| `NotifyList`, `NotifyList_proof` | tickets and linked list of a notify list; implements `Cond` | checked, proved |
| `Report` | matching of reports and annotations, list and table, as operators | used by the next |
| `Harness`, `Harness_proof` | the runner: tickets, helpers, compile cache, timeouts, the entries of the report | checked, proved |
| `MC*` | instances for TLC | |

Semaphores are split where the lock splits them. `SemaTreap` is what happens inside
`root.lock`, one step per pass of a loop; `Sema` is what happens around it, one
step per atomic access, and asks of the queue only that it holds the parked
goroutines. `Goroutines`, in turn, asks of a semaphore only who waits for it.

### RootJobs

`LoadNext`, `Test`, `CasSucceeds`, `CasFails`, `Reload`, `Retest` are the loads and
the CAS of `gcUpdateMarkrootNext`; `Prepare` is `gcMarkRootPrepare`, `Discover` and
`DetectMore` are the two appends. `claims` is a history variable. A stopped world
means no worker is inside the loop (it is non-preemptible code).

### MarkRoots

`MarkRoots` extends `RootJobs` and gives its counters goroutines: `masked` is the part of
`work.stackRoots` from `nValidStackRoots` on and `unclaimed` the part below whose job nobody has
claimed; `Claim` is a step of `gcUpdateMarkrootNext` and, when it claims a stack, the start of
`suspendG` on one of them. Which entry belongs to which index is `StackRoots`' business. Each goroutine
has its status and scan bit, `preemptStop`, whether `g.m` is set, and `at`, what the M that runs it
is doing; a scheduler function that switches away is two steps, because the status changes before
the M has let go of the goroutine (`leaving`). The loop of `suspendG` is one pass per step: `SeeDead`,
`TakePreempted`, `TakeStopped`, and `LockRunning` with `Request`, between which the scan bit is held;
`Resume` and `ReadyStopped` are `resumeG`. Abstractions:

* A goroutine taken off its queue (`waiter = "taken"`) is never reported: that window is
  `golf_wake_window`'s. One that is kept gets `waiter = "none"`, nobody wakes it again.
* `Detect` reports and drains in one step: the world is stopped and the caller drains.
* `preempt` and `preemptStop` are one variable; a requested stop is taken at some later point, by
  whatever way (the asynchronous signal is not modelled). `_Gcopystack`, locked Ms and a netpoll
  that refuses a park are left out. A goroutine that drains is `_Gwaiting`, so the self-scan
  branch of `markroot` is never taken.
* `StopTheWorld` may begin at any time when no worker has a root job: the caller stays `_Grunning`, and the others
  go on until they come to their stop. Nothing keeps a tracer from waiting for the stopper meanwhile (section 5).
* `suspendG` does not repeat a request it has made to the same M; `LockRunning` may, which only adds steps.
* Nobody both marks and traces; assists owe no progress.

### StackRoots

Objects are addresses and their contents sequences of pointer words in the order of the fields, so
that masks (the four highest bits), `scanobject`'s return at the first masked word, and the
write barrier, which shades the old and the new value of every changed word, act on what they act on
in the code. `WordsOfG`, `WordsOfSudog`, `NextInTreap` and `WordsOf` are the layout; `gcStart` stores the snapshot,
`DiscoverFirst`, `DiscoverSwap` and `DetectPass` move entries over the boundary, unmasking them, and
`MarkTermination` sweeps. `PassBarrier`, `Restart` and `StopTheWorld` are the way from `top` to the stop; the program and the
workers run on in between, so a pass of `detectPartialDeadlocks` may begin with grey objects. Setting 0, without masks, is the
baseline's behaviour. Abstractions:

* `gcMarkDone` begins when there is no work. In the code a second caller may have waited for `markDoneSema` and find some, as
  the loop may here by the time it ends; without the condition the instance is out of TLC's reach.
* Only `allgs`, `stackRoots` and the sudogs refer to g structs here; the runtime has more
  references (`m.curg`, free lists of Ps), which could only keep more alive.
* A select waits on one channel; a released sudog keeps its `g` word; the treap is the chain of the
  first waiters in the order of `SemaSeq` (`Treap`, then `NextInTreap`); its shape is `SemaTreap`'s. Waking is one step (the window is `GolfMark`'s).
* `AddressAssumption` puts addresses below the mask, which excludes 32-bit heaps. A negative setting
  masks but never detects, and others above 2 throw; neither is explored.
* Skipping just the masked word in `ScannedRefs`, instead of returning, changes no verdict.

### Goroutines

Status `_Grunning` stands for runnable, running and in a system call; `sleeping`
is `_Gwaiting` with a reason for which `unblockingWaitReason` is true.
`waitingOn[g]` is the set of channels of `g.waiting` or the semaphore or notify
list of `g.waiting_sema`/`waiting_notifier`. Waking is two steps, `Dequeue` (under
the lock) and `Ready`. A value may pass between the stacks of the two sides. A
channel keeps its queue in its own memory; the queue of a semaphore is found by
address, so `New` on reused memory resets the first and inherits the second.
`Recycle` and `Keep` are the two fates of reported goroutines. Any goroutine may
wake any waiter of an object it can reach: which operation of which primitive it
is makes no difference to reachability.

The g struct, its sudogs and their channels are not objects of this model but of
`StackRoots`: in the code they are marked exactly when the goroutine is found runnable, and everything
they refer to is then marked through the stack too.

### PartialDeadlock

A *certificate* for a set D of blocked goroutines is a set M of objects that holds
the globals and the stacks of all other goroutines, is closed under references and
contains nothing that D waits for. `Report(D)` needs one and recycles D or keeps it,
`FreeGarbage(objs)` needs a closed set that holds every stack and none of `objs`. The collector's mark bits
are such a certificate; the contract does not say where it comes from. `Contract` is its specification, over the variables
of `Goroutines` that `GolfMark` has too, so the collector implements it without a mapping: `GolfMark` extends the module.

### GolfMark

`stackRoots`, `nValidStackRoots`, `markrootNext` and `detectedDeadlocks` are the
variables of `work`, `gcdetectdeadlocks` the setting of that name,
chosen from `Modes` at the start. `gcStart` takes the snapshot, `MarkGlobals`, `MarkStack` and
`ScanObject` mark, `gcMarkDone` with `DiscoverFirst`, `DiscoverSwap` and
`DiscoverPublish` is `gcDiscoverMoreStackRoots`, one `stackRootValid` per step and
concurrent with the program; `MarkDoneReturns` is the recheck, `PassBarrier` the ragged barrier, `Restart` the
first look at the caches in the stopped world, `DetectMore` and
`DetectReport` are `detectPartialDeadlocks`, `MarkTermination` ends the phase.
Program steps carry the hybrid write barrier and allocate black. `hasty` is a history variable: a report
was made while objects were grey. Abstractions:

* Objects are shaded at once by the write barrier; the buffers are `MarkDone`'s.
* `gcMarkDone` is entered when there is no work at the test; a second caller queued
  on `markDoneSema` is `MarkDone`'s. Between `PassBarrier` and the stop the program and the workers go on. Which of the objects
  that are grey then lie in a `p.gcw` and which on `work.full` is left open: with any of them grey the code may restart
  or go on to the detection round.
* The second look at the caches, after the report (`mgc.go:925`), finds nothing here and is left out: `DrainReported` drains
  every P, and what a write barrier of `gcGoexit` shades is drained with it. `MarkDone` has the buffers, and that look.
* `StackRootValid` returns either answer for a goroutine that is not blocked, since
  its wait reason and pointers are left over from earlier or being written.
* `allGsSnapshotSortedForGC` keeps the order of the goroutines that can run and reverses that of the blocked ones, of which the
  loop stores each in the last free place. `FindMore` leaves open where the goroutines it skips end up and says only what
  `DetectMore` leaves in `stackRoots`: the goroutines it found behind the old valid part, the others after them.
* The sweep is taken together with `MarkTermination`, the earliest it can be.
* `CanStopTheWorld`: with `PreemptibleWake = FALSE` the world is never stopped
  while a waker is between `Dequeue` and `Ready`. That is so for channels (the lock
  is held, and the channel stays reachable) but not for semaphores, which is the
  finding of `golf_wake_window`. All other runs assume the window closed, to see
  what else holds; so do the theorems that need it, explicitly.

### MarkDone

Objects are counted, not named: `white`, `wbBuf[p]`, `local[p]` (the gcw) and `full`
(work.full). A worker goes through `roots` (gcDrain's first loop), `loop` and `get`
(its second loop) and `last` (the increment of nwait and the test); an assist
starts at `loop` and takes root jobs only when there is nothing else, as gcDrainN
does. `Acquire` .. `SecondFlushCheck` are `gcMarkDone`, one label per blocking
point. An M is identified with its P in `preemptoff`. `Scan` may find objects that
are white or in any P's write barrier buffer. The program may buffer a white object as long as something grey or a stack that has
not been scanned may lead to it, the stack of a blocked goroutine that was woken included (`BufferWrite`). How much `balance` and a full buffer
hand over is left open (`Balance` moves any amount). Voluntary preemptions and assists without work are bounded by `MaxDetours`.
One mark phase is modelled: nothing of it is carried to the next but `preemptoff`.

### SemaTreap and SemaQueue

A function per field of a sudog that a semaRoot uses. `Queue`, `Dequeue` and `GcDequeue` take `root.lock` and start the search for
a key; `Search` is one pass of it, and from `Found` or `NotFound` on the code goes on with one of `PushFront`, `PushBack`, `NewLeaf`,
`PopFront`, `LoneWaiter` and `WalkList`. `RotateUp` and `RotateDown` are one pass each of the loops that restore the heap, `WalkOn` one
of the loop in which `gcDequeue` looks for a waiter and its predecessor; `RemoveLeaf`, `RemoveInner` and `Queued` are where
they end. `RotateLeft`, `RotateRight` and `TakePlace` are the pointer assignments `queue`, `dequeue` and `gcDequeue`
share. The random priority is any element of `Tickets`. The refinement maps every key to the list that hangs
off its node, `WaitersOf`, also while the treap is being rotated: the abstract queue changes in the one step that links the
sudog into a list or unlinks it, and every other step changes no queue. `MaskBit` is gcMask; a
release looks for the masked key first, as the code does. Acquire and release times and the
count `waiters`, all of them for profiles, are left out.

### Sema and Semaphore

`AcquireEasy` .. `ReadyFails` are the branches of `semacquire1`, `Release` .. `readyWithTime`
those of `semrelease1`; `cansemacquire` is atomic, because its loop ends only by seeing zero or
by winning the CAS. `Report`, `GcDequeue` and `Reuse` are the collector: it may report the
parked goroutines of a semaphore when everybody else has finished with it, takes them
off one by one under the lock while the rest of the program goes on, and the memory
comes back with value zero. `permits` is a history variable, the abstract value as
callers see it. The ticket is 0 or 1, for zero and nonzero, and `Queue` may leave it
nonzero, as the treap's priority does. Whether a release hands off is an argument of
`semrelease1` and chosen where it is read. What a finished call leaves in its local
variables is reset. `Init` lets the semaphores start with any number of permits (the proofs
cover that), `MCSema` with none, as those of the sync package do.

### NotifyList and Cond

`wait`, `notify`, `head`, `tail` and `next` are the fields of the code; `Half` stands for 2^31.
A critical section is one step, a load outside the lock too, so that `FastPath`
compares counters of two instants. `cursor` is the local list of `notifyListNotifyAll`. `Owed` are the holders of the
tickets from `notify` to `wait`, parked or not; the refinement maps `pending` to them, in the order of the tickets.
What a finished call leaves in its local variables is cleared. The number of calls, reports and reuses is not bounded.
The one bound, `NoneLags` in the guard of `notifyListAdd`, is what the code relies on: `less` is right as long as
the "unwrapped" difference of two counts is less than 2^31 (`sema.go:662`), so no ticket is taken while
somebody holds one, or a loaded `wait`, that is half the tickets old.

### Harness and Report

A task is an execution: repetition, configuration, benchmark. `pc` is where its goroutine is in `RunBenchmark`, `helper`
where the goroutine is that compiles and runs for it; `mu`, `compiledTargets` and `binary` are the compile cache.
`TimesOut`, `AppendExpired` and `Signal` are the branch of the timeout, during which the helper goes on. What a
helper writes once its report has been appended is read by nobody and left out. The compilers may fail, the programs print and
end as they like, or hang, and a trace may have malformed lines. `fatal` is what `log.Fatal` has ended the harness for, if
it has: unreadable annotations (`main.go:117`), a trace or a report that cannot be written (`182`, `236`, `241`, `245`), reports by
a program that runs without detection (`189`). Nothing moves after that. `Report` holds the pure part: `CompareWithTraceValue`, `Mismatches`, `Unexpected`, the list
(`Listed`) and the coverage table (`Rows`, `Found`, `Remaining`). Of the expressions of annotations it has the documented
forms: none, a number, a comparison with a number; on others `evaluate` panics or gives something else.

## 3. The runs

| run | module, cfg | expected | what it checks |
|---|---|---|---|
| `mark_roots` | `MCMarkRoots`, `MarkRoots.cfg` | pass | `NextWithinJobs`, `ClaimedExactlyOnce`, `StackOwned`, `ReadyFindsWaiting`, `StoppedHasOwner`, `GivesUpOnlyWhenDrained`, `EveryJobClaimed`, `NobodyStranded`: A background worker, an assist and a tracer claim root jobs and suspend each other and running, parking, woken, exiting and _Gdeadlocked goroutines over any number of cycles, while the world is being stopped: every job is claimed once, stacks are never shared, and nobody stays stopped unless the stopper and a suspender wait for each other. |
| `golf_reclaim` | `MCGolfMark`, `GolfReclaim.cfg` | pass | `TypeOK`, `WokenNotReported`, `StaleWaitersHidden`, `NoDangling`, `NothingMissed`: One collection, reclaiming or keeping, over every arrangement of three goroutines, a channel and a semaphore, with two concurrent mutations, also between the ragged barrier and the stop. |
| `golf_contract` | `MCGolfMark`, `GolfContract.cfg` | pass | `AllDoomedReported`, `KeepsContract`, `CycleEnds`: Two reclaiming collections with selects on three channels and three mutations: both end, the second detects again, and until a hasty report every step is one of PartialDeadlock's. |
| `golf_wake_window` | `MCGolfMark`, `GolfWakeWindow.cfg` | violation | `WokenNotReported`: A waker preempted between taking a goroutine off a semaphore and readying it lets the collector report that goroutine. |
| `mark_done` | `MCMarkDone`, `MarkDone.cfg` | pass | `TypeOK`, `NothingCachedAtEnd`, `EveryGoroutineSettled`, `MarkEnds`: Two workers on two Ps: the mark phase always ends, never with cached work or an unsettled goroutine. |
| `mark_done_preemptoff` | `MCMarkDone`, `MarkDonePreemptoff.cfg` | violation | `CallerPreemptible`: After a detection round that found more roots, the M stays non-preemptible and may run gcMarkDone again. |
| `sema_treap` | `MCSemaTreap`, `SemaTreap.cfg` | pass | `TreapShape`, `ReleasedClean`, `ImplementsQueue`: Treap and wait lists implement a queue per key through every sequence of queue, dequeue and gcDequeue of four waiters on four keys, with two priorities. |
| `sema` | `MCSema`, `Sema.cfg` | pass | `NwaitExact`, `NoMissedWakeup`, `ImplementsSemaphore`, `PermitsFindWaiters`: Three goroutines acquire and release two semaphores of one root while the collector reports, recycles and reuses them; no semaphore stays free while a goroutine is parked on it. |
| `notify_list` | `MCNotifyList`, `NotifyList.cfg` | pass | `NobodyLost`, `NoMissedNotification`, `SilentNotifyOwesNothing`, `ImplementsCond`, `NotifiedReturn`: Three goroutines wait and notify while tickets wrap around and the collector reclaims and reuses the list; whoever is notified returns. |
| `harness` | `MCHarness`, `Harness.cfg` | pass | `BinaryIntact`, `UnlistedIsClean`, `RemainingFoundEverywhere`, `ReportWritten`: One benchmark in three configurations with two tickets, any compiler, program and timing: what the report leaves out and what it counts as always found is true, and it is written whatever hangs, unless log.Fatal ends the harness. |
| `harness_perf` | `MCHarness`, `HarnessPerf.cfg` | violation | `OffRunsBaseline`: The cache of compiled benchmarks forgets by which compiler, so in a performance run both configurations may run the same binary. |
| `stack_roots` | `MCStackRoots`, `StackRoots.cfg` | pass | `Partitioned`, `AllgsAlive`, `LinkedSudogsAlive`, `TablesHideDoomed`: Words and masks of three goroutines on a channel and two semaphores over two collections in every mode: no descriptor or queued sudog is freed although nothing refers to them, and no table keeps a doomed goroutine from being reported. |

`RootJobs` is checked within `MarkRoots`, where its jobs are claimed by goroutines. `PartialDeadlock` has no run of
its own: `golf_contract` checks that `GolfMark` implements it; that it does, and what it promises, is proved.
The type invariants of `MarkRoots`, `SemaTreap` and `NotifyList` are conjuncts of `StoppedHasOwner`, `TreapShape` and
`NobodyLost`; that of `Sema` is proved, as part of its inductive invariant.

Bounds. Three goroutines let one run, one be blocked for good and one be woken by
either; two objects give a blocked-on object and a path to it; two mutations per
run are enough for load-then-forget, the shortest way to hide a reference from a
marker without a barrier, and the program's past is in the initial states, which
range over every blocked set and, in `GolfReclaim`, over everything the stacks may hold. `GolfReclaim` has the third
goroutine, both settings of gcdetectdeadlocks and a semaphore, and starts with the channel in the global. `GolfContract` has the second
collection, selects on up to three channels and a third mutation, and starts with nil in the global and the second channel
referring to the third. That is the least for a false report after the barrier: what leads to the channel a goroutine waits on must be
grey, so there must be an object before it, and one to wake somebody with (section 5). It has setting 1 only, where
more can go wrong; together they stay within reach, and the theorems cover every combination. `MarkRoots.cfg` has one goroutine of each kind, a background worker, an assist and
a tracer, so that each can be suspended by two others, by itself never, and while it suspends; cycles are
unbounded. `BaseStacks` is 0 there, since one-step jobs add nothing to suspension (the proofs have it
arbitrary), and the setting is 2, where reported goroutines have to be suspended again; with settings 1 and 2 together the
safety properties were checked as well, so were they with `BaseStacks` 1, and with setting 1 alone everything.
`StackRoots.cfg` has three goroutines, a channel and two semaphores, one of them in a global, for a treap of two
nodes and a list of two waiters, every past of the three in the initial states, all settings, one step of the program
and two collections, the second to meet what the first has freed. `Harness.cfg` has one benchmark with one of two functions annotated, with every form of expression, or none, in three configurations with two tickets,
so that a task times out while another compiles for it and a third starts; one repetition, as a second is no
different from another configuration. `MarkDone` needs two Ps (one past the
barrier, one not) and a second worker to queue on `markDoneSema`; a third one, or more
objects, changed no verdict where it was tried.
`SemaTreap` has four sudogs on four keys, so that the treap gets four levels and a list
four waiters with two to unlink from its middle; two priorities, so that they may be equal.
`Sema` has two semaphores on one root, the least for one of them to be counted in the
other's nwait, and three releases, so that two can meet the same waiter while a third
is handed off. `NotifyList` has 8 tickets, starts from each of them and goes round without end, so that every
comparison is made across the wrap; a waiter or notifier that is held up can be overtaken by the two others until it is half the tickets behind. Every property is
violated within these bounds by at least one mutant, a plausible bug written beside
the action it replaces.

`CHECK_DEADLOCK FALSE` is set where the system may stop: a program may block for
good, bounded counters run out, the harness ends, and in `mark_roots` the stopper and a suspender may wait for each other, as they
may in the code; `NobodyStranded` says that this is the only way to get stuck. In `sema_treap` deadlock is an error.

Symmetry is used for workers and Ps (`MarkDonePreemptoff`) and for sudogs
(`SemaTreap`), never with liveness properties, and only where no definition tells one
from another.

Fairness. `GolfMark` asks for weak fairness of draining, of the steps of `gcMarkDone`, and of readying
a dequeued goroutine: `findRunnableGCWorker` schedules a worker on every P while
there is work, whoever is in `gcMarkDone` holds `markDoneSema` and is runnable, and a waker is an ordinary runnable goroutine. `MarkDone` asks it of each worker
that has started, and of starting one where there is work. The program owes nothing.
`MarkRoots` asks strong fairness of whatever goes on without the program: a goroutine in a run queue,
an M that switches, suspends, resumes or leaves a drain, a stop requested of somebody, a background worker with
jobs to claim. Every status change in the code is a spin until the scan bit is clear and the
status is the expected one, and a spin that could succeed again and again does.
The root jobs that are left and the stop that is requested share a strong fairness condition (`Turn`, `Advance`), which asks
no less, since a stop is requested only when no root job is left and none appears before it is over.
`Harness` asks weak fairness of the tasks, with their timers, and of writing the report, until `log.Fatal` ends all; compilers and
programs may hang.
`Sema` and `NotifyList` ask that every goroutine in the middle of a call that is not
parked goes on: it is runnable, and the scheduler leaves nobody out for ever. A runtime
lock excludes no starvation, so weak fairness of a step that needs `root.lock` says more
than the code guarantees when others take the lock for ever; with finitely many
calls of `semrelease1` and finitely many reports nobody does, which is why both are bounded
in `Sema.cfg`. In `NotifyList` a notified waiter needs `l.lock` only before it has parked; then `NoneLags` ends the
adding, and with nobody added, notifiers soon leave by the fast path, without the lock. Nobody is obliged to call anything.

## 4. What is proved

| theorem | module | property of a run | what it establishes |
|---|---|---|---|
| `ClaimsStayWithinJobs` | `MarkRoots_proof` | `NextWithinJobs` | markrootNext never passes markrootJobs, for any number of workers and jobs. |
| `JobsClaimedOnce` | `MarkRoots_proof` | `ClaimedExactlyOnce` | Every job below the counter was handed out exactly once. |
| `FailureMeansDrained` | `MarkRoots_proof` | `GivesUpOnlyWhenDrained` | A failed claim means that all jobs published were claimed at that instant. |
| `ReportedNeverWoken` | `GolfMark_proof` |  | In the contract, a certificate once found is never invalidated: no reported goroutine is ever taken off a queue, for any number of goroutines and objects and any program. |
| `StaleWaitersUnreachable` | `GolfMark_proof` |  | In the contract, the queue entries that recycled goroutines leave behind are out of reach of every goroutine that can run. |
| `NothingDangles` | `GolfMark_proof` | `NoDangling` | Nothing any goroutine can reach is ever freed. |
| `GoroutinesSettled` | `MarkDone_proof` | `EveryGoroutineSettled` | Marking ends only when every goroutine was scanned or reported, for any number of Ps and workers. |
| `CachesFlushed` | `MarkDone_proof` | `NothingCachedAtEnd` | Marking ends only when no P has cached work. |
| `NwaitIsExact` | `Sema_proof` | `NwaitExact` | root.nwait counts exactly the goroutines queued on the root or between the two writes, for any number of goroutines and semaphores. |
| `WakeupsNotMissed` | `Sema_proof` | `NoMissedWakeup` | While somebody is parked on a semaphore, each of its permits has a goroutine on its way to it. |
| `Implementation` | `Sema_proof` | `ImplementsSemaphore` | semacquire1 and semrelease1 neither make nor lose permits, handoff and reuse of the memory included. |
| `PartitionedHolds` | `StackRoots_proof` | `Partitioned` | The valid part of stackRoots holds addresses, the rest masked ones, at every step of both loops, for any number of goroutines and any program. |
| `AllgsAliveHolds` | `StackRoots_proof` | `AllgsAlive` | While detection is on no collection frees a descriptor that allgs lists, for any number of goroutines, any program and any number of collections. |
| `StacksNeverShared` | `MarkRoots_proof` | `StackOwned` | No stack is scanned by two suspenders, scanned while its goroutine executes, or executed before the M that left it has let go, for any set of goroutines, workers and tracers. |
| `ReadiedOnce` | `MarkRoots_proof` | `ReadyFindsWaiting` | Whoever readies a goroutine finds it waiting and is the only one to ready it. |
| `StoppedAreOwned` | `MarkRoots_proof` | `StoppedHasOwner` | The types hold, and whoever is stopped or asked to stop has a suspender that is still after it. |
| `JobsClaimedOnceTogether` | `MarkRoots_proof` | `ClaimedExactlyOnce` | The composition keeps what RootJobs promises of its jobs, and there is exactly one unclaimed stack for every unclaimed stack job. |
| `DrainedAtGivingUp` | `MarkRoots_proof` | `GivesUpOnlyWhenDrained` | The same for a claim that fails: all jobs published were claimed at that instant, whoever is suspended meanwhile. |
| `CollectorTypeOK` | `GolfMark_proof` | `TypeOK` | The types hold: the boundary of the valid roots, the next root job and the indices of gcDiscoverMoreStackRoots stay within the snapshot, for any number of goroutines, objects and cycles. |
| `MarkingIsComplete` | `GolfMark_proof` | `NoDangling` | The sweep frees nothing a goroutine can reach, although blocked goroutines are no roots at first and the program runs while it is marked; wakers may be preempted anywhere. |
| `CollectorKeepsContract` | `GolfMark_proof` | `KeepsContract` | The collector refines PartialDeadlock: when nothing is grey the mark bits are the certificate for the report and for the sweep. Two provisos: wakers cannot be preempted between taking a waiter off a queue and readying it, and it holds until a hasty report, one made while objects on work.full are grey. |
| `DetectionComplete` | `GolfMark_proof` | `AllDoomedReported` | A goroutine that nobody could wake when the cycle started has been reported when detection is over, whatever the program does meanwhile. Provisos: wakers not preemptible while they wake, and no hasty report (one made while objects are grey) before. |
| `CollectorReportsNoneWoken` | `GolfMark_proof` | `WokenNotReported` | Until a hasty report (one made while objects are grey), and if wakers cannot be preempted while they wake, the collector never reports a goroutine that a waker has taken off its queue: ready finds it waiting. |
| `CollectorHidesStaleWaiters` | `GolfMark_proof` | `StaleWaitersHidden` | Until a hasty report (one made while objects are grey), and if wakers cannot be preempted while they wake, no goroutine that can run gets hold of a channel queue with an entry left by a goroutine the collector recycled. |
| `LinkedSudogsAliveHolds` | `StackRoots_proof` | `LinkedSudogsAlive` | No collection frees a sudog that is queued, although the sudogs of blocked goroutines are no roots and refer to each other by masked words: for any number of goroutines, channels and semaphores, in every mode, whatever the program does while it is marked. |
| `TablesHideDoomedHolds` | `StackRoots_proof` | `TablesHideDoomed` | No table, treap, queue or stored word leads marking to a goroutine nobody could wake when the cycle started: all of them have been reported when detection is over, for any number of goroutines and objects, any program and any schedule. |
| `BinaryStaysIntact` | `Harness_proof` | `BinaryIntact` | From the moment a helper has found its directory compiled until its program has ended nobody removes or rebuilds the binary, and this run built it: for any number of benchmarks, configurations and tickets, however late the helpers of expired tasks come. |
| `UnlistedAreClean` | `Harness_proof` | `UnlistedIsClean` | Outside performance measurements an annotated execution with detection that the report does not list compiled, ended normally in time and reported annotated functions only, for any number of executions. |
| `MarkDoneTypeOK` | `MarkDone_proof` | `TypeOK` | Objects move between the program, the Ps and work.full but are never counted twice, and no goroutine becomes a root job twice: every counter stays within what there was, for any number of Ps, workers, objects and detours. |
| `NobodyIsLost` | `NotifyList_proof` | `NobodyLost` | Every parked goroutine is on the list or in exactly one notifier's hands and the list ends at l.tail, whoever the collector unlinks from the middle of it, for any number of goroutines and calls and any width of the tickets. |
| `NotificationsNotMissed` | `NotifyList_proof` | `NoMissedNotification` | Nobody parks with a ticket that was notified before: whoever is on the list still has his notification to come, although waiters park late and tickets wrap around. |
| `SilentNotifiersOweNothing` | `NotifyList_proof` | `SilentNotifyOwesNothing` | A notifier that leaves without the lock, because two loads of different instants were equal, leaves nobody behind who was waiting when it was called. |
| `TicketsInOrder` | `NotifyList_proof` | `ImplementsCond` | The notify list refines Cond: waiters are notified in the order of their tickets, whether they have parked or not, and nobody returns unnotified; the collector may take any of them out of the middle. |
| `Shape` | `SemaTreap_proof` | `TreapShape` | Through every rotation and every pass of a loop the treap stays a tree ordered by key and heaped by ticket, every queued head is reachable from the root, and no throw or panic of the code is reached, for any number of waiters, keys and tickets. |
| `Released` | `SemaTreap_proof` | `ReleasedClean` | A sudog that dequeue or gcDequeue hands back keeps nothing of its place in the treap: no link, no key, no ticket. |
| `Implements` | `SemaTreap_proof` | `ImplementsQueue` | The treap with its wait lists implements a queue per key: each step of queue, dequeue and gcDequeue is a step of SemaQueue or changes no queue. |
| `RemainingAreFound` | `Harness_proof` | `RemainingFoundEverywhere` | A line that the table leaves out and counts as remaining was found by every execution with detection, in time and with the reports its annotation asks for: for any repetitions, configurations and tickets, and benchmarks with one annotation per line. |
| `NoWorkMissed` | `GolfMark_proof` | `NothingMissed` | When the world has been stopped for mark termination there is no work left and every goroutine of the snapshot has been scanned or reported, although nobody looks at work.full after the ragged barrier: gcMark cannot throw. Without provisos. |

* `MarkRoots_proof`, first about `RootJobs` alone: the inductive invariant adds the bound of each worker's local
  `next` to the two properties: a worker in `cas` has seen `next < markrootJobs`,
  and `markrootJobs` only grows within a cycle.
* `MarkRoots_proof`, about the composition: what an M does with a goroutine determines its status (`Placed`); the scan bit
  has one holder, who keeps the status from changing (`Locked`); a goroutine stopped for a
  suspender is in no queue and nobody else's (`Owned`); a request has somebody who waits for
  it (`Sought`). Without `Placed`, `StackOwned` would not survive a switch, and without `Owned` two could ready
  the same goroutine. For the jobs, `JobsInv` takes over the invariant of `RootJobs` step by
  step (`Detect`, which reports and drains, is the one step `RootJobs` does not have) and adds `RootsOK`: as many
  unclaimed stacks as unclaimed stack jobs, so a claim never comes away empty-handed.
* `StackRoots_proof`: `RootsInv` says up to where `stackRoots` is unmasked at each point of the two loops that
  reorder it. `AllgsAlive` needs that every entry of `allgs` is marked or still in
  `stackRoots` (`Covered`): storing an unmasked entry marks it, and a detection round ends with all of them
  unmasked. The theorem is for the settings that mask; with 0, `allgs` is scanned directly, which the run checks.
  The other two theorems are for every setting. `LinkedInv` adds to `RootsInv` what the program keeps to (`ProgramInv`:
  who waits on what, and that its stack holds it), what marking has seen of the roots (`Scanned`: the stack and the sudog of
  every goroutine whose root job is done are marked, and before detection is over every other goroutine's entry is still to come), and what
  the pass of `detectPartialDeadlocks` has established so far (`NoneFound`). That a goroutine which parks after its stack was scanned keeps its sudog rests
  on the write barrier: parking stores the new sudog into `g.waiting`, into the `waitlink` of the last
  waiter or into the treap, and each store shades it (`ParkStores`). `DoomInv` runs the other way: until it is
  reported, a doomed goroutine is `Secluded` (no other stack, no global holds what it waits on), what only
  the doomed refer to (`Hidden`) is unmarked, and its entry is masked (`Unfound`). For this every word of every object has to be looked at:
  `VisibleWords` shows that what is not in `Hidden` refers there by masked words only.
  `FirstFrom` and `Without` choose by least element and by cardinality, not by recursion, so their lemmas
  need only induction over one given set, which `WellFoundedInduction` offers without an operator parameter (`WFMin`).
* `GolfMark_proof`, first about the contract alone (`ContractInv`): the invariant keeps, for everything reported so far, a
  *separation*: a closed set that holds the globals and every stack that can still
  run, and in which every queue entry is a waiting goroutine. A step of the program
  stays inside it because it works only with what its stack holds; a report moves
  to a smaller separation, the certificate. The contract is therefore
  sound for any number of goroutines and objects, any program and any schedule.
  Needed on top: what is queued where (`queue` against `waitingOn`), which objects
  are allocated, and that a semaphore's queue holds waiting goroutines only, even
  for free memory.
* `GolfMark_proof`, about the collector: four layers, the last two of which hold until a hasty report
  (`FullInv == SafeInv /\ (hasty \/ (ContractInv /\ DoomInv))`). `TypeInv` says where indices, root jobs and the valid part of `stackRoots` are.
  `SafeInv` is the tricolour invariant: what a marked object that is no longer grey refers to is marked, and a
  stack whose root job is done holds only what marking will still reach, going on from the marks and the
  global (it lies in every `Complete` set). So when there is neither grey work nor a stack to scan (`Pending`), the
  mark bits themselves are closed. Past the ragged barrier there is no stack to scan, but there may be grey objects, so the third
  layer needs `~ hasty`; memory safety does not: once the drain of the report is over nothing is grey (`NothingMissed`). The third layer is `ContractInv`, the invariant
  of the contract: a report and a sweep are steps of the contract, the mark bits
  being the certificate, so what is proved of the contract holds of the collector. The fourth, `DoomInv`, runs
  the other way: a goroutine nobody could wake when the cycle started stays out of reach of the program, and
  hence of marking, and its entry stays masked, until it is reported.
  Memory safety (`MarkingIsComplete`) and `NoWorkMissed` need no assumption on wakers and no `~ hasty`. The contract,
  and what follows from it, is proved for wakers that cannot be preempted between `Dequeue` and
  `Ready`, and until a hasty report: `golf_wake_window` shows that without the first they are false, section 5 that without the second
  they are. `ReportedNeverWoken`, `StaleWaitersUnreachable` and `NothingDangles` are about the contract, `CollectorReportsNoneWoken`,
  `CollectorHidesStaleWaiters` and `MarkingIsComplete` about the collector.
* `Sema_proof`: nwait, the permits and the missed wake-ups are all statements about how
  many goroutines are at certain places (`Counted`, `Granted`, `InFlight`). `IInv` adds to them
  who holds the lock (`Locking`), that a dequeued waiter has exactly one waker, which knows
  its semaphore (`Waking`), and that nobody is inside a call on a reported semaphore
  (`DoomedQuiet`). `NoMissedWakeup` is inductive only in the stronger form `Offered`, which
  already counts a waiter that is about to queue. For each property the proof shows
  which goroutine an action moves into or out of the set; that the cardinality then
  changes by one is a lemma of its own (`Grow`, `Shrink`, `Swap`). `Implementation` follows:
  an acquisition has a permit because it is either in the counter or granted.
* `MarkDone_proof`: control invariants: `markDoneSema` excludes, no root job
  appears past the recheck, no worker drains while the world is stopped, and after
  the detection round nothing is blocked. That nothing is left on `work.full` is
  not among the theorems because it is false (section 5).
  `TypeOK` needs more than bounds: a counter stays within what there was only because nothing is counted twice.
  `Conserved` says so without a sum, which would need recursion over the Ps: all units of all counters can be numbered from 1 to
  `MaxWhite`, no two alike (`Numbered`), and whatever moves objects from one place to another keeps such a
  numbering (`NumberedMoved`). A goroutine that becomes a root job stops being blocked, so root jobs and blocked
  goroutines together never grow (`Bounded`).
* `NotifyList_proof`: a ticket is measured by how many were taken since (`Age`), up to half of them; on that scale the wrap-around
  disappears and `less` is the order of the natural numbers (`Distances`). `Recent` says that everybody is within the half,
  which is the guard `NoneLags`, the hypothesis of the comment at `less`; `OneEach` that the tickets from `notify` to `wait` are held by one
  waiter each, until the collector takes some. `Chained` is the shape of the memory: every parked goroutine is
  on exactly one chain, the list if its ticket is due and else the batch of one notifier, and no two goroutines have the same
  successor. Which chain and in what place is no variable of the program, so both are quantified: the invariant says that a place
  and a rank for each goroutine exist, and a step shows the new ones. `ChainFrom`, a least closed set, is then what one can walk to
  (`Members`), and it ends (`Ends`), because the rank grows. For the refinement `Line` says when a sequence of goroutines is the waiters in
  the order of their tickets; there is one at most (`LineIsWaiters`), and a step appends to it, takes its head, empties it or removes one
  from its middle. That the set of goroutines is finite is assumed because the order is defined by counting.
* `SemaTreap_proof`: the program has only pointers, so the invariant says that two things can be given (`IInv`): `sub`, the set of
  nodes from each node down, and `line`, the queue of each key. `Tree` ties `sub` to the links and parents, the same for left
  and right, so one lemma serves both rotations; `Ordered` and `Heaped` say it of keys and tickets, the latter except at the one node
  a loop is still moving. `Chained` and `Headed` lay the queue of a key along the wait links of its node, with `waittail` at its end.
  `Walk` and the `..Call`s say what a loop knows: a search that it is on the `Route` to its key, a rotation which node is
  out of place, `gcDequeue` that its predecessor precedes. What each kind of change does to a tree is a lemma about trees alone
  (`Rotation`, `NewLeafTree`, `DropLeafTree`, `TakePlaceTree`), and each action has one that gives the new `sub` and `line`.
  That the treap stays a heap when the next waiter takes the place of the head rests on the ticket that goes along with the place.
  `StepKeeps` says of the new `line` that it is the old one or that of a step of `SemaQueue`; `WaitersLine` that `WaitersOf` is `line`,
  since following the links there is only one sequence. `Implements` is the two together.
* `Harness_proof`: `Building` says that whoever compiles holds `mu` and found its directory not compiled, that what has been compiled has a
  binary, and that what a helper has started is that binary. `BinaryIntact` follows, since both ways to touch a
  binary are open to the first only. For the report `InStep` ties a task to its helper, which goes on after a timeout: a task that is
  through has a helper that ended, or an error. So what is listed is what happened (`Recorded`, `Reported`).
  `UnlistedAreClean` has `~ perf` as its hypothesis because with two compilers the binary may be the
  wrong one (`harness_perf`); `OneCompiler` is where it is used. For the table `Entries` says what an entry is made of: the annotations
  of the benchmark or none, a trace that is empty or what was printed in time. `Found` counts pairs of an execution and an
  annotation (`Hits`). Repetition and number of processors tell the executions of a benchmark with detection apart, and a line its annotations,
  so the pairs of a row map injectively into the executions, and when there are as many of the one as of the other the map is onto
  (`FoundEverywhere`): no count of one execution makes up for a miss of another. `OnePerLine` is a hypothesis of `RemainingAreFound`
  because it is about the benchmarks, whose every annotation has a line of its own; the code accepts others (section 5).

Every invariant, refinement and action property of a passing run is stated by a theorem. Model-checked only is liveness (`EveryJobClaimed`, `NobodyStranded`,
`CycleEnds`, `MarkEnds`, `PermitsFindWaiters`, `NotifiedReturn`, `ReportWritten`): it rests on fairness, hence on ENABLED, which is out of
the prover's reach. No module uses RECURSIVE operators, and no proof an induction over data.

Assumptions on constants are named `...Assumption` in the module that declares the constant. They say which sets are finite, where something is counted
(goroutines, sudogs, Ps, configurations, repetitions), that nil and the likes are nothing else, that the mask lies above every
address (`AddressAssumption`, `AddrAssumption`), that the random tickets are odd (`TicketsAssumption`), who is a worker or a tracer
(`RolesAssumption`), and that an annotation has one of the documented expressions (`InputAssumption`); the bounds are any numbers. TLC evaluates them in every run.

## 5. Disagreements between code and comments

* **code bug**, run `mark_done_preemptoff`, property `CallerPreemptible`, src/golf/src/runtime/mgc.go:915. The branch taken when detectPartialDeadlocks finds more roots starts the world and goes to top without resetting m.preemptoff, which line 875 set to "gcing"; the two other restarts do reset it (mgc.go:903, mgc.go:942). If the recheck at top then returns, the M keeps preemptoff and a worker or assist on it calls gcMarkDone again, although "The calling context must be preemptible." (src/golf/src/runtime/mgc.go:805). The baseline has no such branch.
* **doc code divergence**, run `golf_wake_window`, property `WokenNotReported`, src/golf/src/runtime/sema.go:205. semrelease1 dequeues a waiter and unlocks ("May be slow or even yield, so unlock first", src/golf/src/runtime/sema.go:206) before readyWithTime clears its waiting_sema and readies it; a goroutine preempted in between (at the prologue of mutexevent or readyWithTime) no longer holds the semaphore's address, so a collection finds the waiter blocked on an unmarked semaphore and reports it although its waker is about to run. README: GOLF reports goroutines that are "definitely blocked for all possible executions" (src/README.md:7). notifyListNotifyAll and notifyListNotifyOne have the same window (sema.go:738, sema.go:795). With gcdetectdeadlocks=1 gcGoexit then looks for the waiter where it no longer is and throws (sema.go:395, sema.go:412, mgcmark.go:282).
* **code bug**, run `harness_perf`, property `OffRunsBaseline`, src/tester/main.go:138. In a performance run the compiler depends on the configuration (main.go:121-124), but compiledTargets is keyed by the directory alone, so each benchmark is built once, by the compiler of whichever configuration takes mu first, and the executions with and without detection run that one binary. README: "The `OFF` and `ON` columns refer to two separate microbenchmark executions, which otherwise have the same configurations, but where one uses the baseline GC, while the other uses the Golf GC." (src/README.md:198). If the baseline's compiler comes first, the ON execution runs without GOLF; otherwise the OFF column measures GOLF with gcdetectdeadlocks=0.

More were met on the way and have no run.

* `mgc.go:896`: after the stop the code looks only at each `p.gcw`. A worker or assist that runs on a P
  between its pass of the ragged barrier and the stop can flush the P's write barrier buffer,
  hand part of its work to `work.full` in `gcw.balance`, drain the rest and leave; nobody looks at `flushedWork` or
  `work.full` again, so detection runs while objects are grey, although "Therefore there are no grey
  objects and no more objects can be shaded." (`mgc.go:870-872`). The window is the baseline's; that deadlock detection relies on it
  is new. `GolfMark` has it, and it can make a false report. The trace has 15 states in the instance of `golf_contract`, found by
  stating `KeepsContract` without `hasty'`: g1 wakes g2, whose wait state `gcDiscoverMoreStackRoots` reads while it changes, takes
  for that of a blocked goroutine and leaves masked; marking runs dry and the barrier is passed; g2 stores the unmarked channel `mid` in
  a global, which shades it, and parks on `far`, to which only `mid` refers; the world stops, `mid` is on `work.full`, `far` is white, and
  g2 is recycled although g1 can still get hold of `far` and wake it. `hasty` marks such a report, and what is claimed of reports is claimed until then.
  That the report does drain `work.full`, on every P, saves the sweep: `NothingMissed` and `NoDangling` hold
  without it, and the throw "non-empty mark queue after concurrent mark" is never reached when detection is on.
* `mgc.go:876-878` and `gcStart`: the world is stopped by a goroutine that stays `_Grunning` and cannot be preempted. A
  tracer in `suspendG` that has asked it to stop waits for it, and it for the tracer. `stopTheWorld` makes itself
  `_Gwaiting` first, "otherwise we could get in a mutual preemption deadlock" (`proc.go:1347-1370`), and `suspendG` demands as much
  of its callers (`preempt.go:90-94`). `MarkRoots` reaches the deadlock, in ten states: remove
  `<>[]MutualPreemption` from `NobodyStranded` and TLC shows it. The property names it as the one exception. The baseline has it too.
* `dequeue` leaves `waiters = 1` on a lone waiter (`sema.go:543`), although it is "a count of semaRoot waiting list other
  than head of list" (`runtime2.go:393`).
* Two overlapping calls of `Signal` may share one wake-up, with a waiter at every instant of both, since `wait` and
  `notify` are loaded at different times (`sema.go:755`); what does hold is `SilentNotifyOwesNothing`.
* A goroutine held up between `notifyListAdd` and `notifyListWait` while half of all tickets are notified parks
  for good (`sema.go:687`), which is what `NoneLags` leaves out of `NotifyList`.
* `DeadlockShouldBeFound` answers false for an annotation without expression, though its comment expects deadlocks unless
  stated otherwise (`trace-validator.go:127-134`); the test asserts false.
* Results of targets without annotations outside directories called "deadlock" are dropped (`main.go:195-201`), so
  unexpected deadlocks and exceptions there are listed nowhere, although `CompareWithTrace` "ensures" that
  none are missed (`trace-validator.go:207-209`).
* After a timeout the helper goroutine goes on without a ticket: it may compile and run its program later, beyond
  `parallelism` and with nobody to signal it, and then blocks for ever on `done`. Annotations on the same
  line share one row of the table: with two of them, half the executions make 100 % and all of them 200 % (`report.go:292`, `309`),
  which is why `RemainingAreFound` has the hypothesis `OnePerLine`.

## 6. What is not modelled

* The rest of the scheduler: run queues, Ps and Ms, stealing, timers, the asynchronous preemption signal, stack
  growth and `_Gcopystack`. `MarkRoots` has the status changes and their races.
* Finding annotations and their functions in the syntax tree, statistics of performance runs, and the tools that
  parse traces: text formats. `trace2status.go` and `traceback.go` only print the new statuses.
* Channel buffers and the fairness of select: what matters to detection is who waits where.
* `sync.Mutex`, `RWMutex`, `WaitGroup` and `Cond` on top of semaphores and notify lists.
* Pacing, credit, tracing, profiles, and everything of Go that GOLF leaves alone.

## 7. Plan

What could come next, in this order.

1. `WaitGroup` on top of `Semaphore`, with the wait reason GOLF gives it, in the run of `Sema`.
