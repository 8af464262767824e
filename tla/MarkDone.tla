------------------------------ MODULE MarkDone ------------------------------
(***************************************************************************)
(* The end of the mark phase (mgc.go, gcMarkDone): how the collector finds *)
(* out that nothing is left to mark, when it may look for partial          *)
(* deadlocks, and how it goes back to marking when it was wrong.           *)
(*                                                                         *)
(* Objects are counted, not named.  A white object becomes grey in the     *)
(* gcWork of a P (local) or waits in the P's write barrier buffer (wbBuf), *)
(* grey objects move between the Ps through the global queue (full).       *)
(* Workers are background mark workers and assists: goroutines that drain  *)
(* on some P and run gcMarkDone when they were the last.                   *)
(***************************************************************************)
EXTENDS Naturals, FiniteSets

CONSTANTS
  Procs,            \* the Ps, each with the M that runs it
  Workers,          \* mark workers and assists
  MaxWhite,         \* bound on the objects that are white when marking starts
  MaxJobs,          \* bound on the root jobs published when marking starts
  MaxBlocked,       \* bound on the blocked goroutines left out of them
  MaxDetours        \* bound on the preemptions for no reason of the GC, and on assists without work

ASSUME BoundsAssumption ==
  /\ MaxWhite \in Nat /\ MaxJobs \in Nat /\ MaxBlocked \in Nat /\ MaxDetours \in Nat
ASSUME ProcsAssumption == IsFiniteSet(Procs)

VARIABLES
  phase,            \* gcphase: "mark" or "off"
  white,            \* objects not marked and in no write barrier buffer
  full,             \* grey objects on work.full
  local, wbBuf,     \* P -> grey objects in gcw, white objects in wbBuf
  flushedWork,      \* the Ps whose gcw has put work on work.full
  jobs,             \* root jobs published and not claimed
  blocked,          \* goroutines that are not root jobs yet
  detectedDeadlocks,
  pc, on,           \* worker -> where it is, the P it runs on
  passed,           \* the Ps that have run the ragged barrier
  barrierFlushed,   \* gcMarkDoneFlushed # 0
  preemptoff,       \* the Ms with preemptoff = "gcing"
  detours

workVars == <<white, full, local, wbBuf, flushedWork>>
barrierVars == <<passed, barrierFlushed>>
vars == <<phase, workVars, jobs, blocked, detectedDeadlocks, pc, on, barrierVars, preemptoff,
          detours>>

DrainLabels == {"roots", "loop", "get"}
MarkDoneLabels == {"top", "world", "barrier", "stop", "flush1", "detect", "flush2"}
Labels == {"parked", "last", "acquire", "discover"} \cup DrainLabels \cup MarkDoneLabels

TypeOK ==
  /\ phase \in {"mark", "off"}
  /\ white \in 0 .. MaxWhite /\ full \in 0 .. MaxWhite
  /\ local \in [Procs -> 0 .. MaxWhite] /\ wbBuf \in [Procs -> 0 .. MaxWhite]
  /\ flushedWork \subseteq Procs
  /\ jobs \in 0 .. (MaxJobs + MaxBlocked) /\ blocked \in 0 .. MaxBlocked
  /\ detectedDeadlocks \in BOOLEAN
  /\ pc \in [Workers -> Labels] /\ on \in [Workers -> Procs]
  /\ passed \subseteq Procs /\ barrierFlushed \in BOOLEAN
  /\ preemptoff \subseteq Procs
  /\ detours \in 0 .. MaxDetours

Goto(w, label) == pc' = [pc EXCEPT ![w] = label]

\* work.nwait = work.nproc: no worker is between its two updates of nwait.
Draining == {w \in Workers : pc[w] \in DrainLabels}
\* The Ps whose worker is not preemptible.
Busy == {on[w] : w \in {v \in Workers : pc[v] \in DrainLabels \cup {"last"}}}
gcMarkWorkAvailable == full > 0 \/ jobs > 0

\* markDoneSema is held by whoever is past "acquire".
Holders == {w \in Workers : pc[w] \in MarkDoneLabels \cup {"discover"}}
WorldStopped == \E w \in Workers : pc[w] \in {"flush1", "detect", "flush2"}
BarrierPending(p) == (\E w \in Workers : pc[w] = "barrier") /\ p \notin passed
StopPending == \E w \in Workers : pc[w] = "stop"

\* Grey, or certain to be.
Cached == \E p \in Procs : local[p] > 0 \/ wbBuf[p] > 0
GreyLeft == gcMarkWorkAvailable \/ Cached

Init ==
  /\ phase = "mark"
  /\ white \in 0 .. MaxWhite /\ full = 0
  /\ local = [p \in Procs |-> 0] /\ wbBuf = [p \in Procs |-> 0]
  /\ flushedWork = {}
  /\ jobs \in 1 .. MaxJobs /\ blocked \in 0 .. MaxBlocked
  /\ detectedDeadlocks = FALSE
  /\ pc = [w \in Workers |-> "parked"] /\ on \in [Workers -> Procs]
  /\ passed = {} /\ barrierFlushed = FALSE
  /\ preemptoff = {} /\ detours = 0

-----------------------------------------------------------------------------
(* The program: a write barrier records a pointer to a white object.  Only *)
(* grey objects lead to white ones, and stacks that have not been scanned: *)
(* those of the root jobs left, and of blocked goroutines woken meanwhile. *)
BufferWrite(p) ==
  /\ phase = "mark" /\ ~WorldStopped
  /\ p \notin Busy
  /\ white > 0 /\ (GreyLeft \/ Draining # {} \/ blocked > 0)
  /\ white' = white - 1
  /\ wbBuf' = [wbBuf EXCEPT ![p] = @ + 1]
  /\ UNCHANGED <<phase, full, local, flushedWork, jobs, blocked, detectedDeadlocks, pc, on,
                 barrierVars, preemptoff, detours>>

-----------------------------------------------------------------------------
(* Mark workers.                                                           *)
\* A worker starts where there is work for it, an assist anywhere; an assist that
\* finds none waits on the assist queue and does not come back.  A P runs a
\* pending ragged barrier before anything else.
Start(w, p) ==
  /\ phase = "mark" /\ ~WorldStopped /\ ~StopPending /\ ~BarrierPending(p)
  /\ pc[w] = "parked" /\ p \notin Busy
  /\ \/ /\ gcMarkWorkAvailable \/ local[p] > 0
        /\ Goto(w, "roots") /\ UNCHANGED detours
     \/ /\ detours < MaxDetours /\ detours' = detours + 1
        /\ Goto(w, "loop")
  /\ on' = [on EXCEPT ![w] = p]
  /\ UNCHANGED <<phase, workVars, jobs, blocked, detectedDeadlocks, barrierVars, preemptoff>>

\* Top of the gcDrain loops: leave if the P is needed.
Preempted(w) ==
  /\ pc[w] \in {"roots", "loop"}
  /\ \/ (StopPending \/ BarrierPending(on[w])) /\ UNCHANGED detours
     \/ detours < MaxDetours /\ detours' = detours + 1
  /\ Goto(w, "last")
  /\ UNCHANGED <<phase, workVars, jobs, blocked, detectedDeadlocks, on, barrierVars, preemptoff>>

\* What is found by scanning a root or an object is white or in a write
\* barrier buffer; it becomes grey on p, which had n grey objects.
Scan(p, n) ==
  \E k \in 0 .. white, from \in SUBSET {q \in Procs : wbBuf[q] > 0} :
    /\ Cardinality(from) <= 1
    /\ white' = white - k
    /\ wbBuf' = [q \in Procs |-> IF q \in from THEN wbBuf[q] - 1 ELSE wbBuf[q]]
    /\ local' = [local EXCEPT ![p] = n + k + Cardinality(from)]

\* A worker takes root jobs before anything else, an assist when there is
\* nothing else.
MarkRoot(w) ==
  /\ \/ pc[w] = "roots"
     \/ pc[w] = "get" /\ local[on[w]] = 0 /\ full = 0 /\ wbBuf[on[w]] = 0
  /\ jobs > 0
  /\ jobs' = jobs - 1
  /\ Scan(on[w], local[on[w]])
  /\ Goto(w, IF pc[w] = "get" THEN "loop" ELSE "roots")
  /\ UNCHANGED <<phase, full, flushedWork, blocked, detectedDeadlocks, on, barrierVars,
                 preemptoff, detours>>

NoMoreRoots(w) ==
  /\ pc[w] = "roots" /\ jobs = 0
  /\ Goto(w, "loop")
  /\ UNCHANGED <<phase, workVars, jobs, blocked, detectedDeadlocks, on, barrierVars, preemptoff,
                 detours>>

\* gcw.balance, or not: part of the local work goes to the global queue.
Balance(w) ==
  LET p == on[w] IN
  /\ pc[w] = "loop"
  /\ \/ /\ full = 0
        /\ \E k \in 1 .. local[p] :
             /\ full' = k
             /\ local' = [local EXCEPT ![p] = @ - k]
        /\ flushedWork' = flushedWork \cup {p}
     \/ UNCHANGED <<full, local, flushedWork>>
  /\ Goto(w, "get")
  /\ UNCHANGED <<phase, white, wbBuf, jobs, blocked, detectedDeadlocks, on, barrierVars,
                 preemptoff, detours>>

\* tryGetFast, tryGet: take an object from the gcw, or a buffer from the global queue.
GetAndScan(w) ==
  LET p == on[w] IN
  /\ pc[w] = "get"
  /\ \/ local[p] > 0 /\ Scan(p, local[p] - 1) /\ UNCHANGED full
     \/ /\ local[p] = 0
        /\ \E k \in 1 .. full : full' = full - k /\ Scan(p, k - 1)
  /\ Goto(w, "loop")
  /\ UNCHANGED <<phase, flushedWork, jobs, blocked, detectedDeadlocks, on, barrierVars,
                 preemptoff, detours>>

\* Nothing there: flush the write barrier buffer, then stop if that is empty too.
FlushOrStop(w) ==
  LET p == on[w] IN
  /\ pc[w] = "get" /\ local[p] = 0 /\ full = 0
  /\ local' = [local EXCEPT ![p] = wbBuf[p]]
  /\ wbBuf' = [wbBuf EXCEPT ![p] = 0]
  /\ Goto(w, IF wbBuf[p] > 0 THEN "get" ELSE "last")
  /\ UNCHANGED <<phase, white, full, flushedWork, jobs, blocked, detectedDeadlocks, on,
                 barrierVars, preemptoff, detours>>

\* nwait was incremented on the way to "last".  Was this the last worker, and
\* did we run out of work?
Stop(w) ==
  /\ pc[w] = "last"
  /\ Goto(w, IF Draining = {} /\ ~gcMarkWorkAvailable THEN "acquire" ELSE "parked")
  /\ UNCHANGED <<phase, workVars, jobs, blocked, detectedDeadlocks, on, barrierVars, preemptoff,
                 detours>>

-----------------------------------------------------------------------------
(* gcMarkDone.                                                             *)
Acquire(w) ==
  /\ pc[w] = "acquire" /\ Holders = {}
  /\ Goto(w, "discover")
  /\ UNCHANGED <<phase, workVars, jobs, blocked, detectedDeadlocks, on, barrierVars, preemptoff,
                 detours>>

\* gcDiscoverMoreStackRoots: k goroutines turn out to be runnable.
Discover(w) ==
  /\ pc[w] = "discover"
  /\ \E k \in 0 .. blocked :
       /\ blocked' = blocked - k
       /\ jobs' = jobs + k
  /\ Goto(w, "top")
  /\ UNCHANGED <<phase, workVars, detectedDeadlocks, on, barrierVars, preemptoff, detours>>

Recheck(w) ==
  /\ pc[w] = "top"
  /\ Goto(w, IF phase = "mark" /\ Draining = {} /\ ~gcMarkWorkAvailable THEN "world" ELSE "parked")
  /\ UNCHANGED <<phase, workVars, jobs, blocked, detectedDeadlocks, on, barrierVars, preemptoff,
                 detours>>

StartBarrier(w) ==
  /\ pc[w] = "world"
  /\ passed' = {} /\ barrierFlushed' = FALSE
  /\ Goto(w, "barrier")
  /\ UNCHANGED <<phase, workVars, jobs, blocked, detectedDeadlocks, on, preemptoff, detours>>

\* mutant: the gcw keeps the buffers it put on the global queue
RaggedBarrierKeeps(w, p) ==
  /\ pc[w] = "barrier" /\ p \notin passed /\ p \notin Busy
  /\ full' = full + local[p] + wbBuf[p]
  /\ local' = [local EXCEPT ![p] = @ + wbBuf[p]]
  /\ wbBuf' = [wbBuf EXCEPT ![p] = 0]
  /\ barrierFlushed' = (barrierFlushed \/ p \in flushedWork \/ local[p] + wbBuf[p] > 0)
  /\ flushedWork' = flushedWork \ {p}
  /\ passed' = passed \cup {p}
  /\ UNCHANGED <<phase, white, jobs, blocked, detectedDeadlocks, pc, on, preemptoff, detours>>

\* mutant: the gcw is not disposed of
RaggedBarrierNoDispose(w, p) ==
  /\ pc[w] = "barrier" /\ p \notin passed /\ p \notin Busy
  /\ local' = [local EXCEPT ![p] = @ + wbBuf[p]]
  /\ wbBuf' = [wbBuf EXCEPT ![p] = 0]
  /\ barrierFlushed' = (barrierFlushed \/ p \in flushedWork)
  /\ flushedWork' = flushedWork \ {p}
  /\ passed' = passed \cup {p}
  /\ UNCHANGED <<phase, white, full, jobs, blocked, detectedDeadlocks, pc, on, preemptoff, detours>>

\* The function given to forEachP, on p: flush the write barrier buffer,
\* dispose of the gcw, collect the flushedWork flag.
RaggedBarrier(w, p) ==
  /\ pc[w] = "barrier" /\ p \notin passed /\ p \notin Busy
  /\ full' = full + local[p] + wbBuf[p]
  /\ local' = [local EXCEPT ![p] = 0]
  /\ wbBuf' = [wbBuf EXCEPT ![p] = 0]
  /\ barrierFlushed' = (barrierFlushed \/ p \in flushedWork \/ local[p] + wbBuf[p] > 0)
  /\ flushedWork' = flushedWork \ {p}
  /\ passed' = passed \cup {p}
  /\ UNCHANGED <<phase, white, jobs, blocked, detectedDeadlocks, pc, on, preemptoff, detours>>

EndBarrier(w) ==
  /\ pc[w] = "barrier" /\ passed = Procs
  /\ Goto(w, IF barrierFlushed THEN "top" ELSE "stop")
  /\ preemptoff' = IF barrierFlushed THEN preemptoff ELSE preemptoff \cup {on[w]}
  /\ UNCHANGED <<phase, workVars, jobs, blocked, detectedDeadlocks, on, barrierVars, detours>>

StopTheWorld(w) ==
  /\ pc[w] = "stop" /\ Busy = {}
  /\ Goto(w, "flush1")
  /\ UNCHANGED <<phase, workVars, jobs, blocked, detectedDeadlocks, on, barrierVars, preemptoff,
                 detours>>

\* The checks for work that write barriers added after the ragged barrier: the
\* first P found with some makes gcMarkDone start the world and try again.
FlushCheck(w, from, next) ==
  /\ pc[w] = from
  /\ IF Cached
     THEN /\ \E p \in Procs :
               /\ local[p] + wbBuf[p] > 0
               /\ local' = [local EXCEPT ![p] = @ + wbBuf[p]]
               /\ wbBuf' = [wbBuf EXCEPT ![p] = 0]
          /\ Goto(w, "top")
          /\ preemptoff' = preemptoff \ {on[w]}
          /\ UNCHANGED phase
     ELSE /\ Goto(w, next)
          /\ UNCHANGED <<local, wbBuf>>
          /\ IF next = "parked"
             THEN phase' = "off" /\ preemptoff' = preemptoff \ {on[w]}
             ELSE UNCHANGED <<phase, preemptoff>>
  /\ UNCHANGED <<white, full, flushedWork, jobs, blocked, detectedDeadlocks, on, barrierVars,
                 detours>>

FirstFlushCheck(w) == FlushCheck(w, "flush1", "detect")

\* mutant: no second check after the detection round
SecondFlushCheckSkipped(w) ==
  /\ pc[w] = "flush2"
  /\ Goto(w, "parked")
  /\ phase' = "off"
  /\ preemptoff' = preemptoff \ {on[w]}
  /\ UNCHANGED <<workVars, jobs, blocked, detectedDeadlocks, on, barrierVars, detours>>

\* The second one ends the mark phase, in gcMarkTermination.
SecondFlushCheck(w) == FlushCheck(w, "flush2", "parked")

\* mutant: the phase goes on to its end although goroutines were found
DetectMoreFallsThrough(w) ==
  /\ pc[w] = "detect" /\ ~detectedDeadlocks
  /\ \E k \in 1 .. blocked :
       /\ blocked' = blocked - k
       /\ jobs' = jobs + k
  /\ Goto(w, "flush2")
  /\ UNCHANGED <<phase, workVars, detectedDeadlocks, on, barrierVars, preemptoff, detours>>

\* detectPartialDeadlocks returns false: k goroutines can run after all.
DetectMore(w) ==
  /\ pc[w] = "detect" /\ ~detectedDeadlocks
  /\ \E k \in 1 .. blocked :
       /\ blocked' = blocked - k
       /\ jobs' = jobs + k
  /\ Goto(w, "top")
  /\ UNCHANGED <<phase, workVars, detectedDeadlocks, on, barrierVars, preemptoff, detours>>

\* It reports the rest and drains their root jobs on the spot, for every P.
\* That may mark more, and leave some of it behind in the gcw or the write
\* barrier buffer of the current P.
DetectReport(w) ==
  /\ pc[w] = "detect" /\ ~detectedDeadlocks /\ blocked > 0
  /\ blocked' = 0 /\ jobs' = 0
  /\ full' = 0
  /\ \E k \in 0 .. white : \E left, buffered \in 0 .. k :
       /\ left + buffered <= k
       /\ white' = white - k
       /\ local' = [p \in Procs |-> IF p = on[w] THEN left ELSE 0]
       /\ wbBuf' = [p \in Procs |-> IF p = on[w] THEN buffered ELSE 0]
  /\ detectedDeadlocks' = TRUE
  /\ Goto(w, "flush2")
  /\ UNCHANGED <<phase, flushedWork, on, barrierVars, preemptoff, detours>>

\* Nobody is left to report, or the detection round of this cycle is over.
DetectNone(w) ==
  /\ pc[w] = "detect" /\ (detectedDeadlocks \/ blocked = 0)
  /\ detectedDeadlocks' = TRUE
  /\ Goto(w, "flush2")
  /\ UNCHANGED <<phase, workVars, jobs, blocked, on, barrierVars, preemptoff, detours>>

-----------------------------------------------------------------------------
Drain(w) ==
  \/ Preempted(w) \/ MarkRoot(w) \/ NoMoreRoots(w) \/ Balance(w) \/ GetAndScan(w)
  \/ FlushOrStop(w) \/ Stop(w)

MarkDone(w) ==
  \/ Acquire(w) \/ Discover(w) \/ Recheck(w) \/ StartBarrier(w)
  \/ \E p \in Procs : RaggedBarrier(w, p)
  \/ EndBarrier(w) \/ StopTheWorld(w) \/ FirstFlushCheck(w)
  \/ DetectMore(w) \/ DetectReport(w) \/ DetectNone(w) \/ SecondFlushCheck(w)

Next ==
  \/ \E p \in Procs : BufferWrite(p)
  \/ \E w \in Workers : (\E p \in Procs : Start(w, p)) \/ Drain(w) \/ MarkDone(w)

Spec == Init /\ [][Next]_vars

(* The scheduler runs a worker where there is work for one, and goes on    *)
(* running those that have started; the program and assists owe nothing.   *)
Fairness ==
  /\ WF_vars(\E w \in Workers, p \in Procs : Start(w, p))
  /\ \A w \in Workers : WF_vars(Drain(w)) /\ WF_vars(MarkDone(w))

FairSpec == Spec /\ Fairness

-----------------------------------------------------------------------------
(* When the mark phase ends no P has cached work or buffered pointers (the *)
(* throw "P has cached GC work at end of mark termination"), whatever the  *)
(* detection round shaded.                                                 *)
NothingCachedAtEnd == phase = "off" => ~Cached

(* The mark phase never ends with a goroutine that was neither reported    *)
(* nor made a root job and scanned, although jobs are appended while       *)
(* gcMarkDone is on its way (gcMark panics over unclaimed jobs).           *)
EveryGoroutineSettled == phase = "off" => blocked = 0 /\ jobs = 0

(* gcMarkDone: "The calling context must be preemptible."                  *)
CallerPreemptible == \A w \in Workers : pc[w] = "acquire" => on[w] \notin preemptoff

(* The mark phase ends, however often gcMarkDone has to go back: root jobs *)
(* appended after the last worker left, or work found after the barrier,   *)
(* always get a worker, and the last one calls gcMarkDone again.           *)
MarkEnds == <>(phase = "off")
=============================================================================
