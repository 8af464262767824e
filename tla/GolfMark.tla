------------------------------ MODULE GolfMark ------------------------------
(***************************************************************************)
(* One mark phase of the GOLF collector running concurrently with the      *)
(* program (mgc.go, mgcmark.go): blocked goroutines are left out of the    *)
(* roots, marking finds which of them can still be woken, those join the   *)
(* roots, and when nothing is left to mark the rest is reported.           *)
(*                                                                         *)
(* stackRoots is work.stackRoots, 1-based: the first nValidStackRoots      *)
(* entries are stack root jobs, the rest is masked.  Job 0 stands for the  *)
(* fixed, data, BSS and span jobs.  Marking is tricolour: white objects    *)
(* are not in marked, grey ones are in grey, black ones in marked only.    *)
(***************************************************************************)
EXTENDS PartialDeadlock, Sequences, Naturals

CONSTANTS
  AllGs,            \* allgs: every descriptor, in the order of the table
  Modes,            \* the settings of gcdetectdeadlocks: 1 reclaims, 2 keeps
  PreemptibleWake,  \* may a waker be preempted between Dequeue and Ready?
  MaxMutations,     \* bound on the steps of the program
  MaxCycles         \* bound on the number of collections

ASSUME AllGsAssumption ==
  AllGs \in Seq(Goroutine) /\ {AllGs[i] : i \in DOMAIN AllGs} = Goroutine
ASSUME ModesAssumption == Modes \subseteq {1, 2}
ASSUME BoundsAssumption == MaxMutations \in Nat /\ MaxCycles \in Nat

VARIABLES
  phase,            \* gcphase: "off" or "mark"
  marked, grey,     \* the mark bits and the work queues
  gcscandone,       \* goroutines whose stack has been scanned
  stackRoots, nValidStackRoots, markrootNext, detectedDeadlocks,
  markDone,         \* where gcMarkDone is, with its local indices
  doomed,           \* history: blocked for good when the cycle started
  reported,         \* history: reported in this cycle
  hasty,            \* history: a report was made while objects were grey
  mutations, cycles,
  gcdetectdeadlocks \* debug.gcdetectdeadlocks, which never changes

markVars == <<marked, grey>>
rootVars == <<stackRoots, nValidStackRoots, markrootNext>>
gcVars == <<phase, marked, grey, gcscandone, stackRoots, nValidStackRoots, markrootNext,
            detectedDeadlocks, markDone, doomed, reported, cycles>>
vars == <<progVars, gcVars, hasty, mutations, gcdetectdeadlocks>>

nStackRoots == Len(stackRoots)
markrootJobs == 1 + nValidStackRoots
Unclaimed == {stackRoots[i] : i \in (nValidStackRoots + 1) .. nStackRoots}
WorkAvailable == grey # {} \/ markrootNext < markrootJobs
WorldRuns == markDone.at # "stopped"

\* Nobody holds a waiter it has dequeued but not readied.  If wakers cannot be
\* preempted there, a stopped world has this property.
CanStopTheWorld == PreemptibleWake \/ BeingWoken = {}

TypeOK ==
  /\ ProgramTypeOK
  /\ phase \in {"off", "mark"}
  /\ grey \subseteq marked /\ marked \subseteq Object
  /\ gcscandone \subseteq Goroutine
  /\ stackRoots \in Seq(Goroutine)
  /\ nValidStackRoots \in 0 .. nStackRoots
  /\ markrootNext \in 0 .. markrootJobs
  /\ detectedDeadlocks \in BOOLEAN
  /\ markDone \in [at : {"idle", "outer", "inner", "top", "barrier", "stopped"},
                   v : 0 .. nStackRoots, iv : 0 .. nStackRoots]
  /\ doomed \subseteq Goroutine /\ reported \subseteq Goroutine /\ hasty \in BOOLEAN
  /\ mutations \in 0 .. MaxMutations /\ cycles \in 0 .. MaxCycles
  /\ gcdetectdeadlocks \in Modes

-----------------------------------------------------------------------------
(* gcStart and allGsSnapshotSortedForGC, world stopped.                    *)
Idle == [at |-> "idle", v |-> 0, iv |-> 0]

\* The goroutines in use: first the ones that are not blocked, in the order of
\* allgs, then, from blockedIndex on, the blocked ones in the opposite order.
allGsSnapshotSortedForGC ==
  \E len \in 0 .. Len(AllGs) :
  \E order \in [1 .. len -> DOMAIN AllGs], blockedIndex \in 0 .. len :
    /\ {order[j] : j \in 1 .. len} = {i \in DOMAIN AllGs : status[AllGs[i]] # "_Gidle"}
    /\ \A j \in 1 .. len : j <= blockedIndex <=> status[AllGs[order[j]]] # "_Gwaiting"
    /\ \A i, j \in 1 .. len : i < j =>
         /\ j <= blockedIndex => order[i] < order[j]
         /\ i > blockedIndex => order[j] < order[i]
    /\ stackRoots' = [j \in 1 .. len |-> AllGs[order[j]]]
    /\ nValidStackRoots' = blockedIndex

\* The goroutines that nothing outside the set can ever wake.
Doomed ==
  UNION {D \in SUBSET {g \in Goroutine : status[g] = "_Gwaiting" /\ g \notin BeingWoken} :
           \E M \in SUBSET Object :
             /\ Closed(M)
             /\ \A g \in Goroutine \ D : stack[g] \subseteq M
             /\ \A g \in D : waitingOn[g] \cap M = {}}

Init ==
  /\ ContractInit
  /\ phase = "off" /\ marked = {} /\ grey = {} /\ gcscandone = {}
  /\ stackRoots = <<>> /\ nValidStackRoots = 0 /\ markrootNext = 0
  /\ detectedDeadlocks = FALSE /\ markDone = Idle
  /\ doomed = {} /\ reported = {} /\ hasty = FALSE /\ mutations = 0 /\ cycles = 0
  /\ gcdetectdeadlocks \in Modes

\* mutant: detectedDeadlocks keeps its value from the last cycle
gcStartUnreset ==
  /\ phase = "off" /\ cycles < MaxCycles /\ CanStopTheWorld
  /\ phase' = "mark"
  /\ marked' = {} /\ grey' = {} /\ gcscandone' = {}
  /\ allGsSnapshotSortedForGC
  /\ markrootNext' = 0
  /\ cycles' = cycles + 1
  /\ doomed' = Doomed /\ reported' = {}
  /\ UNCHANGED <<progVars, detectedDeadlocks, markDone, hasty, mutations, gcdetectdeadlocks>>

gcStart ==
  /\ phase = "off" /\ cycles < MaxCycles /\ CanStopTheWorld
  /\ phase' = "mark"
  /\ marked' = {} /\ grey' = {} /\ gcscandone' = {}
  /\ allGsSnapshotSortedForGC
  /\ markrootNext' = 0
  /\ detectedDeadlocks' = FALSE
  /\ cycles' = cycles + 1
  /\ doomed' = Doomed /\ reported' = {}
  /\ UNCHANGED <<progVars, markDone, hasty, mutations, gcdetectdeadlocks>>

-----------------------------------------------------------------------------
(* Marking.                                                                *)
Shade(objs) ==
  /\ marked' = marked \cup objs
  /\ grey' = grey \cup (objs \ marked)

\* markroot: the globals, then one stack after the other.  A running goroutine
\* is suspended first, which takes it to a safe point.
MarkGlobals ==
  /\ phase = "mark" /\ WorldRuns /\ markrootNext = 0
  /\ Shade(Refs(global))
  /\ markrootNext' = 1
  /\ UNCHANGED <<progVars, phase, gcscandone, stackRoots, nValidStackRoots, detectedDeadlocks,
                 markDone, doomed, reported, cycles, hasty, mutations, gcdetectdeadlocks>>

MarkStack ==
  /\ phase = "mark" /\ WorldRuns /\ 0 < markrootNext /\ markrootNext < markrootJobs
  /\ LET g == stackRoots[markrootNext] IN
       /\ PreemptibleWake \/ waking[g] = {}
       /\ Shade(stack[g])
       /\ gcscandone' = gcscandone \cup {g}
  /\ markrootNext' = markrootNext + 1
  /\ UNCHANGED <<progVars, phase, stackRoots, nValidStackRoots, detectedDeadlocks, markDone,
                 doomed, reported, cycles, hasty, mutations, gcdetectdeadlocks>>

ScanObject(o) ==
  /\ phase = "mark" /\ WorldRuns /\ o \in grey
  /\ marked' = marked \cup Refs(field[o])
  /\ grey' = (grey \ {o}) \cup (Refs(field[o]) \ marked)
  /\ UNCHANGED <<progVars, phase, gcscandone, rootVars, detectedDeadlocks, markDone, doomed,
                 reported, cycles, hasty, mutations, gcdetectdeadlocks>>

\* mutant: a select needs all its channels marked, not one
StackRootValidAll(g) ==
  CASE status[g] = "_Gwaiting" -> {waitingOn[g] # {} /\ waitingOn[g] \subseteq marked}
    [] status[g] = "sleeping"  -> {TRUE}
    [] OTHER                   -> BOOLEAN

\* The outcomes of stackRootValid(g).  While g is not blocked its wait reason
\* and wait pointers are left over from before, so either answer may be read.
StackRootValid(g) ==
  CASE status[g] = "_Gwaiting" -> {waitingOn[g] \cap marked # {}}
    [] status[g] = "sleeping"  -> {TRUE}
    [] OTHER                   -> BOOLEAN

-----------------------------------------------------------------------------
(* gcMarkDone, first part: gcDiscoverMoreStackRoots.  It runs under        *)
(* markDoneSema but concurrently with the program, one stackRootValid per  *)
(* step, and publishes the new boundary at the end.  The wait for          *)
(* markDoneSema is left out: there is no work when it begins, but there    *)
(* may be at the end.                                                      *)
gcMarkDone ==
  /\ phase = "mark" /\ markDone.at = "idle" /\ ~WorkAvailable
  /\ markDone' = [at |-> "outer", v |-> nValidStackRoots, iv |-> nStackRoots]
  /\ UNCHANGED <<progVars, phase, markVars, gcscandone, rootVars, detectedDeadlocks, doomed,
                 reported, cycles, hasty, mutations, gcdetectdeadlocks>>

DiscoverFirst ==
  /\ markDone.at = "outer" /\ markDone.v < markDone.iv
  /\ \E valid \in StackRootValid(stackRoots[markDone.v + 1]) :
       markDone' = IF valid THEN [markDone EXCEPT !.v = @ + 1] ELSE [markDone EXCEPT !.at = "inner"]
  /\ UNCHANGED <<progVars, phase, markVars, gcscandone, rootVars, detectedDeadlocks, doomed,
                 reported, cycles, hasty, mutations, gcdetectdeadlocks>>

\* Look from the back for a goroutine to swap with the invalid one at v.
DiscoverSwap ==
  /\ markDone.at = "inner"
  /\ LET v == markDone.v
         iv == markDone.iv - 1
     IN \/ /\ iv = v
           /\ markDone' = [at |-> "outer", v |-> v, iv |-> iv]
           /\ UNCHANGED stackRoots
        \/ /\ iv # v
           /\ \E valid \in StackRootValid(stackRoots[iv + 1]) :
                IF valid
                THEN /\ stackRoots' = [stackRoots EXCEPT ![v + 1] = stackRoots[iv + 1],
                                                         ![iv + 1] = stackRoots[v + 1]]
                     /\ markDone' = [at |-> "outer", v |-> v + 1, iv |-> iv]
                ELSE /\ markDone' = [markDone EXCEPT !.iv = iv]
                     /\ UNCHANGED stackRoots
  /\ UNCHANGED <<progVars, phase, markVars, gcscandone, nValidStackRoots, markrootNext,
                 detectedDeadlocks, doomed, reported, cycles, hasty, mutations, gcdetectdeadlocks>>

\* mutant: off by one, the first invalid goroutine is published as well
DiscoverPublishOneMore ==
  /\ markDone.at = "outer" /\ markDone.v = markDone.iv
  /\ nValidStackRoots' = markDone.v + 1
  /\ markDone' = [Idle EXCEPT !.at = "top"]
  /\ UNCHANGED <<progVars, phase, markVars, gcscandone, stackRoots, markrootNext,
                 detectedDeadlocks, doomed, reported, cycles, hasty, mutations, gcdetectdeadlocks>>

DiscoverPublish ==
  /\ markDone.at = "outer" /\ markDone.v = markDone.iv
  /\ nValidStackRoots' = markDone.v
  /\ markDone' = [Idle EXCEPT !.at = "top"]
  /\ UNCHANGED <<progVars, phase, markVars, gcscandone, stackRoots, markrootNext,
                 detectedDeadlocks, doomed, reported, cycles, hasty, mutations, gcdetectdeadlocks>>

(* Second part, from the label top.  If there is work, return: the mark    *)
(* workers carry on.                                                       *)
MarkDoneReturns ==
  /\ markDone.at = "top" /\ WorkAvailable
  /\ markDone' = Idle
  /\ UNCHANGED <<progVars, phase, markVars, gcscandone, rootVars, detectedDeadlocks, doomed,
                 reported, cycles, hasty, mutations, gcdetectdeadlocks>>

\* The ragged barrier is passed without restart if nothing was grey when it
\* began.  Until the world stops the program and the workers run on.
PassBarrier ==
  /\ markDone.at = "top" /\ ~WorkAvailable
  /\ markDone' = [Idle EXCEPT !.at = "barrier"]
  /\ UNCHANGED <<progVars, phase, markVars, gcscandone, rootVars, detectedDeadlocks, doomed,
                 reported, cycles, hasty, mutations, gcdetectdeadlocks>>

\* What is done in the stop is done at once: nothing else moves.
WorldStops == markDone.at = "barrier" /\ CanStopTheWorld

\* Some p.gcw holds grey objects: start the world, goto top.  Grey objects that
\* have all reached work.full by then are not looked at.
Restart ==
  /\ WorldStops /\ grey # {}
  /\ markDone' = [Idle EXCEPT !.at = "top"]
  /\ UNCHANGED <<progVars, phase, markVars, gcscandone, rootVars, detectedDeadlocks, doomed,
                 reported, cycles, hasty, mutations, gcdetectdeadlocks>>

\* detectPartialDeadlocks skips the goroutines that are blocked on white objects.
Blocked(g) == status[g] = "_Gwaiting" /\ StackRootValid(g) = {FALSE}

\* The loop of detectPartialDeadlocks swaps the goroutines it finds behind the
\* root jobs; where that takes the others is left open.
FindMore(count) ==
  LET rest == (nValidStackRoots + 1) .. nStackRoots IN
  \E order \in [rest -> rest] :
    /\ {order[i] : i \in rest} = rest
    /\ \A i \in rest : i <= nValidStackRoots + count <=> ~Blocked(stackRoots[order[i]])
    /\ \A i, j \in rest : i < j /\ j <= nValidStackRoots + count => order[i] < order[j]
    /\ stackRoots' = [i \in DOMAIN stackRoots |->
                        IF i \in rest THEN stackRoots[order[i]] ELSE stackRoots[i]]

\* mutant: the goroutines found are not counted as root jobs
DetectMoreUncounted ==
  /\ WorldStops /\ ~detectedDeadlocks
  /\ \E count \in 1 .. (nStackRoots - nValidStackRoots) : FindMore(count)
  /\ markDone' = [Idle EXCEPT !.at = "top"]
  /\ UNCHANGED <<progVars, phase, markVars, gcscandone, nValidStackRoots, markrootNext,
                 detectedDeadlocks, doomed, reported, cycles, hasty, mutations, gcdetectdeadlocks>>

\* mutant: markrootNext moves along with markrootJobs
DetectMoreSkips ==
  /\ WorldStops /\ ~detectedDeadlocks
  /\ \E count \in 1 .. (nStackRoots - nValidStackRoots) :
       /\ FindMore(count)
       /\ nValidStackRoots' = nValidStackRoots + count
       /\ markrootNext' = markrootNext + count
  /\ markDone' = [Idle EXCEPT !.at = "top"]
  /\ UNCHANGED <<progVars, phase, markVars, gcscandone, detectedDeadlocks, doomed, reported,
                 cycles, hasty, mutations, gcdetectdeadlocks>>

\* detectPartialDeadlocks, world stopped, finds goroutines that can run after
\* all: they become root jobs, the world starts, goto top.
DetectMore ==
  /\ WorldStops /\ ~detectedDeadlocks
  /\ \E count \in 1 .. (nStackRoots - nValidStackRoots) :
       FindMore(count) /\ nValidStackRoots' = nValidStackRoots + count
  /\ markDone' = [Idle EXCEPT !.at = "top"]
  /\ UNCHANGED <<progVars, phase, markVars, gcscandone, markrootNext, detectedDeadlocks, doomed,
                 reported, cycles, hasty, mutations, gcdetectdeadlocks>>

\* The root jobs of the reported goroutines are drained on the spot, together
\* with all there is on the work queues: gcGoexit has recycled the goroutines,
\* or their stacks are scanned.  If every goroutine is a root there is no drain.
DrainReported ==
  LET roots == IF gcdetectdeadlocks = 1 THEN {} ELSE UNION {stack[g] : g \in Unclaimed} IN
  IF Unclaimed = {} THEN UNCHANGED markVars
  ELSE marked' = marked \cup Reachable(grey \cup roots) /\ grey' = {}

\* mutant: the status of the goroutines is not looked at again
DetectReportUnchecked ==
  /\ WorldStops /\ ~detectedDeadlocks
  /\ IF gcdetectdeadlocks = 1 THEN Recycle(Unclaimed) ELSE Keep(Unclaimed)
  /\ DrainReported
  /\ reported' = Unclaimed
  /\ hasty' = (hasty \/ (grey # {} /\ Unclaimed # {}))
  /\ gcscandone' = gcscandone \cup Unclaimed
  /\ nValidStackRoots' = nStackRoots
  /\ markrootNext' = 1 + nStackRoots
  /\ detectedDeadlocks' = TRUE
  /\ markDone' = [Idle EXCEPT !.at = "stopped"]
  /\ UNCHANGED <<phase, stackRoots, doomed, cycles, mutations, gcdetectdeadlocks>>

\* It finds none: the rest is reported, and the world stays stopped.
DetectReport ==
  /\ WorldStops /\ ~detectedDeadlocks
  /\ \A g \in Unclaimed : Blocked(g)
  /\ IF gcdetectdeadlocks = 1 THEN Recycle(Unclaimed) ELSE Keep(Unclaimed)
  /\ DrainReported
  /\ reported' = Unclaimed
  /\ hasty' = (hasty \/ (grey # {} /\ Unclaimed # {}))
  /\ gcscandone' = gcscandone \cup Unclaimed
  /\ nValidStackRoots' = nStackRoots
  /\ markrootNext' = 1 + nStackRoots
  /\ detectedDeadlocks' = TRUE
  /\ markDone' = [Idle EXCEPT !.at = "stopped"]
  /\ UNCHANGED <<phase, stackRoots, doomed, cycles, mutations, gcdetectdeadlocks>>

\* gcMarkTermination, with the sweep that follows.  gcMark throws if there is
\* work left.
MarkTermination ==
  /\ markDone.at = "stopped" /\ ~WorkAvailable
  /\ Free(allocated \ marked)
  /\ phase' = "off"
  /\ marked' = {} /\ gcscandone' = {}
  /\ stackRoots' = <<>> /\ nValidStackRoots' = 0 /\ markrootNext' = 0
  /\ markDone' = Idle
  /\ UNCHANGED <<grey, detectedDeadlocks, doomed, reported, cycles, hasty, mutations, gcdetectdeadlocks>>

-----------------------------------------------------------------------------
(* The program, with the write barrier and allocation colour of the mark   *)
(* phase.  Waking and timers are not counted: what was begun is finished.  *)
\* mutant: no write barrier
WriteBarrierOff(objs) == UNCHANGED markVars

WriteBarrier(objs) == IF phase = "mark" THEN Shade(objs) ELSE UNCHANGED markVars

AllocateBlack(o) ==
  /\ marked' = IF phase = "mark" THEN marked \cup {o} ELSE marked
  /\ UNCHANGED grey

Mutate(g) ==
  \/ \E o \in Object : (Load(g, o) \/ Forget(g, o)) /\ UNCHANGED markVars
  \/ LoadGlobal(g) /\ UNCHANGED markVars
  \/ \E o \in Object : New(g, o) /\ AllocateBlack(o)
  \/ \E o \in Object, v \in Object \cup {Nil} :
       Store(g, o, v) /\ WriteBarrier(Refs(v) \cup Refs(field[o]))
  \/ \E v \in Object \cup {Nil} : StoreGlobal(g, v) /\ WriteBarrier(Refs(v) \cup Refs(global))
  \/ \E h \in Goroutine, args \in SUBSET stack[g] : Go(g, h, args) /\ WriteBarrier(args)
  \/ Goexit(g) /\ UNCHANGED markVars
  \/ \E objs \in SUBSET stack[g] : Park(g, objs) /\ UNCHANGED markVars
  \/ Sleep(g) /\ UNCHANGED markVars
  \/ \E o \in stack[g] : \E hs \in SUBSET queue[o], v \in Object \cup {Nil}, keep \in BOOLEAN :
       Dequeue(g, o, hs, v, keep) /\ WriteBarrier(Refs(v))

Others == <<phase, gcscandone, rootVars, detectedDeadlocks, markDone, doomed, reported, cycles, hasty>>

Mutator ==
  \/ /\ WorldRuns /\ cycles > 0 /\ mutations < MaxMutations
     /\ mutations' = mutations + 1
     /\ \E g \in Goroutine : Mutate(g)
     /\ UNCHANGED <<Others, gcdetectdeadlocks>>
  \/ /\ WorldRuns
     /\ \E g \in Goroutine : WakeUp(g) \/ \E h \in Goroutine : Ready(g, h)
     /\ UNCHANGED <<Others, markVars, mutations, gcdetectdeadlocks>>

Draining == MarkGlobals \/ MarkStack \/ \E o \in Object : ScanObject(o)

Finishing ==
  \/ gcMarkDone \/ DiscoverFirst \/ DiscoverSwap \/ DiscoverPublish
  \/ MarkDoneReturns \/ PassBarrier \/ Restart
  \/ DetectMore \/ DetectReport \/ MarkTermination

Marking == Draining \/ Finishing

Next == Mutator \/ gcStart \/ Marking

Spec == Init /\ [][Next]_vars

(* Mark workers drain while there is work, gcMarkDone goes on until the    *)
(* cycle is over, and a waker readies what it dequeued; nothing else is    *)
(* promised to happen.                                                     *)
Readying ==
  /\ WorldRuns
  /\ \E g, h \in Goroutine : Ready(g, h)
  /\ UNCHANGED <<Others, markVars, mutations, gcdetectdeadlocks>>

Fairness == WF_vars(Draining) /\ WF_vars(Finishing) /\ WF_vars(Readying)

FairSpec == Spec /\ Fairness

-----------------------------------------------------------------------------
(* The collector keeps the contract: it reports only goroutines that no    *)
(* other goroutine can ever wake, and frees only objects that nobody can   *)
(* reach, whatever the program does while it marks.  This ends with a      *)
(* hasty report, one made while objects on work.full were still grey.      *)
KeepsContract == ContractInit /\ [][hasty' \/ ContractNext]_progVars

(* Up to a hasty report, a waker finds the goroutine it has taken off a    *)
(* queue waiting: the collector has not reported it meanwhile.             *)
WokenNotReported == hasty \/ WokenIsWaiting

(* Up to a hasty report, no goroutine that can run gets hold of a channel  *)
(* with an entry left by a goroutine that gcGoexit recycled.               *)
StaleWaitersHidden == hasty \/ NoStaleWaiters

(* The detection misses nothing: a goroutine that nobody could wake when   *)
(* the cycle started has been reported when it ends.  (After a hasty       *)
(* report an entry left behind may revive a goroutine that was doomed.)    *)
AllDoomedReported == hasty \/ (detectedDeadlocks => doomed \subseteq reported)

(* What gcMark and gcMarkRootCheck assert at mark termination: there is no *)
(* work left ("non-empty mark queue after concurrent mark"), and every     *)
(* goroutine of the snapshot has been scanned or recycled ("scan missed a  *)
(* g"), although nobody looks at work.full after the ragged barrier.       *)
NothingMissed ==
  markDone.at = "stopped" =>
    ~WorkAvailable /\ {stackRoots[i] : i \in 1 .. nStackRoots} \subseteq gcscandone

(* A cycle that has begun comes to an end: the rounds that add stack roots *)
(* and the restarts run out, unless ready throws.                          *)
CycleEnds == phase = "mark" ~> (phase = "off" \/ ~WokenIsWaiting)
=============================================================================
