----------------------------- MODULE StackRoots -----------------------------
(***************************************************************************)
(* How GOLF keeps blocked goroutines out of the collector's sight, word by *)
(* word.  allgs, work.stackRoots, sudog.elem and g.waiting_sema hold       *)
(* masked addresses, which marking does not follow, so that a blocked      *)
(* goroutine and what it waits for are marked only if the program can      *)
(* still reach them.  The price: nothing refers to a g struct any more but *)
(* the write barrier on the stores into work.stackRoots.                   *)
(*                                                                         *)
(* An object is its address and its content the sequence of its pointer    *)
(* words in the order of the fields.  stackRoots is 1-based.               *)
(***************************************************************************)
EXTENDS Naturals, Sequences, FiniteSets

CONSTANTS
  Goroutine,        \* addresses of the g structs, in use or not
  SudogOf,          \* the sudog each of them waits with
  Channel, SemaSeq, \* channels; semaphores and notify lists in treap order
  AllgsArray,       \* the backing array of allgs
  MaskUnit,         \* 2^60: addresses are below it
  Globals,          \* channels and semaphores that globals refer to
  Modes,            \* the settings of gcdetectdeadlocks that are explored
  MaxMutations,     \* bound on the steps of the program
  MaxCycles         \* bound on the number of collections

Sema == {SemaSeq[i] : i \in DOMAIN SemaSeq}
Sync == Channel \cup Sema
Sudog == {SudogOf[g] : g \in Goroutine}
Nil == 0

ASSUME AddressAssumption ==
  /\ MaskUnit \in Nat \ {0}
  /\ Goroutine \cup Sudog \cup Sync \subseteq 1 .. (MaskUnit - 1)
  /\ Goroutine \cap Sudog = {} /\ (Goroutine \cup Sudog) \cap Sync = {}
  /\ AllgsArray \notin Goroutine \cup Sudog \cup Sync
ASSUME SudogAssumption ==
  \A g, h \in Goroutine : SudogOf[g] = SudogOf[h] => g = h
ASSUME SyncAssumption ==
  /\ SemaSeq \in Seq(Nat) /\ Channel \cap Sema = {} /\ Globals \subseteq Sync
  /\ \A i, j \in DOMAIN SemaSeq : SemaSeq[i] = SemaSeq[j] => i = j
ASSUME ModesAssumption == Modes \subseteq {0, 1, 2}

VARIABLES
  status, stack,    \* per goroutine: atomicstatus, the objects its stack holds
  waitingOn,        \* what its sudog is queued on, or Nil
  queue,            \* per channel or semaphore: the goroutines waiting, in order
  allgs,            \* the contents of allgs
  phase,            \* gcphase: "off" or "mark"
  marked, grey,     \* the mark bits and the work queues
  stackRoots, nValidStackRoots, markrootNext, detectedDeadlocks,
  loop,             \* where gcMarkDone is, with its local indices
  freed,            \* objects in use whose memory the sweeper has freed
  doomed, reported, \* history: blocked for good at the start; reported
  mutations, cycles,
  gcdetectdeadlocks \* debug.gcdetectdeadlocks, which never changes

progVars == <<status, stack, waitingOn, queue, allgs>>
rootVars == <<stackRoots, nValidStackRoots>>
history == <<doomed, reported>>
bounds == <<mutations, cycles, gcdetectdeadlocks>>
vars == <<progVars, phase, marked, grey, rootVars, markrootNext, detectedDeadlocks, loop, freed,
          history, bounds>>

-----------------------------------------------------------------------------
(* Words.  The mask is the four highest bits of an address.                *)
Masked(w) == 15 * MaskUnit + (w % MaskUnit)
gcUnmask(w) == w % MaskUnit
IsMasked(w) == w \div MaskUnit = 15

gcMask(w) == IF gcdetectdeadlocks # 0 THEN Masked(w) ELSE w

nStackRoots == Len(stackRoots)
Root(i) == gcUnmask(stackRoots[i])
Waiting == {g \in Goroutine : status[g] = "_Gwaiting"}

-----------------------------------------------------------------------------
(* Memory.  A semaRoot reaches the first waiter of each semaphore through  *)
(* the nodes of the treap, here a chain, and the others through waitlink.  *)
\* FirstFrom(i): the first waiter of the first semaphore from place i on with one.
Busy == {i \in DOMAIN SemaSeq : queue[SemaSeq[i]] # <<>>}
FirstFrom(i) ==
  LET rest == {j \in Busy : j >= i}
  IN IF rest = {} THEN Nil
     ELSE SudogOf[Head(queue[SemaSeq[CHOOSE j \in rest : \A k \in rest : j <= k]])]
Treap == FirstFrom(1)

Place(o) == CHOOSE i \in DOMAIN SemaSeq : SemaSeq[i] = o
NextInTreap(o, g) == IF g = Head(queue[o]) THEN FirstFrom(Place(o) + 1) ELSE Nil

\* The sudog after s in a sequence of sudogs, or Nil.
After(sudogs, s) ==
  IF \E i \in 1 .. (Len(sudogs) - 1) : sudogs[i] = s
  THEN sudogs[1 + CHOOSE i \in 1 .. (Len(sudogs) - 1) : sudogs[i] = s]
  ELSE Nil

SudogsAt(o) == [i \in DOMAIN queue[o] |-> SudogOf[queue[o][i]]]

\* g: waiting; waiting_sema or waiting_notifier
WordsOfG(g) ==
  <<IF waitingOn[g] \in Channel THEN SudogOf[g] ELSE Nil,
    IF waitingOn[g] \in Sema THEN gcMask(waitingOn[g]) ELSE Nil>>

\* mutant: the semaphore is not masked in its sudogs
WordsOfSudogUnmasked(g) ==
  LET o == waitingOn[g]
      s == SudogOf[g] IN
  CASE o \in Channel -> <<g, After(SudogsAt(o), s), Nil, Nil, o>>
    [] o \in Sema    -> <<g, NextInTreap(o, g), o, After(SudogsAt(o), s), Nil>>
    [] OTHER         -> <<g>>

\* sudog: g; next; elem; waitlink; c
WordsOfSudog(g) ==
  LET o == waitingOn[g]
      s == SudogOf[g] IN
  CASE o \in Channel -> <<g, After(SudogsAt(o), s), Nil, Nil, o>>
    [] o \in Sema    -> <<g, NextInTreap(o, g), gcMask(o), After(SudogsAt(o), s), Nil>>
    [] OTHER         -> <<g>>

WordsOf(obj) ==
  CASE obj \in Goroutine  -> WordsOfG(obj)
    [] obj \in Sudog      -> WordsOfSudog(CHOOSE g \in Goroutine : SudogOf[g] = obj)
    [] obj \in Channel    -> IF queue[obj] = <<>> THEN <<>> ELSE <<SudogOf[Head(queue[obj])]>>
    [] obj = AllgsArray   -> allgs
    [] OTHER              -> <<>>

Refs(words) == {words[i] : i \in {j \in DOMAIN words : words[j] # Nil /\ ~IsMasked(words[j])}}

\* What a stack refers to: the frame that waits holds the sudog.
StackRefs(g) == stack[g] \cup IF waitingOn[g] # Nil THEN {SudogOf[g]} ELSE {}

\* scanobject: it returns at the first masked word.
ScannedRefs(words) ==
  {words[i] : i \in {j \in DOMAIN words :
     words[j] # Nil /\ \A k \in 1 .. j : ~IsMasked(words[k])}}

Shade(objs) ==
  /\ marked' = marked \cup objs
  /\ grey' = grey \cup (objs \ marked)

-----------------------------------------------------------------------------
(* The program.  Each step that stores a pointer shades the old and the    *)
(* new value of the word while a cycle marks.                              *)
Word(words, i) == IF i \in DOMAIN words THEN words[i] ELSE Nil

Changed(old, new) ==
  LET stores == {i \in DOMAIN old \cup DOMAIN new : Word(old, i) # Word(new, i)}
      values == {Word(old, i) : i \in stores} \cup {Word(new, i) : i \in stores}
  IN {w \in values : w # Nil /\ ~IsMasked(w)}

Stored ==
  LET changes == {<<WordsOf(obj), WordsOf(obj)'>> : obj \in Goroutine \cup Sudog \cup Channel}
                 \cup {<<allgs, allgs'>>, <<<<Treap>>, <<Treap'>> >>}
  IN UNION {Changed(c[1], c[2]) : c \in {d \in changes : d[1] # d[2]}}

WriteBarrier == IF phase = "mark" THEN Shade(Stored) ELSE UNCHANGED <<marked, grey>>

Running(g) == status[g] = "_Grunning"

LoadGlobal(g, o) ==
  /\ Running(g) /\ o \in Globals
  /\ stack' = [stack EXCEPT ![g] = @ \cup {o}]
  /\ UNCHANGED <<status, waitingOn, queue, allgs, freed>>

Forget(g, o) ==
  /\ Running(g) /\ o \in stack[g]
  /\ stack' = [stack EXCEPT ![g] = @ \ {o}]
  /\ UNCHANGED <<status, waitingOn, queue, allgs, freed>>

\* The sudog it waits with is a new one or comes from the cache of its P.
Park(g, o) ==
  /\ Running(g) /\ o \in stack[g]
  /\ status' = [status EXCEPT ![g] = "_Gwaiting"]
  /\ waitingOn' = [waitingOn EXCEPT ![g] = o]
  /\ queue' = [queue EXCEPT ![o] = Append(@, g)]
  /\ freed' = freed \ {SudogOf[g]}
  /\ UNCHANGED <<stack, allgs>>

\* Dequeueing and readying in one step: the window between them is GolfMark's.
Wake(g, o) ==
  /\ Running(g) /\ o \in stack[g] /\ queue[o] # <<>>
  /\ LET h == Head(queue[o]) IN
       /\ status[h] = "_Gwaiting"
       /\ status' = [status EXCEPT ![h] = "_Grunning"]
       /\ waitingOn' = [waitingOn EXCEPT ![h] = Nil]
  /\ queue' = [queue EXCEPT ![o] = Tail(@)]
  /\ UNCHANGED <<stack, allgs, freed>>

Goexit(g) ==
  /\ Running(g)
  /\ status' = [status EXCEPT ![g] = "_Gdead"]
  /\ stack' = [stack EXCEPT ![g] = {}]
  /\ UNCHANGED <<waitingOn, queue, allgs, freed>>

\* newproc1: a dead g is used again, or a new one enters allgs.
Go(g, h, args) ==
  /\ Running(g) /\ args \subseteq stack[g]
  /\ \/ status[h] = "_Gdead" /\ UNCHANGED allgs
     \/ status[h] = "_Gidle" /\ allgs' = Append(allgs, gcMask(h))
  /\ status' = [status EXCEPT ![h] = "_Grunning"]
  /\ stack' = [stack EXCEPT ![h] = args]
  /\ UNCHANGED <<waitingOn, queue, freed>>

\* A new g struct is allocated black, its closure is stored through the barrier.
Mutate(g) ==
  \/ \E o \in Sync : LoadGlobal(g, o) /\ WriteBarrier
  \/ \E o \in Sync : Forget(g, o) /\ WriteBarrier
  \/ \E o \in Sync : (Park(g, o) \/ Wake(g, o)) /\ WriteBarrier
  \/ Goexit(g) /\ WriteBarrier
  \/ \E h \in Goroutine, args \in SUBSET stack[g] :
       /\ Go(g, h, args)
       /\ IF phase = "mark"
          THEN /\ marked' = marked \cup args \cup IF status[h] = "_Gidle" THEN {h} ELSE {}
               /\ grey' = grey \cup (args \ marked)
          ELSE UNCHANGED <<marked, grey>>

\* The world is stopped while detectPartialDeadlocks runs.
Mutator ==
  /\ cycles > 0 /\ mutations < MaxMutations /\ loop.at # "detect"
  /\ mutations' = mutations + 1
  /\ UNCHANGED <<phase, rootVars, markrootNext, detectedDeadlocks, loop, history, cycles,
                 gcdetectdeadlocks>>
  /\ \E g \in Goroutine : Mutate(g)

-----------------------------------------------------------------------------
(* gcStart, world stopped.                                                 *)
LoopAt(label, v, iv, found) == [at |-> label, v |-> v, iv |-> iv, found |-> found]
Idle == LoopAt("idle", 0, 0, FALSE)
Top == LoopAt("top", 0, 0, FALSE)

\* The goroutines that nothing outside the set can ever wake.
Doomed ==
  UNION {D \in SUBSET Waiting :
           \A g \in D : waitingOn[g] \notin Globals \cup UNION {stack[h] : h \in Goroutine \ D}}

\* p lists allgs with the goroutines that are not blocked first, in order, and
\* the k+1st and later ones from the back.
SnapshotOrder(p, k) ==
  /\ \A i \in DOMAIN p : i <= k <=> status[gcUnmask(allgs[p[i]])] # "_Gwaiting"
  /\ \A i, j \in DOMAIN p : i < j => IF j <= k THEN p[i] < p[j] ELSE i > k => p[i] > p[j]

Permutations(n) == {p \in [1 .. n -> 1 .. n] : \A j \in 1 .. n : \E i \in 1 .. n : p[i] = j}

Snapshot(p, k) ==
  [i \in 1 .. Len(allgs) |-> LET gp == gcUnmask(allgs[p[i]]) IN IF i <= k THEN gp ELSE gcMask(gp)]

\* mutant: the write barrier is turned on after the snapshot
gcStartLateBarrier ==
  /\ phase = "off" /\ cycles < MaxCycles
  /\ phase' = "mark" /\ cycles' = cycles + 1
  /\ markrootNext' = 0 /\ detectedDeadlocks' = FALSE
  /\ IF gcdetectdeadlocks = 0
     THEN stackRoots' = allgs /\ nValidStackRoots' = Len(allgs)
     ELSE \E p \in Permutations(Len(allgs)), k \in 0 .. Len(allgs) :
            /\ SnapshotOrder(p, k)
            /\ stackRoots' = Snapshot(p, k) /\ nValidStackRoots' = k
  /\ marked' = {} /\ grey' = {}
  /\ doomed' = Doomed /\ reported' = {}
  /\ UNCHANGED <<progVars, loop, freed, mutations, gcdetectdeadlocks>>

\* The write barrier is on when gcMarkRootPrepare stores into the new array,
\* which itself is allocated black and never scanned.
gcStart ==
  /\ phase = "off" /\ cycles < MaxCycles
  /\ phase' = "mark" /\ cycles' = cycles + 1
  /\ markrootNext' = 0 /\ detectedDeadlocks' = FALSE
  /\ IF gcdetectdeadlocks = 0
     THEN /\ stackRoots' = allgs /\ nValidStackRoots' = Len(allgs)
          /\ marked' = {} /\ grey' = {}
     ELSE \E p \in Permutations(Len(allgs)), k \in 0 .. Len(allgs) :
            /\ SnapshotOrder(p, k)
            /\ stackRoots' = Snapshot(p, k) /\ nValidStackRoots' = k
            /\ marked' = Refs(Snapshot(p, k)) /\ grey' = Refs(Snapshot(p, k))
  /\ doomed' = Doomed /\ reported' = {}
  /\ UNCHANGED <<progVars, loop, freed, mutations, gcdetectdeadlocks>>

-----------------------------------------------------------------------------
(* Marking, concurrent with the program.  Job 0 stands for the globals.    *)
markrootJobs == 1 + nValidStackRoots
WorkAvailable == grey # {} \/ markrootNext < markrootJobs
unscanned == <<progVars, phase, rootVars, detectedDeadlocks, loop, freed, history, bounds>>

MarkGlobals ==
  /\ phase = "mark" /\ markrootNext = 0 /\ loop.at # "detect"
  /\ Shade(Globals \cup {AllgsArray} \cup Refs(<<Treap>>))
  /\ markrootNext' = 1
  /\ UNCHANGED unscanned

\* markroot takes the entry for the address of a g.  A dead one has no stack.
MarkStack ==
  /\ phase = "mark" /\ 0 < markrootNext /\ markrootNext < markrootJobs /\ loop.at # "detect"
  /\ Shade(StackRefs(stackRoots[markrootNext]))
  /\ markrootNext' = markrootNext + 1
  /\ UNCHANGED unscanned

ScanObject(obj) ==
  /\ phase = "mark" /\ obj \in grey /\ loop.at # "detect"
  /\ marked' = marked \cup ScannedRefs(WordsOf(obj))
  /\ grey' = (grey \ {obj}) \cup (ScannedRefs(WordsOf(obj)) \ marked)
  /\ UNCHANGED <<markrootNext, unscanned>>

-----------------------------------------------------------------------------
(* gcDiscoverMoreStackRoots, one stackRootValid per step, concurrent with  *)
(* the program.  Every entry it accepts is stored unmasked.                *)
StackRootValid(g) ==
  IF status[g] = "_Gwaiting" THEN {waitingOn[g] \in marked} ELSE BOOLEAN

\* Storing gp into stackRoots goes through the write barrier.
StoreRoot(gp) == Shade({gp})

notDiscover == <<progVars, phase, markrootNext, detectedDeadlocks, freed, history, bounds>>

\* The wait for markDoneSema is left out: there is no work when the loop begins,
\* but there may be while it runs.
gcMarkDone ==
  /\ phase = "mark" /\ loop.at = "idle" /\ ~WorkAvailable
  /\ loop' = IF gcdetectdeadlocks > 0
             THEN LoopAt("outer", nValidStackRoots, nStackRoots, FALSE)
             ELSE Top
  /\ UNCHANGED <<marked, grey, rootVars, notDiscover>>

DiscoverFirst ==
  /\ loop.at = "outer" /\ loop.v < loop.iv
  /\ \E valid \in StackRootValid(Root(loop.v + 1)) :
       IF valid
       THEN /\ stackRoots' = [stackRoots EXCEPT ![loop.v + 1] = Root(loop.v + 1)]
            /\ StoreRoot(Root(loop.v + 1))
            /\ loop' = LoopAt("outer", loop.v + 1, loop.iv, FALSE)
       ELSE /\ loop' = LoopAt("inner", loop.v, loop.iv, FALSE)
            /\ UNCHANGED <<stackRoots, marked, grey>>
  /\ UNCHANGED <<nValidStackRoots, notDiscover>>

\* mutant: the entries are swapped as they are
DiscoverSwapMasked ==
  /\ loop.at = "inner"
  /\ LET v == loop.v + 1
         iv == loop.iv IN
     IF iv = v
     THEN /\ loop' = LoopAt("outer", loop.v, loop.iv - 1, FALSE)
          /\ UNCHANGED <<stackRoots, marked, grey>>
     ELSE \E valid \in StackRootValid(Root(iv)) :
            IF valid
            THEN /\ stackRoots' = [stackRoots EXCEPT ![iv] = stackRoots[v], ![v] = stackRoots[iv]]
                 /\ loop' = LoopAt("outer", v, iv - 1, FALSE)
                 /\ UNCHANGED <<marked, grey>>
            ELSE /\ loop' = LoopAt("inner", loop.v, iv - 1, FALSE)
                 /\ UNCHANGED <<stackRoots, marked, grey>>
  /\ UNCHANGED <<nValidStackRoots, notDiscover>>

\* Look from the back for a valid goroutine to swap with the invalid one at v.
DiscoverSwap ==
  /\ loop.at = "inner"
  /\ LET v == loop.v + 1
         iv == loop.iv IN
     IF iv = v
     THEN /\ loop' = LoopAt("outer", loop.v, loop.iv - 1, FALSE)
          /\ UNCHANGED <<stackRoots, marked, grey>>
     ELSE \E valid \in StackRootValid(Root(iv)) :
            IF valid
            THEN /\ stackRoots' = [stackRoots EXCEPT ![iv] = stackRoots[v], ![v] = Root(iv)]
                 /\ StoreRoot(Root(iv))
                 /\ loop' = LoopAt("outer", v, iv - 1, FALSE)
            ELSE /\ loop' = LoopAt("inner", loop.v, iv - 1, FALSE)
                 /\ UNCHANGED <<stackRoots, marked, grey>>
  /\ UNCHANGED <<nValidStackRoots, notDiscover>>

DiscoverPublish ==
  /\ loop.at = "outer" /\ loop.v = loop.iv
  /\ nValidStackRoots' = loop.v
  /\ loop' = Top
  /\ UNCHANGED <<marked, grey, stackRoots, notDiscover>>

MarkDoneReturns ==
  /\ loop.at = "top" /\ (phase # "mark" \/ WorkAvailable)
  /\ loop' = Idle
  /\ UNCHANGED <<marked, grey, rootVars, notDiscover>>

\* The ragged barrier is passed if nothing was grey when it began; the program
\* and the workers run on until the world stops.
PassBarrier ==
  /\ loop.at = "top" /\ phase = "mark" /\ ~WorkAvailable
  /\ loop' = LoopAt("barrier", 0, 0, FALSE)
  /\ UNCHANGED <<marked, grey, rootVars, notDiscover>>

\* Some p.gcw holds grey objects.  Those on work.full are not looked at.
Restart ==
  /\ loop.at = "barrier" /\ grey # {}
  /\ loop' = Top
  /\ UNCHANGED <<marked, grey, rootVars, notDiscover>>

-----------------------------------------------------------------------------
(* detectPartialDeadlocks, world stopped.  First a pass over the rest of   *)
(* the entries, one per step; if it found a goroutine that can run, the    *)
(* world starts and marking resumes.                                       *)
notDetect == <<progVars, phase, markrootNext, freed, history, bounds>>

StopTheWorld ==
  /\ loop.at = "barrier" /\ ~detectedDeadlocks /\ gcdetectdeadlocks > 0
  /\ loop' = LoopAt("detect", nValidStackRoots, nStackRoots, FALSE)
  /\ UNCHANGED <<marked, grey, rootVars, detectedDeadlocks, notDetect>>

\* A goroutine that is not blocked, or blocked on a marked object, goes to the
\* end of the valid part, and the entry there takes its place.
DetectPass ==
  /\ loop.at = "detect" /\ loop.v < loop.iv
  /\ LET i == loop.v + 1
         n == nValidStackRoots + 1
         gp == Root(i) IN
     IF status[gp] = "_Gwaiting" /\ StackRootValid(gp) = {FALSE}
     THEN /\ loop' = LoopAt("detect", i, loop.iv, loop.found)
          /\ UNCHANGED <<marked, grey, rootVars>>
     ELSE /\ stackRoots' = [stackRoots EXCEPT ![i] = stackRoots[n], ![n] = gp]
          /\ nValidStackRoots' = n
          /\ StoreRoot(gp)
          /\ loop' = LoopAt("detect", i, loop.iv, TRUE)
  /\ UNCHANGED <<detectedDeadlocks, notDetect>>

DetectResume ==
  /\ loop.at = "detect" /\ loop.v = loop.iv /\ loop.found
  /\ loop' = Top
  /\ UNCHANGED <<marked, grey, rootVars, detectedDeadlocks, notDetect>>

Rest == {Root(i) : i \in (nValidStackRoots + 1) .. nStackRoots}

\* The entries of q that are not in gs, in order.
Without(q, gs) ==
  LET kept == {i \in DOMAIN q : q[i] \notin gs}
  IN [n \in 1 .. Cardinality(kept) |->
        q[CHOOSE i \in kept : Cardinality({j \in kept : j <= i}) = n]]

\* gcdetectdeadlocks=1: gcGoexit takes a goroutine off its semaphore and leaves
\* nothing of it but the g struct.
gcGoexit(gs) ==
  /\ status' = [g \in Goroutine |-> IF g \in gs THEN "_Gdead" ELSE status[g]]
  /\ stack' = [g \in Goroutine |-> IF g \in gs THEN {} ELSE stack[g]]
  /\ waitingOn' = [g \in Goroutine |-> IF g \in gs THEN Nil ELSE waitingOn[g]]
  /\ queue' = [o \in Sync |-> IF o \in Sema THEN Without(queue[o], gs) ELSE queue[o]]

\* gcdetectdeadlocks=2: it stays as it is, and its stack is scanned.
Keep(gs) ==
  /\ status' = [g \in Goroutine |-> IF g \in gs THEN "_Gdeadlocked" ELSE status[g]]
  /\ UNCHANGED <<stack, waitingOn, queue>>

\* mutant: the stacks of the kept goroutines are not scanned
DetectReportUndrained ==
  /\ loop.at = "detect" /\ loop.v = loop.iv /\ ~loop.found
  /\ UNCHANGED <<allgs, phase, freed, doomed, bounds>>
  /\ IF gcdetectdeadlocks = 1
     THEN gcGoexit(Rest) /\ Shade(Stored \cup Rest)
     ELSE Keep(Rest) /\ Shade(Rest)
  /\ stackRoots' = [i \in DOMAIN stackRoots |-> Root(i)]
  /\ nValidStackRoots' = nStackRoots
  /\ markrootNext' = 1 + nStackRoots
  /\ detectedDeadlocks' = TRUE
  /\ loop' = Top
  /\ reported' = Rest

\* It found none: the rest is reported and drained as root jobs on the spot.
DetectReport ==
  /\ loop.at = "detect" /\ loop.v = loop.iv /\ ~loop.found
  /\ UNCHANGED <<allgs, phase, freed, doomed, bounds>>
  /\ IF gcdetectdeadlocks = 1
     THEN gcGoexit(Rest) /\ Shade(Stored \cup Rest)
     ELSE Keep(Rest) /\ Shade(Rest \cup UNION {StackRefs(g) : g \in Rest})
  /\ stackRoots' = [i \in DOMAIN stackRoots |-> Root(i)]
  /\ nValidStackRoots' = nStackRoots
  /\ markrootNext' = 1 + nStackRoots
  /\ detectedDeadlocks' = TRUE
  /\ loop' = Top
  /\ reported' = Rest

\* What the runtime has a use for, whether or not marking can see it.
InUse ==
  {gcUnmask(allgs[i]) : i \in DOMAIN allgs}
  \cup {SudogOf[g] : g \in {h \in Goroutine : waitingOn[h] # Nil}}
  \cup {SudogOf[g] : g \in {h \in Goroutine : \E o \in Sema : \E i \in DOMAIN queue[o] : queue[o][i] = h}}

\* gcMarkTermination; the sweep that follows is taken with it.
MarkTermination ==
  /\ loop.at = "barrier" /\ ~WorkAvailable
  /\ detectedDeadlocks \/ gcdetectdeadlocks = 0
  /\ freed' = freed \cup (InUse \ marked)
  /\ phase' = "off" /\ loop' = Idle
  /\ marked' = {} /\ grey' = {}
  /\ stackRoots' = <<>> /\ nValidStackRoots' = 0 /\ markrootNext' = 0
  /\ UNCHANGED <<progVars, detectedDeadlocks, history, bounds>>

-----------------------------------------------------------------------------
Init ==
  /\ status \in [Goroutine -> {"_Gidle", "_Grunning"}]
  /\ \E main \in Goroutine : \A g \in Goroutine : status[g] = "_Grunning" <=> g = main
  /\ stack = [g \in Goroutine |-> {}] /\ waitingOn = [g \in Goroutine |-> Nil]
  /\ queue = [o \in Sync |-> <<>>]
  /\ gcdetectdeadlocks \in Modes
  /\ allgs = <<gcMask(CHOOSE g \in Goroutine : status[g] = "_Grunning")>>
  /\ phase = "off" /\ marked = {} /\ grey = {}
  /\ stackRoots = <<>> /\ nValidStackRoots = 0 /\ markrootNext = 0
  /\ detectedDeadlocks = FALSE /\ loop = Idle /\ freed = {}
  /\ doomed = {} /\ reported = {} /\ mutations = 0 /\ cycles = 0

Detecting == StopTheWorld \/ DetectPass \/ DetectResume \/ DetectReport

Next ==
  \/ Mutator \/ gcStart \/ MarkGlobals \/ MarkStack
  \/ \E obj \in grey : ScanObject(obj)
  \/ gcMarkDone \/ DiscoverFirst \/ DiscoverSwap \/ DiscoverPublish
  \/ MarkDoneReturns \/ PassBarrier \/ Restart
  \/ Detecting \/ MarkTermination

Spec == Init /\ [][Next]_vars

-----------------------------------------------------------------------------
(* work.stackRoots keeps the two parts apart while it is reordered, at the *)
(* same time as goroutines wake and block: what markroot takes for the     *)
(* address of a g is one, and what it must not see is masked.              *)
Partitioned ==
  LET v == IF loop.at \in {"outer", "inner"} THEN loop.v ELSE nValidStackRoots
  IN /\ \A i \in 1 .. v : stackRoots[i] \in Goroutine
     /\ \A i \in (v + 1) .. nStackRoots : IsMasked(stackRoots[i]) /\ Root(i) \in Goroutine
     /\ markrootNext - 1 <= nValidStackRoots /\ nValidStackRoots <= v

(* No g struct that allgs refers to is ever freed, though the collector    *)
(* does not follow allgs and free descriptors are in no other table: every *)
(* one of them is stored unmasked into stackRoots before the cycle ends.   *)
AllgsAlive == \A i \in DOMAIN allgs : gcUnmask(allgs[i]) \notin freed

(* The wait lists of the semaphores never contain a sudog that was freed.  *)
(* Scanning a sudog stops at the masked elem, before waitlink, so only the *)
(* first waiter is found through the table.                                *)
LinkedSudogsAlive ==
  /\ \A o \in Sema : \A i \in DOMAIN queue[o] : SudogOf[queue[o][i]] \notin freed
  /\ \A g \in Goroutine : waitingOn[g] # Nil => SudogOf[g] \notin freed

(* The runtime's own tables keep nothing alive: a goroutine that nobody    *)
(* could wake when the cycle started is reported, in spite of allgs, the   *)
(* semaphore table and the sudogs that refer to it and its semaphore.      *)
TablesHideDoomed == detectedDeadlocks => doomed \subseteq reported
=============================================================================
