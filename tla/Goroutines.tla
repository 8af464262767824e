----------------------------- MODULE Goroutines -----------------------------
(***************************************************************************)
(* The program the GOLF collector observes: goroutines that hold           *)
(* references, heap objects that refer to one another, and the channels    *)
(* and semaphores goroutines block on.                                     *)
(*                                                                         *)
(* Status names are those of runtime2.go.  "_Grunning" stands for every    *)
(* status in which a goroutine can act (runnable, running, in a system     *)
(* call); "sleeping" is _Gwaiting with a wait reason for which             *)
(* unblockingWaitReason is true, a wait the runtime itself ends.           *)
(* "_Gdeadlocked" goroutines have been reported and kept.                  *)
(***************************************************************************)
EXTENDS FiniteSets

CONSTANTS
  Goroutine,        \* goroutine descriptors (the g structs)
  Object,           \* heap objects; every one can also be blocked on
  Channel,          \* the objects that are channels, the others hold semaphores
  Nil

ASSUME ObjectsAssumption == Channel \subseteq Object /\ Nil \notin Object

VARIABLES
  status,           \* goroutine -> status
  stack,            \* goroutine -> the objects its stack refers to
  waitingOn,        \* goroutine -> objects that can wake it (gp.waiting, gp.waiting_sema)
  queue,            \* object -> the goroutines on its wait queue
  waking,           \* goroutine -> the ones it took off a queue and has not readied yet
  field,            \* object -> the object its pointer field refers to
  global,           \* the object the global variable refers to
  allocated         \* the objects that are not free

progVars == <<status, stack, waitingOn, queue, waking, field, global, allocated>>

Statuses == {"_Gidle", "_Gdead", "_Grunning", "sleeping", "_Gwaiting", "_Gdeadlocked"}

ProgramTypeOK ==
  /\ status \in [Goroutine -> Statuses]
  /\ stack \in [Goroutine -> SUBSET Object]
  /\ waitingOn \in [Goroutine -> SUBSET Object]
  /\ queue \in [Object -> SUBSET Goroutine]
  /\ waking \in [Goroutine -> SUBSET Goroutine]
  /\ field \in [Object -> Object \cup {Nil}]
  /\ global \in Object \cup {Nil}
  /\ allocated \in SUBSET Object

Refs(v) == {v} \ {Nil}
Running(g) == status[g] = "_Grunning" /\ waking[g] = {}
BeingWoken == UNION {waking[g] : g \in Goroutine}

\* M holds the global and everything its own members refer to, all of it
\* allocated: nothing outside M can be reached from inside.
Closed(M) == M \subseteq allocated /\ Refs(global) \subseteq M /\ \A o \in M : Refs(field[o]) \subseteq M

\* Everything that can be reached from objs.
Reachable(objs) ==
  {o \in Object : \A M \in SUBSET Object :
     (objs \subseteq M /\ \A p \in M : Refs(field[p]) \subseteq M) => o \in M}

Load(g, o) ==
  /\ Running(g) /\ o \in stack[g]
  /\ stack' = [stack EXCEPT ![g] = @ \cup Refs(field[o])]
  /\ UNCHANGED <<status, waitingOn, queue, waking, field, global, allocated>>

LoadGlobal(g) ==
  /\ Running(g)
  /\ stack' = [stack EXCEPT ![g] = @ \cup Refs(global)]
  /\ UNCHANGED <<status, waitingOn, queue, waking, field, global, allocated>>

Store(g, o, v) ==
  /\ Running(g) /\ o \in stack[g] /\ Refs(v) \subseteq stack[g]
  /\ field' = [field EXCEPT ![o] = v]
  /\ UNCHANGED <<status, stack, waitingOn, queue, waking, global, allocated>>

StoreGlobal(g, v) ==
  /\ Running(g) /\ Refs(v) \subseteq stack[g]
  /\ global' = v
  /\ UNCHANGED <<status, stack, waitingOn, queue, waking, field, allocated>>

Forget(g, o) ==
  /\ Running(g) /\ o \in stack[g]
  /\ stack' = [stack EXCEPT ![g] = @ \ {o}]
  /\ UNCHANGED <<status, waitingOn, queue, waking, field, global, allocated>>

\* A channel keeps its queue in its own memory, which starts out zeroed.  The
\* queue of a semaphore is found by address in a table of the runtime, so a new
\* object inherits what is still queued on its address.
New(g, o) ==
  /\ Running(g) /\ o \notin allocated
  /\ allocated' = allocated \cup {o}
  /\ field' = [field EXCEPT ![o] = Nil]
  /\ queue' = IF o \in Channel THEN [queue EXCEPT ![o] = {}] ELSE queue
  /\ stack' = [stack EXCEPT ![g] = @ \cup {o}]
  /\ UNCHANGED <<status, waitingOn, waking, global>>

(* Goroutines: newproc (a recycled or a new descriptor), goexit, gopark.   *)
Go(g, h, args) ==
  /\ Running(g) /\ args \subseteq stack[g]
  /\ status[h] \in {"_Gidle", "_Gdead"}
  /\ status' = [status EXCEPT ![h] = "_Grunning"]
  /\ stack' = [stack EXCEPT ![h] = args]
  /\ UNCHANGED <<waitingOn, queue, waking, field, global, allocated>>

Goexit(g) ==
  /\ Running(g)
  /\ status' = [status EXCEPT ![g] = "_Gdead"]
  /\ stack' = [stack EXCEPT ![g] = {}]
  /\ UNCHANGED <<waitingOn, queue, waking, field, global, allocated>>

\* Several channels: select.  None: select {} or a nil channel.  A semaphore
\* (Mutex, RWMutex, WaitGroup) or notify list (Cond) is waited for alone.
CanWaitFor(objs) == objs \subseteq Channel \/ Cardinality(objs) = 1

Park(g, objs) ==
  /\ Running(g) /\ objs \subseteq stack[g] /\ CanWaitFor(objs)
  /\ status' = [status EXCEPT ![g] = "_Gwaiting"]
  /\ waitingOn' = [waitingOn EXCEPT ![g] = objs]
  /\ queue' = [o \in Object |-> IF o \in objs THEN queue[o] \cup {g} ELSE queue[o]]
  /\ UNCHANGED <<stack, waking, field, global, allocated>>

Sleep(g) ==
  /\ Running(g)
  /\ status' = [status EXCEPT ![g] = "sleeping"]
  /\ UNCHANGED <<stack, waitingOn, queue, waking, field, global, allocated>>

WakeUp(g) ==
  /\ status[g] = "sleeping"
  /\ status' = [status EXCEPT ![g] = "_Grunning"]
  /\ UNCHANGED <<stack, waitingOn, queue, waking, field, global, allocated>>

(* Waking takes two steps.  Under the lock of o, g takes waiters off its   *)
(* queue (all of them for close and Broadcast); the losing cases of a      *)
(* select are dropped with them.  A value v may pass between the stacks of *)
(* g and of a woken h.  From here on a semaphore's address is dead in the  *)
(* frame of g (keep = FALSE); a channel stays reachable through the sudog. *)
Dequeue(g, o, hs, v, keep) ==
  /\ Running(g) /\ o \in stack[g]
  /\ hs # {} /\ hs \subseteq queue[o] /\ (Cardinality(hs) = 1 \/ hs = queue[o])
  /\ v = Nil \/ (o \in Channel /\ Cardinality(hs) = 1)
  /\ o \in Channel => keep
  /\ Refs(v) \subseteq stack[g] \cup UNION {stack[h] : h \in hs}
  /\ waking' = [waking EXCEPT ![g] = hs]
  /\ queue' = [p \in Object |-> IF \E h \in hs : p \in waitingOn[h] \cup {o}
                                THEN queue[p] \ hs ELSE queue[p]]
  /\ stack' = [k \in Goroutine |->
                 IF k = g THEN (stack[g] \cup Refs(v)) \ (IF keep THEN {} ELSE {o})
                 ELSE IF k \in hs THEN stack[k] \cup Refs(v)
                 ELSE stack[k]]
  /\ UNCHANGED <<status, waitingOn, field, global, allocated>>

(* ready: any status but _Gwaiting is the throw "bad g->status in ready".  *)
Ready(g, h) ==
  /\ status[g] = "_Grunning" /\ h \in waking[g]
  /\ status[h] = "_Gwaiting"
  /\ waking' = [waking EXCEPT ![g] = @ \ {h}]
  /\ status' = [status EXCEPT ![h] = "_Grunning"]
  /\ waitingOn' = [waitingOn EXCEPT ![h] = {}]
  /\ UNCHANGED <<stack, queue, field, global, allocated>>

(* What becomes of reported goroutines.  gcdetectdeadlocks=1: gcGoexit     *)
(* recycles the descriptors.  It takes them off the semaphore or notify    *)
(* list they wait on, but their entries on channel queues stay.            *)
\* mutant: recycled goroutines stay queued on semaphores as well
RecycleQueued(gs) ==
  /\ status' = [g \in Goroutine |-> IF g \in gs THEN "_Gdead" ELSE status[g]]
  /\ stack' = [g \in Goroutine |-> IF g \in gs THEN {} ELSE stack[g]]
  /\ waitingOn' = [g \in Goroutine |-> IF g \in gs THEN {} ELSE waitingOn[g]]
  /\ UNCHANGED <<queue, waking, field, global, allocated>>

Recycle(gs) ==
  /\ status' = [g \in Goroutine |-> IF g \in gs THEN "_Gdead" ELSE status[g]]
  /\ stack' = [g \in Goroutine |-> IF g \in gs THEN {} ELSE stack[g]]
  /\ waitingOn' = [g \in Goroutine |-> IF g \in gs THEN {} ELSE waitingOn[g]]
  /\ queue' = [o \in Object |-> IF o \in Channel THEN queue[o] ELSE queue[o] \ gs]
  /\ UNCHANGED <<waking, field, global, allocated>>

(* gcdetectdeadlocks=2: they are kept, with their stacks, for good.        *)
Keep(gs) ==
  /\ status' = [g \in Goroutine |-> IF g \in gs THEN "_Gdeadlocked" ELSE status[g]]
  /\ UNCHANGED <<stack, waitingOn, queue, waking, field, global, allocated>>

(* The sweeper frees objects.                                              *)
Free(objs) ==
  /\ allocated' = allocated \ objs
  /\ UNCHANGED <<status, stack, waitingOn, queue, waking, field, global>>

-----------------------------------------------------------------------------
(* A waker that has taken a goroutine off a queue finds it waiting; if it  *)
(* had been reported meanwhile, ready would throw "bad g->status in ready" *)
(* or revive a recycled descriptor.                                        *)
WokenIsWaiting == \A g \in BeingWoken : status[g] = "_Gwaiting"

(* gcGoexit leaves the entries of recycled goroutines on channel queues:   *)
(* no goroutine that can run may ever get hold of such a queue.            *)
NoStaleWaiters ==
  LET live == {g \in Goroutine : status[g] # "_Gdeadlocked"} IN
  \A o \in Reachable(Refs(global) \cup UNION {stack[g] : g \in live}) :
    \A g \in queue[o] : status[g] = "_Gwaiting" /\ o \in waitingOn[g]

(* Nothing a goroutine can reach, not even a kept deadlocked one, has been *)
(* freed, although blocked goroutines are not roots when marking starts.   *)
NoDangling ==
  Reachable(Refs(global) \cup UNION {stack[g] : g \in Goroutine}) \subseteq allocated
=============================================================================
