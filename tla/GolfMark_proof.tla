---------------------------- MODULE GolfMark_proof ----------------------------
(***************************************************************************)
(* The contract of PartialDeadlock is safe and the collector keeps it, its *)
(* detection complete, for every number of goroutines, objects, steps of   *)
(* the program and collections.                                            *)
(*                                                                         *)
(* First the contract alone: ContractInv says that a certificate that      *)
(* justified a report, or a sweep, is never invalidated by what the        *)
(* program does afterwards.  Then the collector, in three layers: TypeInv, *)
(* where indices and root jobs are; SafeInv, with the tricolour invariant  *)
(* that makes the mark bits a certificate once marking runs out of work,   *)
(* so that every step is one the contract allows; and DoomInv, that        *)
(* marking stays away from the goroutines nobody could wake when it        *)
(* started.                                                                *)
(***************************************************************************)
EXTENDS GolfMark, TLAPS

-----------------------------------------------------------------------------
(* M separates the goroutines that may run from the reported ones: it has  *)
(* everything the former can reach, and whoever is queued on an object of  *)
(* M is properly waiting there and not about to be woken already.          *)
Separates(M) ==
  /\ Closed(M)
  /\ \A g \in Goroutine : status[g] # "_Gdeadlocked" => stack[g] \subseteq M
  /\ \A o \in M : \A g \in queue[o] :
       status[g] = "_Gwaiting" /\ o \in waitingOn[g] /\ g \notin BeingWoken

(* M covers everything any goroutine, kept ones included, can reach.       *)
Covers(M) == Closed(M) /\ \A g \in Goroutine : stack[g] \subseteq M

(* A goroutine is taken off its queues by one waker only, and only a       *)
(* running goroutine is a waker.                                           *)
OneWaker ==
  /\ \A g, h \in Goroutine : g # h => waking[g] \cap waking[h] = {}
  /\ \A g \in Goroutine : waking[g] # {} => status[g] = "_Grunning"

(* Only a goroutine that is blocked, on something it refers to, is queued  *)
(* on the address of a semaphore.  Hence a semaphore that is freed leaves  *)
(* nobody behind for the next object at its address to inherit.            *)
SemaQueues ==
  /\ \A g \in Goroutine :
       waitingOn[g] # {} => status[g] \in {"_Gwaiting", "_Gdeadlocked"} /\ waitingOn[g] \subseteq stack[g]
  /\ \A o \in Object \ Channel : \A g \in queue[o] : o \in waitingOn[g] /\ g \notin BeingWoken

ContractInv ==
  /\ ProgramTypeOK
  /\ WokenIsWaiting
  /\ OneWaker
  /\ SemaQueues
  /\ \E M \in SUBSET Object : Separates(M)
  /\ \E M \in SUBSET Object : Covers(M)

-----------------------------------------------------------------------------
LEMMA RefsNil == Refs(Nil) = {}
  BY DEF Refs

LEMMA RefsObject == \A v \in Object : Refs(v) = {v}
  BY ObjectsAssumption DEF Refs

(* The initial states: everything allocated separates and covers.          *)
LEMMA InitContractInv == ContractInit => ContractInv
<1> SUFFICES ASSUME ContractInit
             PROVE  ContractInv
  OBVIOUS
<1> USE DEF ContractInit, ProgramTypeOK
<1>1. BeingWoken = {}
  BY DEF BeingWoken
<1>2. \A g \in Goroutine : stack[g] \subseteq allocated
  OBVIOUS
<1>3. Separates(allocated)
  <2>1. \A o \in allocated : \A g \in queue[o] : o \in waitingOn[g] /\ g \in Goroutine
    OBVIOUS
  <2>2. \A g \in Goroutine : waitingOn[g] # {} => status[g] = "_Gwaiting"
    OBVIOUS
  <2> QED
    BY <1>1, <1>2, <2>1, <2>2 DEF Separates
<1>4. Covers(allocated)
  BY <1>2 DEF Covers
<1>5. WokenIsWaiting /\ OneWaker
  BY <1>1 DEF WokenIsWaiting, OneWaker
<1>6. SemaQueues
  BY <1>1 DEF SemaQueues
<1> QED
  BY <1>3, <1>4, <1>5, <1>6 DEF ContractInv

(* Steps that touch no queue and no status keep the separation as long as  *)
(* the references they create stay inside M.                               *)
LEMMA References ==
  ASSUME ContractInv, UNCHANGED <<status, waitingOn, queue, waking, allocated>>,
         ProgramTypeOK',
         \A M \in SUBSET Object : Closed(M) /\ Separates(M) =>
           Closed(M)' /\ \A g \in Goroutine : status[g] # "_Gdeadlocked" => stack'[g] \subseteq M,
         \A M \in SUBSET Object : Covers(M) => Covers(M)',
         \A g \in Goroutine : waitingOn[g] # {} => stack[g] \subseteq stack'[g]
  PROVE  ContractInv'
<1>1. BeingWoken' = BeingWoken
  BY DEF BeingWoken
<1>2. WokenIsWaiting' /\ OneWaker'
  BY <1>1 DEF ContractInv, WokenIsWaiting, OneWaker
<1>3. PICK M \in SUBSET Object : Separates(M)
  BY DEF ContractInv
<1>4. Separates(M)'
  BY <1>1, <1>3 DEF Separates
<1>5. PICK N \in SUBSET Object : Covers(N)
  BY DEF ContractInv
<1>6. SemaQueues'
  BY <1>1 DEF ContractInv, SemaQueues
<1> QED
  BY <1>2, <1>4, <1>5, <1>6 DEF ContractInv

LEMMA MemoryContractInv ==
  ASSUME ContractInv, NEW g \in Goroutine, NEW o \in Object, NEW v \in Object \cup {Nil},
         Load(g, o) \/ Forget(g, o) \/ Store(g, o, v)
  PROVE  ContractInv'
<1> USE DEF ContractInv, ProgramTypeOK
<1>1. Refs(v) \subseteq Object /\ Refs(field[o]) \subseteq Object
  BY RefsNil, RefsObject
<1>2. CASE Load(g, o)
  <2>1. ProgramTypeOK'
    BY <1>1, <1>2 DEF Load
  <2>2. \A M : Closed(M) => Closed(M)'
    BY <1>2 DEF Load, Closed
  <2>3. \A M : Closed(M) /\ o \in M => Refs(field[o]) \subseteq M
    BY DEF Closed
  <2> QED
    BY <1>2, <2>1, <2>2, <2>3, References DEF Load, Running, Separates, Covers, SemaQueues
<1>4. CASE Forget(g, o)
  <2>1. ProgramTypeOK'
    BY <1>4 DEF Forget
  <2>2. \A M : Closed(M) => Closed(M)'
    BY <1>4 DEF Forget, Closed
  <2> QED
    BY <1>4, <2>1, <2>2, References DEF Forget, Running, Separates, Covers, SemaQueues
<1>5. CASE Store(g, o, v)
  <2>1. ProgramTypeOK'
    BY <1>5 DEF Store
  <2>2. \A M : Closed(M) /\ Refs(v) \subseteq M => Closed(M)'
    BY <1>5 DEF Store, Closed
  <2> QED
    BY <1>5, <2>1, <2>2, References DEF Store, Running, Separates, Covers, SemaQueues
<1> QED
  BY <1>2, <1>4, <1>5

LEMMA GlobalContractInv ==
  ASSUME ContractInv, NEW g \in Goroutine, NEW v \in Object \cup {Nil},
         LoadGlobal(g) \/ StoreGlobal(g, v)
  PROVE  ContractInv'
<1> USE DEF ContractInv, ProgramTypeOK
<1>1. Refs(v) \subseteq Object /\ Refs(global) \subseteq Object
  BY RefsNil, RefsObject
<1>2. CASE LoadGlobal(g)
  <2>1. ProgramTypeOK'
    BY <1>1, <1>2 DEF LoadGlobal
  <2>2. \A M : Closed(M) => Closed(M)' /\ Refs(global) \subseteq M
    BY <1>2 DEF LoadGlobal, Closed
  <2> QED
    BY <1>2, <2>1, <2>2, References DEF LoadGlobal, Running, Separates, Covers, SemaQueues
<1>3. CASE StoreGlobal(g, v)
  <2>1. ProgramTypeOK'
    BY <1>3 DEF StoreGlobal
  <2>2. \A M : Closed(M) /\ Refs(v) \subseteq M => Closed(M)'
    BY <1>3 DEF StoreGlobal, Closed
  <2> QED
    BY <1>3, <2>1, <2>2, References DEF StoreGlobal, Running, Separates, Covers, SemaQueues
<1> QED
  BY <1>2, <1>3

LEMMA NewContractInv ==
  ASSUME ContractInv, NEW g \in Goroutine, NEW o \in Object, New(g, o)
  PROVE  ContractInv'
<1> USE DEF ContractInv, ProgramTypeOK, New
<1>1. ProgramTypeOK'
  OBVIOUS
<1>2. BeingWoken' = BeingWoken
  BY DEF BeingWoken
<1>3. WokenIsWaiting' /\ OneWaker'
  BY <1>2 DEF WokenIsWaiting, OneWaker
<1>4. ASSUME NEW M \in SUBSET Object, Closed(M)
      PROVE  Closed(M \cup {o})'
  BY <1>4, RefsNil DEF Closed
<1>5. PICK M \in SUBSET Object : Separates(M)
  OBVIOUS
<1>6. PICK N \in SUBSET Object : Covers(N)
  OBVIOUS
<1>7. queue'[o] = {}
  <2>1. CASE o \in Channel
    BY <2>1
  <2>2. CASE o \notin Channel
    <3>1. \A k \in Goroutine : o \notin waitingOn[k]
      BY <1>6 DEF SemaQueues, Covers, Closed
    <3> QED
      BY <2>2, <3>1 DEF SemaQueues
  <2> QED
    BY <2>1, <2>2
<1>8. \A p \in M : p # o => queue'[p] = queue[p]
  OBVIOUS
<1>9. Separates(M \cup {o})'
  BY <1>2, <1>4, <1>5, <1>7, <1>8 DEF Separates
<1>10. Covers(N \cup {o})'
  BY <1>4, <1>6 DEF Covers
<1>11. SemaQueues'
  BY <1>2 DEF SemaQueues, Running
<1> QED
  BY <1>1, <1>3, <1>9, <1>10, <1>11

(* Steps that change the status of one goroutine, not waiting before or    *)
(* after, and leave queues alone.                                          *)
LEMMA StatusContractInv ==
  ASSUME ContractInv, NEW g \in Goroutine, NEW h \in Goroutine, NEW args \in SUBSET Object,
         Go(g, h, args) \/ Goexit(g) \/ Sleep(g) \/ WakeUp(g)
  PROVE  ContractInv'
<1> USE DEF ContractInv, ProgramTypeOK, Statuses, Running, Go, Goexit, Sleep, WakeUp
<1>1. ProgramTypeOK'
  OBVIOUS
<1>2. BeingWoken' = BeingWoken
  BY DEF BeingWoken
<1>3. \A k \in Goroutine : status[k] \in {"_Gwaiting", "_Gdeadlocked"} => status'[k] = status[k]
  OBVIOUS
<1>4. \A k \in Goroutine : status'[k] = "_Gdeadlocked" => status[k] = "_Gdeadlocked"
  OBVIOUS
<1>5. \A M \in SUBSET Object :
        args \subseteq stack[g] /\ stack[g] \subseteq M => args \subseteq M
  OBVIOUS
<1>6. WokenIsWaiting'
  BY <1>2, <1>3 DEF WokenIsWaiting, BeingWoken
<1>7. OneWaker'
  BY DEF OneWaker
<1>8. \A M \in SUBSET Object : Closed(M) => Closed(M)'
  BY DEF Closed
<1>9. PICK M \in SUBSET Object : Separates(M)
  OBVIOUS
<1>10. \A k \in Goroutine : status'[k] # "_Gdeadlocked" => stack'[k] \subseteq M
  BY <1>4, <1>9 DEF Separates
<1>11. Separates(M)'
  BY <1>2, <1>3, <1>8, <1>9, <1>10 DEF Separates
<1>12. PICK N \in SUBSET Object : Covers(N)
  OBVIOUS
<1>13. Covers(N)'
  BY <1>8, <1>12 DEF Covers
<1>14. SemaQueues'
  BY <1>2, <1>3 DEF SemaQueues
<1> QED
  BY <1>1, <1>6, <1>7, <1>11, <1>13, <1>14

LEMMA ParkContractInv ==
  ASSUME ContractInv, NEW g \in Goroutine, NEW objs \in SUBSET Object, Park(g, objs)
  PROVE  ContractInv'
<1> USE DEF ContractInv, ProgramTypeOK, Statuses, Running, Park
<1>1. ProgramTypeOK'
  OBVIOUS
<1>2. BeingWoken' = BeingWoken /\ g \notin BeingWoken
  BY DEF BeingWoken, WokenIsWaiting
<1>3. WokenIsWaiting'
  BY <1>2 DEF WokenIsWaiting, BeingWoken
<1>4. OneWaker'
  BY DEF OneWaker
<1>5. \A M \in SUBSET Object : Closed(M) => Closed(M)'
  BY DEF Closed
<1>6. PICK M \in SUBSET Object : Separates(M)
  OBVIOUS
<1>7. \A o \in M : g \notin queue[o]
  BY <1>6 DEF Separates
<1>8. Separates(M)'
  BY <1>2, <1>5, <1>6, <1>7 DEF Separates
<1>9. PICK N \in SUBSET Object : Covers(N)
  OBVIOUS
<1>10. Covers(N)'
  BY <1>5, <1>9 DEF Covers
<1>11. SemaQueues'
  BY <1>2 DEF SemaQueues
<1> QED
  BY <1>1, <1>3, <1>4, <1>8, <1>10, <1>11

LEMMA DequeueContractInv ==
  ASSUME ContractInv, NEW g \in Goroutine, NEW o \in Object, NEW hs \in SUBSET Goroutine,
         NEW v \in Object \cup {Nil}, NEW keep \in BOOLEAN, Dequeue(g, o, hs, v, keep)
  PROVE  ContractInv'
<1> USE DEF ContractInv, ProgramTypeOK, Statuses, Running
<1>1. Refs(v) \subseteq Object
  BY RefsNil, RefsObject
<1>2. PICK M \in SUBSET Object : Separates(M)
  OBVIOUS
<1>3. o \in M /\ \A h \in hs : status[h] = "_Gwaiting" /\ h \notin BeingWoken
  BY <1>2 DEF Separates, Dequeue
<1>4. ProgramTypeOK'
  BY <1>1 DEF Dequeue
<1>5. BeingWoken' = BeingWoken \cup hs
  BY DEF BeingWoken, Dequeue
<1>6. WokenIsWaiting'
  BY <1>3, <1>5 DEF WokenIsWaiting, Dequeue
<1>7. OneWaker'
  BY <1>3 DEF OneWaker, Dequeue, BeingWoken
<1>8. \A L \in SUBSET Object : Closed(L) => Closed(L)'
  BY DEF Closed, Dequeue
<1>9. \A L \in SUBSET Object :
        (\A h \in hs \cup {g} : stack[h] \subseteq L) => Refs(v) \subseteq L
  BY DEF Dequeue
<1>10. Refs(v) \subseteq M
  BY <1>2, <1>3, <1>9 DEF Separates, Dequeue
<1>11. \A k \in Goroutine : status'[k] # "_Gdeadlocked" => stack'[k] \subseteq M
  BY <1>2, <1>10 DEF Separates, Dequeue
<1>12. ASSUME NEW p \in M, NEW k \in queue'[p]
       PROVE  status'[k] = "_Gwaiting" /\ p \in waitingOn'[k] /\ k \notin BeingWoken'
  <2>1. k \in queue[p]
    BY DEF Dequeue
  <2>2. p \in waitingOn[k] /\ status[k] = "_Gwaiting" /\ k \notin BeingWoken
    BY <1>2, <2>1 DEF Separates
  <2>3. k \notin hs
    BY <2>2 DEF Dequeue
  <2> QED
    BY <1>5, <2>2, <2>3 DEF Dequeue
<1>13. Separates(M)'
  BY <1>2, <1>8, <1>11, <1>12 DEF Separates
<1>14. PICK N \in SUBSET Object : Covers(N)
  OBVIOUS
<1>15. Covers(N)'
  BY <1>8, <1>9, <1>14 DEF Covers, Dequeue
<1>16. ASSUME NEW p \in Object \ Channel, NEW k \in queue'[p]
       PROVE  p \in waitingOn'[k] /\ k \notin BeingWoken'
  <2>1. k \in queue[p]
    BY DEF Dequeue
  <2>2. p \in waitingOn[k] /\ k \notin BeingWoken
    BY <2>1 DEF SemaQueues
  <2>3. k \notin hs
    BY <2>2 DEF Dequeue
  <2> QED
    BY <1>5, <2>2, <2>3 DEF Dequeue
<1>17. \A k \in Goroutine : waitingOn[k] # {} => stack[k] \subseteq stack'[k]
  BY DEF Dequeue, SemaQueues
<1>18. SemaQueues'
  BY <1>16, <1>17 DEF SemaQueues, Dequeue
<1> QED
  BY <1>4, <1>6, <1>7, <1>13, <1>15, <1>18

LEMMA ReadyContractInv ==
  ASSUME ContractInv, NEW g \in Goroutine, NEW h \in Goroutine, Ready(g, h)
  PROVE  ContractInv'
<1> USE DEF ContractInv, ProgramTypeOK, Statuses, Ready
<1>1. ProgramTypeOK'
  OBVIOUS
<1>2. h \in BeingWoken
  BY DEF BeingWoken
<1>3. BeingWoken' = BeingWoken \ {h}
  BY DEF BeingWoken, OneWaker
<1>4. WokenIsWaiting'
  BY <1>3 DEF WokenIsWaiting, BeingWoken
<1>5. OneWaker'
  BY DEF OneWaker
<1>6. \A L \in SUBSET Object : Closed(L) => Closed(L)'
  BY DEF Closed
<1>7. PICK M \in SUBSET Object : Separates(M)
  OBVIOUS
<1>8. Separates(M)'
  BY <1>2, <1>3, <1>6, <1>7 DEF Separates
<1>9. PICK N \in SUBSET Object : Covers(N)
  OBVIOUS
<1>10. Covers(N)'
  BY <1>6, <1>9 DEF Covers
<1>11. SemaQueues'
  BY <1>2, <1>3 DEF SemaQueues
<1> QED
  BY <1>1, <1>4, <1>5, <1>8, <1>10, <1>11

(* A report: what separates now and what certified the report intersect in *)
(* a set that separates afterwards.                                        *)
LEMMA ReportContractInv ==
  ASSUME ContractInv, NEW D \in SUBSET Goroutine, Report(D)
  PROVE  ContractInv'
<1> USE DEF ContractInv, ProgramTypeOK, Statuses, Recycle, Keep, Report
<1>1. ProgramTypeOK'
  OBVIOUS
<1>2. BeingWoken' = BeingWoken /\ D \cap BeingWoken = {}
  BY DEF BeingWoken
<1>3. \A g \in Goroutine \ D : status'[g] = status[g] /\ stack'[g] = stack[g]
                               /\ waitingOn'[g] = waitingOn[g]
  OBVIOUS
<1>4. WokenIsWaiting'
  BY <1>2, <1>3 DEF WokenIsWaiting, BeingWoken
<1>5. OneWaker'
  BY DEF OneWaker
<1>6. PICK M \in SUBSET Object : Separates(M)
  OBVIOUS
<1>7. PICK C \in SUBSET Object : Certifies(C, D)
  OBVIOUS
<1>8. Closed(M \cap C)'
  BY <1>6, <1>7 DEF Separates, Certifies, Closed
<1>9. \A g \in Goroutine : status'[g] # "_Gdeadlocked" => stack'[g] \subseteq M \cap C
  BY <1>6, <1>7 DEF Separates, Certifies
<1>10. ASSUME NEW o \in M \cap C, NEW g \in queue'[o]
       PROVE  status'[g] = "_Gwaiting" /\ o \in waitingOn'[g] /\ g \notin BeingWoken'
  <2>1. g \in queue[o] /\ g \in Goroutine
    OBVIOUS
  <2>2. status[g] = "_Gwaiting" /\ o \in waitingOn[g] /\ g \notin BeingWoken
    BY <1>6, <2>1 DEF Separates
  <2>3. g \notin D
    BY <1>7, <2>1, <2>2 DEF Certifies
  <2> QED
    BY <1>2, <1>3, <2>1, <2>2, <2>3
<1>11. Separates(M \cap C)'
  BY <1>8, <1>9, <1>10 DEF Separates
<1>12. PICK N \in SUBSET Object : Covers(N)
  OBVIOUS
<1>13. Covers(N)'
  BY <1>12 DEF Covers, Closed
<1>14. SemaQueues'
  BY <1>2, <1>3 DEF SemaQueues
<1> QED
  BY <1>1, <1>4, <1>5, <1>11, <1>13, <1>14

(* A sweep, by the same argument.                                          *)
LEMMA FreeContractInv ==
  ASSUME ContractInv, NEW objs \in SUBSET Object, FreeGarbage(objs)
  PROVE  ContractInv'
<1> USE DEF ContractInv, ProgramTypeOK, FreeGarbage, Free
<1>1. ProgramTypeOK' /\ BeingWoken' = BeingWoken
  BY DEF BeingWoken
<1>2. WokenIsWaiting' /\ OneWaker'
  BY <1>1 DEF WokenIsWaiting, OneWaker
<1>3. PICK C \in SUBSET Object :
        Closed(C) /\ C \cap objs = {} /\ \A g \in Goroutine : stack[g] \subseteq C
  OBVIOUS
<1>4. Covers(C)'
  BY <1>3 DEF Covers, Closed
<1>5. PICK M \in SUBSET Object : Separates(M)
  OBVIOUS
<1>6. Separates(M \cap C)'
  BY <1>1, <1>3, <1>5 DEF Separates, Closed
<1>7. SemaQueues'
  BY <1>1 DEF SemaQueues
<1> QED
  BY <1>1, <1>2, <1>4, <1>6, <1>7

LEMMA NextContractInv == ContractInv /\ [ContractNext]_progVars => ContractInv'
<1> SUFFICES ASSUME ContractInv, [ContractNext]_progVars
             PROVE  ContractInv'
  OBVIOUS
<1>1. CASE Program
  <2> SUFFICES ASSUME NEW g \in Goroutine,
                      \/ \E o \in Object : Load(g, o) \/ Forget(g, o) \/ New(g, o)
                      \/ LoadGlobal(g)
                      \/ \E o \in Object, v \in Object \cup {Nil} : Store(g, o, v)
                      \/ \E v \in Object \cup {Nil} : StoreGlobal(g, v)
                      \/ \E h \in Goroutine, args \in SUBSET Object : Go(g, h, args)
                      \/ Goexit(g)
                      \/ \E objs \in SUBSET Object : Park(g, objs)
                      \/ Sleep(g)
                      \/ WakeUp(g)
                      \/ \E o \in Object, hs \in SUBSET Goroutine, v \in Object \cup {Nil},
                            keep \in BOOLEAN : Dequeue(g, o, hs, v, keep)
                      \/ \E h \in Goroutine : Ready(g, h)
               PROVE  ContractInv'
    BY <1>1 DEF Program
  <2>1. CASE \E o \in Object : Load(g, o) \/ Forget(g, o) \/ New(g, o)
    BY <2>1, MemoryContractInv, NewContractInv
  <2>2. CASE \E o \in Object, v \in Object \cup {Nil} : Store(g, o, v)
    BY <2>2, MemoryContractInv
  <2>3. CASE LoadGlobal(g) \/ \E v \in Object \cup {Nil} : StoreGlobal(g, v)
    BY <2>3, GlobalContractInv
  <2>4. CASE \E h \in Goroutine, args \in SUBSET Object : Go(g, h, args)
    BY <2>4, StatusContractInv
  <2>5. CASE Goexit(g) \/ Sleep(g) \/ WakeUp(g)
    BY <2>5, StatusContractInv
  <2>6. CASE \E objs \in SUBSET Object : Park(g, objs)
    BY <2>6, ParkContractInv
  <2>7. CASE \E o \in Object, hs \in SUBSET Goroutine, v \in Object \cup {Nil},
               keep \in BOOLEAN : Dequeue(g, o, hs, v, keep)
    BY <2>7, DequeueContractInv
  <2>8. CASE \E h \in Goroutine : Ready(g, h)
    BY <2>8, ReadyContractInv
  <2> QED
    BY <2>1, <2>2, <2>3, <2>4, <2>5, <2>6, <2>7, <2>8
<1>2. CASE \E D \in SUBSET Goroutine : Report(D)
  BY <1>2, ReportContractInv
<1>3. CASE \E objs \in SUBSET Object : FreeGarbage(objs)
  BY <1>3, FreeContractInv
<1>4. CASE UNCHANGED progVars
  <2> USE <1>4 DEF progVars
  <2>1. ProgramTypeOK'
    BY DEF ContractInv, ProgramTypeOK
  <2>2. \A M \in SUBSET Object : Closed(M) => Closed(M)'
    BY DEF Closed
  <2> QED
    BY <2>1, <2>2, References DEF Separates, Covers, SemaQueues
<1> QED
  BY <1>1, <1>2, <1>3, <1>4 DEF ContractNext

LEMMA ContractInductive == Contract => []ContractInv
  BY InitContractInv, NextContractInv, PTL DEF Contract

-----------------------------------------------------------------------------
(* Whatever the program does after a report, a goroutine that is taken off *)
(* a queue is waiting: reported goroutines are never woken.                *)
THEOREM ReportedNeverWoken == Contract => []WokenIsWaiting
<1>1. ContractInv => WokenIsWaiting
  BY DEF ContractInv
<1> QED
  BY ContractInductive, <1>1, PTL

LEMMA SeparationHides == ContractInv => NoStaleWaiters
<1> SUFFICES ASSUME ContractInv
             PROVE  NoStaleWaiters
  OBVIOUS
<1>1. PICK M \in SUBSET Object : Separates(M)
  BY DEF ContractInv
<1> DEFINE live == {g \in Goroutine : status[g] # "_Gdeadlocked"}
           roots == Refs(global) \cup UNION {stack[g] : g \in live}
<1>2. roots \subseteq M
  BY <1>1 DEF Separates, Closed
<1>3. \A p \in M : Refs(field[p]) \subseteq M
  BY <1>1 DEF Separates, Closed
<1> HIDE DEF roots
<1>4. Reachable(roots) \subseteq M
  BY <1>2, <1>3 DEF Reachable
<1> QED
  BY <1>1, <1>4 DEF NoStaleWaiters, Separates, roots

(* No goroutine that can run ever gets hold of a queue with an entry left  *)
(* by a recycled goroutine.                                                *)
THEOREM StaleWaitersUnreachable == Contract => []NoStaleWaiters
  BY ContractInductive, SeparationHides, PTL

(* No object that any goroutine can reach is ever freed.                   *)
THEOREM NothingDangles == Contract => []NoDangling
<1>1. ContractInv => NoDangling
  <2> SUFFICES ASSUME ContractInv
               PROVE  NoDangling
    OBVIOUS
  <2>1. PICK M \in SUBSET Object : Covers(M)
    BY DEF ContractInv
  <2> DEFINE roots == Refs(global) \cup UNION {stack[g] : g \in Goroutine}
  <2>2. roots \subseteq M /\ M \subseteq allocated
    BY <2>1 DEF Covers, Closed
  <2>3. \A p \in M : Refs(field[p]) \subseteq M
    BY <2>1 DEF Covers, Closed
  <2> HIDE DEF roots
  <2>4. Reachable(roots) \subseteq M
    BY <2>2, <2>3 DEF Reachable
  <2> QED
    BY <2>2, <2>4 DEF NoDangling, roots
<1> QED
  BY ContractInductive, <1>1, PTL
-----------------------------------------------------------------------------
(* The program's steps are steps of the contract's program.                *)
LEMMA MutatorProgram ==
  ASSUME ProgramTypeOK, Mutator
  PROVE  Program
<1>1. \A g \in Goroutine : stack[g] \subseteq Object
  BY DEF ProgramTypeOK
<1>2. \A o \in Object : queue[o] \subseteq Goroutine
  BY DEF ProgramTypeOK
<1>3. CASE \E g \in Goroutine : Mutate(g)
  <2> PICK g \in Goroutine : Mutate(g)
    BY <1>3
  <2>1. CASE \E o \in Object : Load(g, o) \/ Forget(g, o) \/ New(g, o)
    BY <2>1 DEF Program
  <2>2. CASE LoadGlobal(g) \/ Goexit(g) \/ Sleep(g)
    BY <2>2 DEF Program
  <2>3. CASE \E o \in Object, v \in Object \cup {Nil} : Store(g, o, v)
    BY <2>3 DEF Program
  <2>4. CASE \E v \in Object \cup {Nil} : StoreGlobal(g, v)
    BY <2>4 DEF Program
  <2>5. CASE \E h \in Goroutine, args \in SUBSET stack[g] : Go(g, h, args)
    <3>1. PICK h \in Goroutine, args \in SUBSET stack[g] : Go(g, h, args)
      BY <2>5
    <3>2. args \in SUBSET Object
      BY <1>1
    <3> QED
      BY <3>1, <3>2 DEF Program
  <2>6. CASE \E objs \in SUBSET stack[g] : Park(g, objs)
    <3>1. PICK objs \in SUBSET stack[g] : Park(g, objs)
      BY <2>6
    <3>2. objs \in SUBSET Object
      BY <1>1
    <3> QED
      BY <3>1, <3>2 DEF Program
  <2>7. CASE \E o \in stack[g] : \E hs \in SUBSET queue[o], v \in Object \cup {Nil}, keep \in BOOLEAN :
               Dequeue(g, o, hs, v, keep)
    <3>1. PICK o \in stack[g] : \E hs \in SUBSET queue[o], v \in Object \cup {Nil},
                                    keep \in BOOLEAN : Dequeue(g, o, hs, v, keep)
      BY <2>7
    <3>2. PICK hs \in SUBSET queue[o], v \in Object \cup {Nil}, keep \in BOOLEAN :
            Dequeue(g, o, hs, v, keep)
      BY <3>1
    <3>3. o \in Object /\ hs \in SUBSET Goroutine
      BY <1>1, <1>2
    <3> QED
      BY <3>2, <3>3 DEF Program
  <2> QED
    BY <2>1, <2>2, <2>3, <2>4, <2>5, <2>6, <2>7 DEF Mutate
<1>4. CASE \E g \in Goroutine : WakeUp(g) \/ \E h \in Goroutine : Ready(g, h)
  BY <1>4 DEF Program
<1> QED
  BY <1>3, <1>4 DEF Mutator

-----------------------------------------------------------------------------
(* The indices of gcMarkDone and of the root jobs stay in place, and every *)
(* stack root job that was claimed has been scanned.                       *)
Scanning == markDone.at \in {"outer", "inner"}

Indices ==
  /\ phase = "off" => markDone = Idle
  /\ markDone.at \in {"barrier", "stopped"} => markrootNext = markrootJobs
  /\ markDone.at = "stopped" => detectedDeadlocks
  /\ Scanning => nValidStackRoots <= markDone.v /\ markDone.v <= markDone.iv
  /\ markDone.at = "inner" => markDone.v < markDone.iv
  /\ phase = "mark" /\ detectedDeadlocks => nValidStackRoots = nStackRoots

ScannedSoFar == \A i \in DOMAIN stackRoots : i < markrootNext => stackRoots[i] \in gcscandone

TypeInv == TypeOK /\ Indices /\ ScannedSoFar

LEMMA RefsType == \A v \in Object \cup {Nil} : Refs(v) \subseteq Object
  BY RefsNil, RefsObject

LEMMA MutatorProgramTypeOK ==
  ASSUME ProgramTypeOK, Mutator
  PROVE  ProgramTypeOK'
<1> USE DEF ProgramTypeOK, Statuses
<1>1. CASE \E g \in Goroutine : Mutate(g)
  <2> PICK g \in Goroutine : Mutate(g)
    BY <1>1
  <2>1. ASSUME NEW o \in Object, Load(g, o) \/ Forget(g, o) \/ New(g, o)
        PROVE  ProgramTypeOK'
    BY <2>1, RefsType DEF Load, Forget, New
  <2>2. CASE LoadGlobal(g)
    BY <2>2, RefsType DEF LoadGlobal
  <2>3. CASE Goexit(g) \/ Sleep(g)
    BY <2>3 DEF Goexit, Sleep
  <2>4. ASSUME NEW o \in Object, NEW v \in Object \cup {Nil}, Store(g, o, v)
        PROVE  ProgramTypeOK'
    BY <2>4 DEF Store
  <2>5. ASSUME NEW h \in Goroutine, NEW args \in SUBSET stack[g], Go(g, h, args)
        PROVE  ProgramTypeOK'
    BY <2>5 DEF Go
  <2>6. ASSUME NEW objs \in SUBSET stack[g], Park(g, objs)
        PROVE  ProgramTypeOK'
    BY <2>6 DEF Park
  <2>7. ASSUME NEW o \in stack[g], NEW hs \in SUBSET queue[o], NEW v \in Object \cup {Nil},
               NEW keep \in BOOLEAN, Dequeue(g, o, hs, v, keep)
        PROVE  ProgramTypeOK'
    <3>1. Refs(v) \subseteq Object /\ hs \subseteq Goroutine
      BY RefsType
    <3> QED
      BY <2>7, <3>1 DEF Dequeue
  <2> HIDE DEF ProgramTypeOK
  <2>8. CASE \E o \in Object : Load(g, o) \/ Forget(g, o) \/ New(g, o)
    BY <2>1, <2>8
  <2>9. CASE \E o \in Object, v \in Object \cup {Nil} : Store(g, o, v)
    BY <2>4, <2>9
  <2>10. CASE \E v \in Object \cup {Nil} : StoreGlobal(g, v)
    BY <2>10 DEF StoreGlobal, ProgramTypeOK
  <2>11. CASE \E o \in stack[g] : \E hs \in SUBSET queue[o], v \in Object \cup {Nil},
                                keep \in BOOLEAN : Dequeue(g, o, hs, v, keep)
    BY <2>7, <2>11
  <2> QED
    BY <2>2, <2>3, <2>5, <2>6, <2>8, <2>9, <2>10, <2>11 DEF Mutate
<1>2. CASE \E g \in Goroutine : WakeUp(g) \/ \E h \in Goroutine : Ready(g, h)
  BY <1>2 DEF WakeUp, Ready
<1> QED
  BY <1>1, <1>2 DEF Mutator

(* The mark bits only grow while the program runs, and grey is marked.     *)
LEMMA ShadeMarks ==
  ASSUME grey \subseteq marked, NEW objs, Shade(objs)
  PROVE  grey' \subseteq marked' /\ marked' = marked \cup objs /\ marked' \ grey' \subseteq marked \ grey
  BY DEF Shade

LEMMA MutatorMarks ==
  ASSUME ProgramTypeOK, grey \subseteq marked, marked \subseteq Object, Mutator
  PROVE  grey' \subseteq marked' /\ marked \subseteq marked' /\ marked' \subseteq Object
<1> USE DEF ProgramTypeOK
<1>1. \A objs \in SUBSET Object : WriteBarrier(objs) =>
        grey' \subseteq marked' /\ marked \subseteq marked' /\ marked' \subseteq Object
  BY ShadeMarks DEF WriteBarrier, markVars
<1>2. CASE \E g \in Goroutine : Mutate(g)
  <2> PICK g \in Goroutine : Mutate(g)
    BY <1>2
  <2>1. CASE UNCHANGED markVars
    BY <2>1 DEF markVars
  <2>2. CASE \E o \in Object : New(g, o) /\ AllocateBlack(o)
    BY <2>2 DEF AllocateBlack
  <2>3. CASE \E o \in Object, v \in Object \cup {Nil} :
               Store(g, o, v) /\ WriteBarrier(Refs(v) \cup Refs(field[o]))
    <3>1. PICK o \in Object, v \in Object \cup {Nil} : WriteBarrier(Refs(v) \cup Refs(field[o]))
      BY <2>3
    <3>2. Refs(v) \cup Refs(field[o]) \subseteq Object
      BY RefsType
    <3> QED
      BY <1>1, <3>1, <3>2
  <2>4. CASE \E v \in Object \cup {Nil} : StoreGlobal(g, v) /\ WriteBarrier(Refs(v) \cup Refs(global))
    <3>1. PICK v \in Object \cup {Nil} : WriteBarrier(Refs(v) \cup Refs(global))
      BY <2>4
    <3>2. Refs(v) \cup Refs(global) \subseteq Object
      BY RefsType
    <3> QED
      BY <1>1, <3>1, <3>2
  <2>5. CASE \E h \in Goroutine, args \in SUBSET stack[g] : Go(g, h, args) /\ WriteBarrier(args)
    <3>1. PICK args \in SUBSET stack[g] : WriteBarrier(args)
      BY <2>5
    <3>2. args \subseteq Object
      OBVIOUS
    <3> QED
      BY <1>1, <3>1, <3>2
  <2>6. CASE \E o \in stack[g] : \E hs \in SUBSET queue[o], v \in Object \cup {Nil}, keep \in BOOLEAN :
               Dequeue(g, o, hs, v, keep) /\ WriteBarrier(Refs(v))
    <3>1. PICK v \in Object \cup {Nil} : WriteBarrier(Refs(v))
      BY <2>6
    <3> QED
      BY <1>1, <3>1, RefsType
  <2> QED
    BY <2>1, <2>2, <2>3, <2>4, <2>5, <2>6 DEF Mutate
<1>3. CASE UNCHANGED markVars
  BY <1>3 DEF markVars
<1> QED
  BY <1>2, <1>3 DEF Mutator

LEMMA MutatorTypeInv ==
  ASSUME TypeInv, Mutator
  PROVE  TypeInv'
<1>1. ProgramTypeOK'
  BY MutatorProgramTypeOK DEF TypeInv, TypeOK
<1>2. grey' \subseteq marked' /\ marked' \subseteq Object
  BY MutatorMarks DEF TypeInv, TypeOK
<1>3. UNCHANGED <<Others, gcdetectdeadlocks>> /\ mutations' \in 0 .. MaxMutations
  BY BoundsAssumption DEF Mutator, TypeInv, TypeOK
<1>4. UNCHANGED <<phase, gcscandone, stackRoots, nValidStackRoots, markrootNext, detectedDeadlocks,
                  markDone, doomed, reported, cycles, hasty>>
  BY <1>3 DEF Others, rootVars
<1>5. TypeOK'
  BY <1>1, <1>2, <1>3, <1>4 DEF TypeInv, TypeOK, nStackRoots, markrootJobs
<1>6. Indices' /\ ScannedSoFar'
  BY <1>4 DEF TypeInv, Indices, ScannedSoFar, Scanning, nStackRoots, markrootJobs
<1> QED
  BY <1>5, <1>6 DEF TypeInv

LEMMA StartTypeInv ==
  ASSUME TypeInv, gcStart
  PROVE  TypeInv'
<1>0. allGsSnapshotSortedForGC
  BY DEF gcStart
<1>1. PICK len \in 0 .. Len(AllGs) :
        \E order \in [1 .. len -> DOMAIN AllGs], blockedIndex \in 0 .. len :
          /\ stackRoots' = [j \in 1 .. len |-> AllGs[order[j]]]
          /\ nValidStackRoots' = blockedIndex
  BY <1>0 DEF allGsSnapshotSortedForGC
<1> USE DEF TypeInv, TypeOK
<1>2. PICK order \in [1 .. len -> DOMAIN AllGs], blockedIndex \in 0 .. len :
          /\ stackRoots' = [j \in 1 .. len |-> AllGs[order[j]]]
          /\ nValidStackRoots' = blockedIndex
  BY <1>1
<1>3. len \in Nat /\ \A j \in 1 .. len : AllGs[order[j]] \in Goroutine
  BY AllGsAssumption
<1>4. stackRoots' \in Seq(Goroutine) /\ nStackRoots' = len
  BY <1>2, <1>3 DEF nStackRoots
<1>5. nValidStackRoots' \in 0 .. nStackRoots'
  BY <1>2, <1>4
<1>6. markDone = Idle /\ markDone' = Idle
  BY DEF gcStart, Indices
<1>7. ProgramTypeOK'
  BY DEF gcStart, progVars, ProgramTypeOK
<1>8. doomed' \subseteq Goroutine
  BY DEF gcStart, Doomed
<1>9. cycles' \in 0 .. MaxCycles
  BY BoundsAssumption DEF gcStart
<1>10. markrootNext' \in 0 .. markrootJobs'
  <2>1. markrootNext' = 0 /\ markrootJobs' = 1 + blockedIndex
    BY <1>2 DEF gcStart, markrootJobs
  <2> HIDE DEF TypeInv, TypeOK
  <2> QED
    BY <2>1, <1>3
<1>11. markDone' \in [at : {"idle", "outer", "inner", "top", "barrier", "stopped"},
                     v : 0 .. nStackRoots', iv : 0 .. nStackRoots']
  BY <1>3, <1>4, <1>6 DEF Idle
<1>12. TypeOK'
  BY <1>4, <1>5, <1>7, <1>8, <1>9, <1>10, <1>11 DEF gcStart
<1>13. Indices'
  BY <1>6 DEF gcStart, Indices, Idle, Scanning
<1>14. ScannedSoFar'
  BY <1>4 DEF gcStart, ScannedSoFar, nStackRoots
<1> QED
  BY <1>12, <1>13, <1>14

(* Marking leaves the snapshot and the program alone.                      *)
LEMMA MarkingTypeInv ==
  ASSUME TypeInv, MarkGlobals \/ MarkStack \/ \E o \in Object : ScanObject(o)
  PROVE  TypeInv'
<1> USE DEF TypeInv, TypeOK
<1>1. /\ UNCHANGED <<progVars, phase, stackRoots, nValidStackRoots, detectedDeadlocks, markDone, doomed,
                     reported, cycles, hasty, mutations, gcdetectdeadlocks>>
      /\ nStackRoots' = nStackRoots /\ markrootJobs' = markrootJobs
  BY DEF MarkGlobals, MarkStack, ScanObject, nStackRoots, markrootJobs, rootVars
<1>4. stackRoots \in Seq(Goroutine) /\ DOMAIN stackRoots = 1 .. nStackRoots /\ nStackRoots \in Nat
  BY DEF nStackRoots
<1>8. markDone.at \in {"barrier", "stopped"} => markrootNext' = markrootNext
  <2>1. CASE MarkGlobals
    BY <1>4, <2>1 DEF MarkGlobals, Indices, markrootJobs
  <2>2. CASE MarkStack
    BY <1>4, <2>2 DEF MarkStack, Indices, markrootJobs
  <2>3. CASE \E o \in Object : ScanObject(o)
    BY <2>3 DEF ScanObject, rootVars
  <2> QED
    BY <2>1, <2>2, <2>3
<1>2. ProgramTypeOK' /\ Indices'
  BY <1>1, <1>8 DEF progVars, ProgramTypeOK, Indices, Scanning
<1>3. grey' \subseteq marked' /\ marked' \subseteq Object
  <2>1. CASE MarkGlobals
    BY <2>1, RefsType, ShadeMarks DEF ProgramTypeOK, MarkGlobals
  <2>2. CASE MarkStack
    BY <2>2, <1>4, ShadeMarks DEF ProgramTypeOK, MarkStack, markrootJobs
  <2>3. ASSUME NEW o \in Object, ScanObject(o)
        PROVE  grey' \subseteq marked' /\ marked' \subseteq Object
    BY <2>3, RefsType DEF ProgramTypeOK, ScanObject
  <2> QED
    BY <2>1, <2>2, <2>3
<1>5. markrootNext' \in 0 .. markrootJobs /\ gcscandone' \subseteq Goroutine
  <2>1. CASE MarkGlobals
    BY <2>1 DEF MarkGlobals, markrootJobs
  <2>2. CASE MarkStack
    BY <2>2, <1>4 DEF MarkStack, markrootJobs
  <2>3. CASE \E o \in Object : ScanObject(o)
    BY <2>3 DEF ScanObject, rootVars
  <2> QED
    BY <2>1, <2>2, <2>3
<1>6. ScannedSoFar'
  BY <1>1, <1>4 DEF ScannedSoFar, MarkGlobals, MarkStack, ScanObject, rootVars
<1>7. TypeOK'
  BY <1>1, <1>2, <1>3, <1>5
<1> QED
  BY <1>2, <1>6, <1>7

(* The steps of gcMarkDone before detectPartialDeadlocks.                  *)
Discovering ==
  \/ gcMarkDone \/ DiscoverFirst \/ DiscoverSwap \/ DiscoverPublish
  \/ MarkDoneReturns \/ PassBarrier \/ Restart

LEMMA DiscoverTypeInv ==
  ASSUME TypeInv, Discovering
  PROVE  TypeInv'
<1> USE DEF TypeInv, TypeOK, Idle, Discovering
<1>1. /\ UNCHANGED <<progVars, phase, markVars, gcscandone, markrootNext, detectedDeadlocks, doomed,
                     reported, cycles, hasty, mutations, gcdetectdeadlocks>>
  BY DEF gcMarkDone, DiscoverFirst, DiscoverSwap, DiscoverPublish, MarkDoneReturns, PassBarrier, Restart,
         rootVars
<1>2. ProgramTypeOK'
  BY <1>1 DEF progVars, ProgramTypeOK
<1>3. stackRoots \in Seq(Goroutine) /\ DOMAIN stackRoots = 1 .. nStackRoots /\ nStackRoots \in Nat
  BY DEF nStackRoots
<1>4. CASE DiscoverSwap /\ stackRoots' # stackRoots
  <2> DEFINE v == markDone.v
             iv == markDone.iv - 1
  <2>1. /\ v \in 0 .. nStackRoots /\ markDone.iv \in 0 .. nStackRoots
        /\ nValidStackRoots <= v /\ v < markDone.iv /\ phase # "off"
    BY <1>4 DEF DiscoverSwap, Indices, Scanning
  <2>2. /\ iv # v
        /\ stackRoots' = [stackRoots EXCEPT ![v + 1] = stackRoots[iv + 1],
                                            ![iv + 1] = stackRoots[v + 1]]
        /\ markDone' = [at |-> "outer", v |-> v + 1, iv |-> iv]
        /\ nValidStackRoots' = nValidStackRoots
    BY <1>4 DEF DiscoverSwap
  <2> HIDE DEF v, iv
  <2>3. v \in Nat /\ iv \in Nat /\ v < iv /\ iv < nStackRoots
    BY <2>1, <2>2, <1>3 DEF v, iv
  <2>4. v + 1 \in DOMAIN stackRoots /\ iv + 1 \in DOMAIN stackRoots
    BY <2>3, <1>3
  <2>5. stackRoots' \in Seq(Goroutine) /\ Len(stackRoots') = Len(stackRoots)
    BY <2>2, <2>4
  <2>6. nStackRoots' = nStackRoots
    BY <2>5 DEF nStackRoots
  <2>7. ScannedSoFar'
    <3>1. markrootNext <= v + 1 /\ markrootNext <= iv + 1 /\ markrootNext \in Nat
      BY <1>3, <2>1, <2>3 DEF markrootJobs, v
    <3>2. \A i \in DOMAIN stackRoots : i < markrootNext => stackRoots'[i] = stackRoots[i]
      BY <2>2, <3>1, <2>3, <1>3
    <3> QED
      BY <1>1, <1>3, <2>2, <3>2 DEF ScannedSoFar
  <2>8. TypeOK'
    <3>1. markrootJobs' = markrootJobs
      BY <2>2 DEF markrootJobs
    <3>2. markDone' \in [at : {"idle", "outer", "inner", "top", "barrier", "stopped"},
                          v : 0 .. nStackRoots, iv : 0 .. nStackRoots]
      BY <1>3, <2>2, <2>3
    <3> QED
      BY <1>1, <1>2, <2>2, <2>5, <2>6, <3>1, <3>2 DEF markVars
  <2>9. Indices'
    BY <1>1, <2>1, <2>2, <2>3, <2>6 DEF Indices, Scanning, v
  <2> QED
    BY <2>7, <2>8, <2>9
<1>5. CASE stackRoots' = stackRoots
  <2>1. nStackRoots' = nStackRoots
    BY <1>5 DEF nStackRoots
  <2>2. /\ nValidStackRoots' \in 0 .. nStackRoots
        /\ nValidStackRoots <= nValidStackRoots'
        /\ markDone' \in [at : {"idle", "outer", "inner", "top", "barrier", "stopped"},
                          v : 0 .. nStackRoots, iv : 0 .. nStackRoots]
    <3>1. CASE gcMarkDone \/ MarkDoneReturns \/ PassBarrier \/ Restart
      BY <1>3, <3>1 DEF gcMarkDone, MarkDoneReturns, PassBarrier, Restart, rootVars
    <3>2. CASE DiscoverFirst
      BY <1>3, <3>2 DEF DiscoverFirst, rootVars
    <3>3. CASE DiscoverSwap
      BY <1>3, <1>5, <3>3 DEF DiscoverSwap, Indices
    <3>4. CASE DiscoverPublish
      BY <1>3, <3>4 DEF DiscoverPublish, Indices, Scanning
    <3> QED
      BY <3>1, <3>2, <3>3, <3>4
  <2>3. markrootNext' \in 0 .. markrootJobs'
    <3>1. PICK v \in 0 .. nStackRoots : nValidStackRoots' = v /\ nValidStackRoots <= v
      BY <2>2
    <3>2. markrootNext \in 0 .. 1 + nValidStackRoots /\ nValidStackRoots \in 0 .. nStackRoots
      BY DEF markrootJobs
    <3>3. markrootNext' = markrootNext /\ markrootJobs' = 1 + v
      BY <1>1, <3>1 DEF markrootJobs
    <3> HIDE DEF TypeInv, TypeOK
    <3> QED
      BY <1>3, <3>1, <3>2, <3>3
  <2>4. TypeOK'
    BY <1>1, <1>2, <1>5, <2>1, <2>2, <2>3 DEF markVars
  <2>5. ScannedSoFar'
    BY <1>1, <1>5 DEF ScannedSoFar
  <2>6. Indices'
    <3>1. CASE gcMarkDone \/ DiscoverFirst \/ DiscoverPublish
      BY <1>1, <1>3, <1>5, <2>1, <3>1
      DEF Indices, Scanning, gcMarkDone, DiscoverFirst, DiscoverPublish, rootVars
    <3>3. CASE DiscoverSwap
      BY <1>1, <1>3, <1>5, <2>1, <3>3 DEF Indices, Scanning, DiscoverSwap
    <3>4. CASE MarkDoneReturns \/ Restart
      BY <1>1, <1>3, <1>5, <2>1, <3>4
      DEF Indices, Scanning, MarkDoneReturns, Restart, WorldStops, rootVars
    <3>2. CASE PassBarrier
      <4>1. /\ markrootNext' = markrootNext /\ nValidStackRoots' = nValidStackRoots
            /\ markDone' = [Idle EXCEPT !.at = "barrier"] /\ markDone.at = "top"
            /\ ~(markrootNext < markrootJobs)
        BY <3>2 DEF PassBarrier, WorkAvailable, rootVars
      <4>2. markrootNext = markrootJobs /\ markrootJobs' = markrootJobs
        BY <1>3, <4>1 DEF markrootJobs
      <4> QED
        BY <1>1, <2>1, <4>1, <4>2 DEF Indices, Scanning
    <3> QED
      BY <3>1, <3>2, <3>3, <3>4
  <2> QED
    BY <2>4, <2>5, <2>6
<1>6. stackRoots' # stackRoots => DiscoverSwap
  BY DEF gcMarkDone, DiscoverFirst, DiscoverPublish, MarkDoneReturns, PassBarrier, Restart, rootVars
<1> QED
  BY <1>4, <1>5, <1>6

(* Masked entries change places, nothing else happens to the snapshot.     *)
Rearranged ==
  /\ stackRoots' \in Seq(Goroutine) /\ Len(stackRoots') = Len(stackRoots)
  /\ \A i \in 1 .. nValidStackRoots : stackRoots'[i] = stackRoots[i]
  /\ {stackRoots'[i] : i \in (nValidStackRoots + 1) .. nStackRoots} = Unclaimed

LEMMA Snapshot ==
  ASSUME TypeOK
  PROVE  /\ stackRoots \in Seq(Goroutine) /\ nStackRoots \in Nat /\ DOMAIN stackRoots = 1 .. nStackRoots
         /\ nValidStackRoots \in Nat /\ nValidStackRoots <= nStackRoots
         /\ markrootNext \in Nat /\ markrootNext <= 1 + nValidStackRoots
         /\ Unclaimed \subseteq Goroutine
<1>1. stackRoots \in Seq(Goroutine) /\ nStackRoots \in Nat /\ DOMAIN stackRoots = 1 .. nStackRoots
  BY DEF TypeOK, nStackRoots
<1>2. nValidStackRoots \in Nat /\ nValidStackRoots <= nStackRoots
  BY <1>1 DEF TypeOK
<1>3. markrootNext \in Nat /\ markrootNext <= 1 + nValidStackRoots
  BY <1>2 DEF TypeOK, markrootJobs
<1>4. Unclaimed \subseteq Goroutine
  BY <1>1, <1>2 DEF Unclaimed
<1> QED
  BY <1>1, <1>2, <1>3, <1>4

LEMMA FindMoreRearranges ==
  ASSUME TypeOK, NEW count \in Nat, FindMore(count)
  PROVE  /\ Rearranged
         /\ \A i \in (nValidStackRoots + 1) .. nStackRoots :
              i <= nValidStackRoots + count => ~Blocked(stackRoots'[i])
<1> DEFINE rest == (nValidStackRoots + 1) .. nStackRoots
<1>1. PICK order \in [rest -> rest] :
        /\ {order[i] : i \in rest} = rest
        /\ \A i \in rest : i <= nValidStackRoots + count <=> ~Blocked(stackRoots[order[i]])
        /\ stackRoots' = [i \in DOMAIN stackRoots |->
                            IF i \in rest THEN stackRoots[order[i]] ELSE stackRoots[i]]
  BY DEF FindMore
<1>2. rest \subseteq 1 .. nStackRoots /\ DOMAIN stackRoots = 1 .. nStackRoots /\ nStackRoots \in Nat
  BY Snapshot
<1>3. \A i \in 1 .. nValidStackRoots : i \in DOMAIN stackRoots /\ i \notin rest
  BY Snapshot
<1> HIDE DEF rest
<1>4. \A i \in 1 .. nStackRoots :
        IF i \in rest THEN stackRoots[order[i]] \in Goroutine ELSE stackRoots[i] \in Goroutine
  BY <1>2, Snapshot
<1>5. stackRoots' \in Seq(Goroutine) /\ Len(stackRoots') = nStackRoots
  <2>1. stackRoots' \in [1 .. nStackRoots -> Goroutine]
    BY <1>1, <1>2, <1>4
  <2> HIDE DEF nStackRoots
  <2> QED
    BY <1>2, <2>1
<1>6. \A i \in rest : stackRoots'[i] = stackRoots[order[i]] /\ order[i] \in rest
  BY <1>1, <1>2
<1>7. \A i \in 1 .. nValidStackRoots : stackRoots'[i] = stackRoots[i]
  BY <1>1, <1>3
<1>8. \A j \in rest : \E i \in rest : order[i] = j
  BY <1>1
<1>9. {stackRoots'[i] : i \in rest} = {stackRoots[i] : i \in rest}
  BY <1>6, <1>8
<1> QED
  BY <1>1, <1>5, <1>6, <1>7, <1>9 DEF Rearranged, Unclaimed, nStackRoots, rest

LEMMA SwapRearranges ==
  ASSUME TypeInv, DiscoverSwap
  PROVE  Rearranged
<1> DEFINE v == markDone.v
           iv == markDone.iv - 1
<1>1. CASE UNCHANGED stackRoots
  BY <1>1, Snapshot DEF Rearranged, Unclaimed, TypeInv
<1>2. CASE stackRoots' # stackRoots
  <2>1. /\ v \in 0 .. nStackRoots /\ markDone.iv \in 0 .. nStackRoots
        /\ nValidStackRoots <= v /\ v < markDone.iv
    BY DEF DiscoverSwap, TypeInv, TypeOK, Indices, Scanning
  <2>2. /\ iv # v
        /\ stackRoots' = [stackRoots EXCEPT ![v + 1] = stackRoots[iv + 1],
                                            ![iv + 1] = stackRoots[v + 1]]
    BY <1>2 DEF DiscoverSwap
  <2> HIDE DEF v, iv
  <2>3. v \in Nat /\ iv \in Nat /\ v < iv /\ iv < nStackRoots
    <3>1. nStackRoots \in Nat /\ nValidStackRoots \in Nat
      BY Snapshot DEF TypeInv
    <3>2. v \in Nat /\ markDone.iv \in Nat /\ markDone.iv <= nStackRoots
      BY <2>1, <3>1
    <3> QED
      BY <2>1, <2>2, <3>1, <3>2 DEF iv
  <2> DEFINE rest == (nValidStackRoots + 1) .. nStackRoots
  <2>4. v + 1 \in rest /\ iv + 1 \in rest /\ rest \subseteq DOMAIN stackRoots
    BY <2>1, <2>3, Snapshot DEF TypeInv
  <2>5. \A i \in 1 .. nValidStackRoots : i \in DOMAIN stackRoots /\ i \notin rest
    BY Snapshot DEF TypeInv
  <2> HIDE DEF rest
  <2>6. \A i \in DOMAIN stackRoots :
          stackRoots'[i] = IF i = iv + 1 THEN stackRoots[v + 1]
                           ELSE IF i = v + 1 THEN stackRoots[iv + 1] ELSE stackRoots[i]
    BY <2>2, <2>4
  <2>7. stackRoots' \in Seq(Goroutine) /\ Len(stackRoots') = Len(stackRoots)
    BY <2>2, <2>4, Snapshot DEF TypeInv
  <2>8. \A i \in 1 .. nValidStackRoots : stackRoots'[i] = stackRoots[i]
    BY <2>4, <2>5, <2>6
  <2>9. {stackRoots'[i] : i \in rest} = {stackRoots[i] : i \in rest}
    <3>1. \A i \in rest : \E j \in rest : stackRoots'[i] = stackRoots[j]
      BY <2>4, <2>6
    <3>2. \A i \in rest : \E j \in rest : stackRoots'[j] = stackRoots[i]
      <4> TAKE i \in rest
      <4>1. CASE i = v + 1
        BY <4>1, <2>4, <2>6
      <4>2. CASE i = iv + 1
        <5>1. iv + 1 # v + 1
          BY <2>3
        <5> QED
          BY <4>2, <5>1, <2>4, <2>6
      <4>3. CASE i # v + 1 /\ i # iv + 1
        BY <4>3, <2>4, <2>6
      <4> QED
        BY <4>1, <4>2, <4>3
    <3> QED
      BY <3>1, <3>2
  <2> QED
    BY <2>7, <2>8, <2>9 DEF Rearranged, Unclaimed, rest
<1> QED
  BY <1>1, <1>2

LEMMA DetectTypeInv ==
  ASSUME TypeInv, DetectMore \/ DetectReport \/ MarkTermination
  PROVE  TypeInv'
<1> USE DEF TypeInv
<1>1. stackRoots \in Seq(Goroutine) /\ nStackRoots \in Nat /\ DOMAIN stackRoots = 1 .. nStackRoots
  BY Snapshot
<1>2. nValidStackRoots \in Nat /\ nValidStackRoots <= nStackRoots
  BY Snapshot
<1>3. markrootNext \in Nat /\ markrootNext <= 1 + nValidStackRoots
  BY Snapshot
<1>4. CASE DetectMore
  <2>1. PICK count \in 1 .. (nStackRoots - nValidStackRoots) :
          FindMore(count) /\ nValidStackRoots' = nValidStackRoots + count
    BY <1>4 DEF DetectMore
  <2>2. count \in Nat /\ nValidStackRoots + count \in 0 .. nStackRoots
    BY <1>1, <1>2
  <2>3. Rearranged
    BY <2>1, <2>2, FindMoreRearranges
  <2>4. /\ UNCHANGED <<phase, marked, grey, gcscandone, markrootNext, detectedDeadlocks,
                       doomed, reported, cycles, hasty, mutations, gcdetectdeadlocks>>
        /\ UNCHANGED progVars
        /\ markDone' = [Idle EXCEPT !.at = "top"] /\ ~detectedDeadlocks /\ phase = "mark"
    BY <1>4 DEF DetectMore, WorldStops, markVars, TypeOK, Indices, Idle
  <2>5. nStackRoots' = nStackRoots
    BY <2>3 DEF Rearranged, nStackRoots
  <2>6. markrootJobs' = 1 + (nValidStackRoots + count)
    BY <2>1 DEF markrootJobs
  <2>7. markrootNext' \in 0 .. markrootJobs'
    BY <1>2, <1>3, <2>2, <2>4, <2>6
  <2>8. nValidStackRoots' \in 0 .. nStackRoots'
    BY <2>1, <2>2, <2>5
  <2>9. ProgramTypeOK'
    BY <2>4 DEF TypeOK, progVars, ProgramTypeOK
  <2>10. TypeOK'
    BY <1>1, <2>3, <2>4, <2>5, <2>7, <2>8, <2>9 DEF TypeOK, Rearranged, Idle
  <2>11. Indices'
    BY <2>4 DEF Indices, Scanning, Idle
  <2>12. ScannedSoFar'
    <3>1. \A i \in 1 .. nStackRoots : i < markrootNext => i \in 1 .. nValidStackRoots
      BY <1>2, <1>3
    <3>2. DOMAIN stackRoots' = 1 .. nStackRoots
      BY <2>3 DEF Rearranged, nStackRoots
    <3> QED
      BY <1>1, <2>3, <2>4, <3>1, <3>2 DEF ScannedSoFar, Rearranged
  <2> QED
    BY <2>10, <2>11, <2>12
<1>5. CASE DetectReport
  <2>1. /\ UNCHANGED <<phase, stackRoots, doomed, cycles, mutations, gcdetectdeadlocks>>
        /\ markDone.at = "barrier" /\ phase = "mark"
        /\ markDone' = [Idle EXCEPT !.at = "stopped"] /\ hasty' \in BOOLEAN
        /\ reported' = Unclaimed /\ gcscandone' = gcscandone \cup Unclaimed
        /\ nValidStackRoots' = nStackRoots /\ markrootNext' = 1 + nStackRoots
        /\ detectedDeadlocks' = TRUE
    BY <1>5 DEF DetectReport, WorldStops, TypeOK, Indices, Idle
  <2>2. Recycle(Unclaimed) \/ Keep(Unclaimed)
    BY <1>5 DEF DetectReport
  <2>3. ProgramTypeOK'
    <3> USE DEF TypeOK, ProgramTypeOK, Statuses
    <3>1. CASE Recycle(Unclaimed)
      BY <3>1 DEF Recycle
    <3>2. CASE Keep(Unclaimed)
      BY <3>2 DEF Keep
    <3> QED
      BY <2>2, <3>1, <3>2
  <2>4. grey' \subseteq marked' /\ marked' \subseteq Object
    <3>1. \A objs : Reachable(objs) \subseteq Object
      BY DEF Reachable
    <3> QED
      BY <1>5, <3>1 DEF DetectReport, DrainReported, markVars, TypeOK
  <2>5. nStackRoots' = nStackRoots /\ markrootJobs' = 1 + nStackRoots
    BY <2>1 DEF nStackRoots, markrootJobs
  <2>6. TypeOK'
    <3>1. Unclaimed \subseteq Goroutine
      BY Snapshot
    <3>2. markrootNext' \in 0 .. markrootJobs'
      BY <1>1, <2>1, <2>5
    <3>3. nValidStackRoots' \in 0 .. nStackRoots'
      BY <1>1, <2>1, <2>5
    <3>4. markDone' \in [at : {"idle", "outer", "inner", "top", "barrier", "stopped"},
                          v : 0 .. nStackRoots', iv : 0 .. nStackRoots']
      BY <1>1, <2>1, <2>5 DEF Idle
    <3> QED
      BY <2>1, <2>3, <2>4, <2>5, <3>1, <3>2, <3>3, <3>4 DEF TypeOK
  <2>7. Indices'
    BY <2>1, <2>5 DEF Indices, Scanning, Idle
  <2>8. ScannedSoFar'
    <3>1. markrootNext = 1 + nValidStackRoots
      BY <2>1 DEF Indices, markrootJobs
    <3>2. \A i \in DOMAIN stackRoots : i < markrootNext \/ stackRoots[i] \in Unclaimed
      BY <1>1, <1>2, <3>1 DEF Unclaimed
    <3> QED
      BY <2>1, <3>2 DEF ScannedSoFar
  <2> QED
    BY <2>6, <2>7, <2>8
<1>6. CASE MarkTermination
  <2>1. /\ phase' = "off" /\ marked' = {} /\ gcscandone' = {}
        /\ stackRoots' = <<>> /\ nValidStackRoots' = 0 /\ markrootNext' = 0 /\ markDone' = Idle
        /\ UNCHANGED <<grey, detectedDeadlocks, doomed, reported, cycles, hasty, mutations, gcdetectdeadlocks>>
        /\ grey = {} /\ Free(allocated \ marked)
    BY <1>6 DEF MarkTermination, WorkAvailable
  <2>2. ProgramTypeOK'
    BY <2>1 DEF TypeOK, ProgramTypeOK, Free
  <2>3. nStackRoots' = 0 /\ markrootJobs' = 1
    BY <2>1 DEF nStackRoots, markrootJobs
  <2>4. TypeOK'
    BY <2>1, <2>2, <2>3 DEF TypeOK, Idle
  <2>5. Indices' /\ ScannedSoFar'
    BY <2>1 DEF Indices, Scanning, ScannedSoFar, Idle
  <2> QED
    BY <2>4, <2>5
<1> QED
  BY <1>4, <1>5, <1>6

LEMMA InitTypeInv == Init => TypeInv
<1> SUFFICES ASSUME Init
             PROVE  TypeInv
  OBVIOUS
<1>1. ProgramTypeOK
  BY DEF Init, ContractInit
<1>2. TypeOK
  <2>1. nStackRoots = 0 /\ markrootJobs = 1
    BY DEF Init, nStackRoots, markrootJobs
  <2>2. stackRoots \in Seq(Goroutine) /\ mutations \in 0 .. MaxMutations /\ cycles \in 0 .. MaxCycles
    BY BoundsAssumption DEF Init
  <2>3. nValidStackRoots \in 0 .. nStackRoots /\ markrootNext \in 0 .. markrootJobs
    BY <2>1 DEF Init
  <2>4. markDone \in [at : {"idle", "outer", "inner", "top", "barrier", "stopped"},
                     v : 0 .. nStackRoots, iv : 0 .. nStackRoots]
    BY <2>1 DEF Init, Idle
  <2> QED
    BY <1>1, <2>2, <2>3, <2>4 DEF Init, TypeOK
<1>3. Indices /\ ScannedSoFar
  BY DEF Init, Indices, Scanning, ScannedSoFar, Idle
<1> QED
  BY <1>2, <1>3 DEF TypeInv

LEMMA NextTypeInv == TypeInv /\ [Next]_vars => TypeInv'
<1> SUFFICES ASSUME TypeInv, [Next]_vars
             PROVE  TypeInv'
  OBVIOUS
<1>1. CASE Mutator
  BY <1>1, MutatorTypeInv
<1>2. CASE gcStart
  BY <1>2, StartTypeInv
<1>3. CASE Marking
  BY <1>3, MarkingTypeInv, DiscoverTypeInv, DetectTypeInv DEF Marking, Draining, Finishing, Discovering
<1>4. CASE UNCHANGED vars
  BY <1>4
  DEF vars, progVars, gcVars, TypeInv, TypeOK, ProgramTypeOK, Indices, Scanning, ScannedSoFar,
      nStackRoots, markrootJobs
<1> QED
  BY <1>1, <1>2, <1>3, <1>4 DEF Next

-----------------------------------------------------------------------------
(* What the program can do to a set M that holds everything the goroutines *)
(* outside D can reach: objects join it only by being allocated, its marks *)
(* stay inside, and the goroutines of D stay blocked on what they wait for *)
(* as long as no running goroutine can take them off a queue.              *)
Confines(M, D) == Closed(M) /\ \A g \in Goroutine \ D : stack[g] \subseteq M

Asleep(D) == \A g \in D : status[g] = "_Gwaiting" /\ g \notin BeingWoken

LEMMA MutateConfined ==
  ASSUME TypeInv, NEW g \in Goroutine, Mutate(g),
         NEW M \in SUBSET Object, NEW D \in SUBSET Goroutine, Confines(M, D), Asleep(D),
         \A o \in stack[g] : Running(g) => queue[o] \cap D = {},
         NEW N \in SUBSET Object, N = M \cup (allocated' \ allocated)
  PROVE  /\ Confines(N, D)' /\ Asleep(D)'
         /\ \A h \in D : waitingOn'[h] = waitingOn[h]
         /\ phase = "mark" /\ marked \subseteq M => marked' \subseteq N
<1> USE DEF TypeInv, TypeOK, ProgramTypeOK
<1> DEFINE Goal == /\ Confines(N, D)' /\ Asleep(D)'
                   /\ \A h \in D : waitingOn'[h] = waitingOn[h]
                   /\ phase = "mark" /\ marked \subseteq M => marked' \subseteq N
<1> SUFFICES Goal
  OBVIOUS
<1>1. Running(g) => g \notin D /\ stack[g] \subseteq M
  BY DEF Running, Asleep, Confines
<1>2. Closed(M)
  BY DEF Confines
<1>3. ASSUME UNCHANGED <<status, waking, waitingOn>>
      PROVE  Asleep(D)' /\ \A h \in D : waitingOn'[h] = waitingOn[h]
  BY <1>3 DEF Asleep, BeingWoken
<1>4. \A objs : WriteBarrier(objs) /\ objs \subseteq M /\ phase = "mark" /\ marked \subseteq M =>
        marked' \subseteq M
  BY DEF WriteBarrier, Shade
<1>5. CASE \E o \in Object : (Load(g, o) \/ Forget(g, o)) /\ UNCHANGED markVars
  <2> PICK o \in Object : (Load(g, o) \/ Forget(g, o)) /\ UNCHANGED markVars
    BY <1>5
  <2>1. UNCHANGED <<status, waking, waitingOn, field, global, allocated, queue>> /\ N = M
    BY DEF Load, Forget
  <2>2. Closed(M)'
    BY <1>2, <2>1 DEF Closed
  <2>3. stack'[g] \subseteq M /\ \A h \in Goroutine \ {g} : stack'[h] = stack[h]
    BY <1>1, <1>2 DEF Load, Forget, Closed
  <2> QED
    BY <1>3, <2>1, <2>2, <2>3 DEF Confines, markVars
<1>6. CASE LoadGlobal(g) /\ UNCHANGED markVars
  <2>1. UNCHANGED <<status, waking, waitingOn, field, global, allocated, queue>> /\ N = M
    BY <1>6 DEF LoadGlobal
  <2>2. Closed(M)'
    BY <1>2, <2>1 DEF Closed
  <2>3. stack'[g] \subseteq M /\ \A h \in Goroutine \ {g} : stack'[h] = stack[h]
    BY <1>1, <1>2, <1>6 DEF LoadGlobal, Closed
  <2> QED
    BY <1>3, <1>6, <2>1, <2>2, <2>3 DEF Confines, markVars
<1>7. CASE \E o \in Object : New(g, o) /\ AllocateBlack(o)
  <2> PICK o \in Object : New(g, o) /\ AllocateBlack(o)
    BY <1>7
  <2>1. UNCHANGED <<status, waking, waitingOn, global>> /\ N = M \cup {o} /\ allocated' = allocated \cup {o}
    BY DEF New
  <2>2. Closed(N)'
    BY <1>2, <2>1, RefsNil DEF New, Closed
  <2>3. \A h \in Goroutine : stack'[h] \subseteq stack[h] \cup {o}
    BY DEF New
  <2>4. phase = "mark" /\ marked \subseteq M => marked' \subseteq N
    BY <2>1 DEF AllocateBlack
  <2> QED
    BY <1>3, <2>1, <2>2, <2>3, <2>4 DEF Confines
<1>8. CASE \E o \in Object, v \in Object \cup {Nil} :
             Store(g, o, v) /\ WriteBarrier(Refs(v) \cup Refs(field[o]))
  <2> PICK o \in Object, v \in Object \cup {Nil} :
             Store(g, o, v) /\ WriteBarrier(Refs(v) \cup Refs(field[o]))
    BY <1>8
  <2>1. UNCHANGED <<status, waking, waitingOn, global, allocated, stack>> /\ N = M
    BY DEF Store
  <2>2. Refs(v) \cup Refs(field[o]) \subseteq M
    BY <1>1, <1>2 DEF Store, Closed
  <2>3. Closed(M)'
    BY <1>2, <2>1, <2>2 DEF Store, Closed
  <2> QED
    BY <1>3, <1>4, <2>1, <2>2, <2>3 DEF Confines
<1>9. CASE \E v \in Object \cup {Nil} : StoreGlobal(g, v) /\ WriteBarrier(Refs(v) \cup Refs(global))
  <2> PICK v \in Object \cup {Nil} : StoreGlobal(g, v) /\ WriteBarrier(Refs(v) \cup Refs(global))
    BY <1>9
  <2>1. UNCHANGED <<status, waking, waitingOn, field, allocated, stack>> /\ N = M
    BY DEF StoreGlobal
  <2>2. Refs(v) \cup Refs(global) \subseteq M
    BY <1>1, <1>2 DEF StoreGlobal, Closed
  <2>3. Closed(M)'
    BY <1>2, <2>1, <2>2 DEF StoreGlobal, Closed
  <2> QED
    BY <1>3, <1>4, <2>1, <2>2, <2>3 DEF Confines
<1>10. CASE \E h \in Goroutine, args \in SUBSET stack[g] : Go(g, h, args) /\ WriteBarrier(args)
  <2> PICK h \in Goroutine, args \in SUBSET stack[g] : Go(g, h, args) /\ WriteBarrier(args)
    BY <1>10
  <2>1. UNCHANGED <<waking, waitingOn, field, global, allocated>> /\ N = M
    BY DEF Go
  <2>2. args \subseteq M
    BY <1>1 DEF Go
  <2>3. Closed(M)'
    BY <1>2, <2>1 DEF Closed
  <2>4. h \notin D /\ \A k \in Goroutine \ {h} : status'[k] = status[k] /\ stack'[k] = stack[k]
    BY DEF Go, Asleep
  <2>5. stack'[h] = args
    BY DEF Go
  <2>6. Asleep(D)'
    BY <2>1, <2>4 DEF Asleep, BeingWoken
  <2> QED
    BY <1>4, <2>1, <2>2, <2>3, <2>4, <2>5, <2>6 DEF Confines
<1>11. CASE (Goexit(g) \/ Sleep(g)) /\ UNCHANGED markVars
  <2>1. UNCHANGED <<waking, waitingOn, field, global, allocated>> /\ N = M /\ g \notin D
    BY <1>1, <1>11 DEF Goexit, Sleep
  <2>2. Closed(M)'
    BY <1>2, <2>1 DEF Closed
  <2>3. \A k \in Goroutine : stack'[k] \subseteq stack[k] /\ (k # g => status'[k] = status[k])
    BY <1>11 DEF Goexit, Sleep
  <2>4. Asleep(D)'
    BY <2>1, <2>3 DEF Asleep, BeingWoken
  <2> QED
    BY <1>11, <2>1, <2>2, <2>3, <2>4 DEF Confines, markVars
<1>12. CASE \E objs \in SUBSET stack[g] : Park(g, objs) /\ UNCHANGED markVars
  <2> PICK objs \in SUBSET stack[g] : Park(g, objs) /\ UNCHANGED markVars
    BY <1>12
  <2>1. UNCHANGED <<waking, stack, field, global, allocated>> /\ N = M /\ g \notin D
    BY <1>1 DEF Park
  <2>2. Closed(M)'
    BY <1>2, <2>1 DEF Closed
  <2>3. \A k \in Goroutine \ {g} : status'[k] = status[k] /\ waitingOn'[k] = waitingOn[k]
    BY DEF Park
  <2>4. Asleep(D)'
    BY <2>1, <2>3 DEF Asleep, BeingWoken
  <2> QED
    BY <2>1, <2>2, <2>3, <2>4 DEF Confines, markVars
<1>13. CASE \E o \in stack[g] : \E hs \in SUBSET queue[o], v \in Object \cup {Nil}, keep \in BOOLEAN :
              Dequeue(g, o, hs, v, keep) /\ WriteBarrier(Refs(v))
  <2> PICK o \in stack[g] : \E hs \in SUBSET queue[o], v \in Object \cup {Nil}, keep \in BOOLEAN :
              Dequeue(g, o, hs, v, keep) /\ WriteBarrier(Refs(v))
    BY <1>13
  <2> PICK hs \in SUBSET queue[o], v \in Object \cup {Nil}, keep \in BOOLEAN :
              Dequeue(g, o, hs, v, keep) /\ WriteBarrier(Refs(v))
    OBVIOUS
  <2>1. UNCHANGED <<status, waitingOn, field, global, allocated>> /\ N = M /\ Running(g)
    BY DEF Dequeue
  <2>2. hs \subseteq Goroutine /\ hs \cap D = {}
    BY <2>1
  <2>3. Refs(v) \subseteq M
    BY <1>1, <2>1, <2>2 DEF Dequeue, Confines
  <2>4. Closed(M)'
    BY <1>2, <2>1 DEF Closed
  <2>5. \A k \in Goroutine : stack'[k] \subseteq stack[k] \cup Refs(v)
    BY DEF Dequeue
  <2>6. BeingWoken' \subseteq BeingWoken \cup hs
    BY DEF Dequeue, BeingWoken
  <2> QED
    BY <1>4, <2>1, <2>2, <2>3, <2>4, <2>5, <2>6 DEF Confines, Asleep
<1> HIDE DEF TypeInv, Goal
<1> QED
  BY <1>5, <1>6, <1>7, <1>8, <1>9, <1>10, <1>11, <1>12, <1>13 DEF Mutate

(* The steps with which a wait ends touch no reference at all.             *)
LEMMA WakingConfined ==
  ASSUME TypeInv, NEW g \in Goroutine, WakeUp(g) \/ \E h \in Goroutine : Ready(g, h),
         NEW D \in SUBSET Goroutine, Asleep(D)
  PROVE  Asleep(D)' /\ \A h \in D : waitingOn'[h] = waitingOn[h]
<1> USE DEF TypeInv, TypeOK, ProgramTypeOK
<1>1. CASE WakeUp(g)
  BY <1>1 DEF WakeUp, Asleep, BeingWoken
<1>2. ASSUME NEW h \in Goroutine, Ready(g, h)
      PROVE  Asleep(D)' /\ \A k \in D : waitingOn'[k] = waitingOn[k]
  <2>1. h \in BeingWoken /\ BeingWoken' \subseteq BeingWoken
    BY <1>2 DEF Ready, BeingWoken
  <2>2. h \notin D
    BY <2>1 DEF Asleep
  <2>3. \A k \in Goroutine \ {h} : status'[k] = status[k] /\ waitingOn'[k] = waitingOn[k]
    BY <1>2 DEF Ready
  <2> QED
    BY <2>1, <2>2, <2>3 DEF Asleep
<1> QED
  BY <1>1, <1>2

-----------------------------------------------------------------------------
(* Everything in use is allocated.  A goroutine that was never started is  *)
(* not in allgs and would be missed: it refers to nothing and nobody can   *)
(* hand it anything.                                                       *)
Memory ==
  /\ Confines(allocated, {})
  /\ \A g \in Goroutine : status[g] = "_Gidle" =>
       stack[g] = {} /\ \A o \in Object : g \notin queue[o]

LEMMA MutateAllocates ==
  ASSUME NEW g \in Goroutine, Mutate(g)
  PROVE  allocated \subseteq allocated'
<1>1. CASE \E o \in Object : New(g, o)
  BY <1>1 DEF New
<1>2. CASE \E o \in Object : Load(g, o) \/ Forget(g, o)
  BY <1>2 DEF Load, Forget
<1>3. CASE LoadGlobal(g) \/ Goexit(g) \/ Sleep(g)
  BY <1>3 DEF LoadGlobal, Goexit, Sleep
<1>4. CASE \/ \E o \in Object, v \in Object \cup {Nil} : Store(g, o, v)
           \/ \E v \in Object \cup {Nil} : StoreGlobal(g, v)
  BY <1>4 DEF Store, StoreGlobal
<1>5. CASE \/ \E h \in Goroutine, args \in SUBSET stack[g] : Go(g, h, args)
           \/ \E objs \in SUBSET stack[g] : Park(g, objs)
  BY <1>5 DEF Go, Park
<1>6. CASE \E o \in stack[g] : \E hs \in SUBSET queue[o], v \in Object \cup {Nil}, keep \in BOOLEAN :
             Dequeue(g, o, hs, v, keep)
  BY <1>6 DEF Dequeue
<1> QED
  BY <1>1, <1>2, <1>3, <1>4, <1>5, <1>6 DEF Mutate

LEMMA MutatorIdle ==
  ASSUME TypeInv, Memory, Mutator, NEW h \in Goroutine, status'[h] = "_Gidle"
  PROVE  stack'[h] = {} /\ \A o \in Object : h \notin queue'[o]
<1> USE DEF TypeInv, TypeOK, ProgramTypeOK
<1>1. CASE \E g \in Goroutine : Mutate(g)
  <2> PICK g \in Goroutine : Mutate(g)
    BY <1>1
  <2> DEFINE Goal == stack'[h] = {} /\ \A o \in Object : h \notin queue'[o]
  <2> SUFFICES Goal
    OBVIOUS
  <2>1. status[h] = "_Gidle" => stack[h] = {} /\ \A o \in Object : h \notin queue[o]
    BY DEF Memory
  <2>2. CASE \E o \in Object : Load(g, o) \/ Forget(g, o) \/ New(g, o)
    <3>1. PICK o \in Object : Load(g, o) \/ Forget(g, o) \/ New(g, o)
      BY <2>2
    <3>2. status[h] = "_Gidle" /\ h # g
      BY <3>1 DEF Load, Forget, New, Running
    <3>3. stack'[h] = stack[h]
      BY <3>1, <3>2 DEF Load, Forget, New
    <3>4. \A p \in Object : queue'[p] \subseteq queue[p]
      BY <3>1 DEF Load, Forget, New
    <3> QED
      BY <2>1, <3>2, <3>3, <3>4
  <2>3. CASE LoadGlobal(g) \/ Goexit(g) \/ Sleep(g)
    BY <2>1, <2>3 DEF LoadGlobal, Goexit, Sleep, Running
  <2>4. CASE \E o \in Object, v \in Object \cup {Nil} : Store(g, o, v)
    BY <2>1, <2>4 DEF Store
  <2>5. CASE \E v \in Object \cup {Nil} : StoreGlobal(g, v)
    BY <2>1, <2>5 DEF StoreGlobal
  <2>6. CASE \E k \in Goroutine, args \in SUBSET stack[g] : Go(g, k, args)
    BY <2>1, <2>6 DEF Go
  <2>7. CASE \E objs \in SUBSET stack[g] : Park(g, objs)
    BY <2>1, <2>7 DEF Park
  <2>8. CASE \E o \in stack[g] : \E hs \in SUBSET queue[o], v \in Object \cup {Nil}, keep \in BOOLEAN :
               Dequeue(g, o, hs, v, keep)
    <3>1. PICK o \in stack[g] : \E hs \in SUBSET queue[o], v \in Object \cup {Nil}, keep \in BOOLEAN :
               Dequeue(g, o, hs, v, keep)
      BY <2>8
    <3>2. PICK hs \in SUBSET queue[o], v \in Object \cup {Nil}, keep \in BOOLEAN :
               Dequeue(g, o, hs, v, keep)
      BY <3>1
    <3>3. status[h] = "_Gidle" /\ h # g
      BY <3>2 DEF Dequeue, Running
    <3>4. h \notin hs
      BY <2>1, <3>3
    <3> QED
      BY <2>1, <3>2, <3>3, <3>4 DEF Dequeue
  <2> HIDE DEF TypeInv, Goal
  <2> QED
    BY <2>2, <2>3, <2>4, <2>5, <2>6, <2>7, <2>8 DEF Mutate
<1>2. CASE \E g \in Goroutine : WakeUp(g) \/ \E k \in Goroutine : Ready(g, k)
  BY <1>2 DEF Memory, WakeUp, Ready
<1> QED
  BY <1>1, <1>2 DEF Mutator

LEMMA MutatorMemory ==
  ASSUME TypeInv, Memory, Mutator
  PROVE  Memory'
<1>1. Confines(allocated, {})'
  <2>1. CASE \E g \in Goroutine : Mutate(g)
    <3>1. PICK g \in Goroutine : Mutate(g)
      BY <2>1
    <3>2. allocated \in SUBSET Object /\ allocated' \in SUBSET Object
      BY MutatorProgramTypeOK DEF TypeInv, TypeOK, ProgramTypeOK
    <3>3. Asleep({}) /\ Confines(allocated, {})
      BY DEF Asleep, Memory
    <3>4. allocated \subseteq allocated'
      BY <3>1, MutateAllocates
    <3>5. allocated' = allocated \cup (allocated' \ allocated)
      BY <3>4
    <3>6. \A N \in SUBSET Object : N = allocated' => Confines(N, {})'
      BY <3>1, <3>2, <3>3, <3>5, MutateConfined
    <3> QED
      BY <3>2, <3>6 DEF Confines, Closed
  <2>2. CASE \E g \in Goroutine : WakeUp(g) \/ \E h \in Goroutine : Ready(g, h)
    BY <2>2 DEF Memory, Confines, Closed, WakeUp, Ready
  <2> QED
    BY <2>1, <2>2 DEF Mutator
<1>2. \A g \in Goroutine : status'[g] = "_Gidle" => stack'[g] = {} /\ \A o \in Object : g \notin queue'[o]
  BY MutatorIdle
<1> QED
  BY <1>1, <1>2 DEF Memory

-----------------------------------------------------------------------------
(* The tricolour invariant.  A black object refers to marked objects only. *)
(* Stacks are scanned once and not shaded when references are loaded, so   *)
(* what a scanned stack refers to need not be marked, but marking cannot   *)
(* end without it: it belongs to every set that holds the mark bits and    *)
(* the globals and has no reference out of it.                             *)
Pending == {stackRoots[i] : i \in {j \in 1 .. nStackRoots : markrootNext <= j}}

Complete(M) ==
  /\ marked \subseteq M /\ Refs(global) \subseteq M
  /\ \A o \in M : Refs(field[o]) \subseteq M

Tricolour ==
  /\ marked \subseteq allocated
  /\ \A o \in marked \ grey : Refs(field[o]) \subseteq marked
  /\ 0 < markrootNext => Refs(global) \subseteq marked
  /\ \A M \in SUBSET Object : Complete(M) => \A g \in Goroutine \ Pending : stack[g] \subseteq M

LEMMA MutateTricolour ==
  ASSUME TypeInv, Memory, phase = "mark", Tricolour, NEW g \in Goroutine, Mutate(g)
  PROVE  /\ \A o \in marked' \ grey' : Refs(field'[o]) \subseteq marked'
         /\ 0 < markrootNext => Refs(global') \subseteq marked'
         /\ \A M \in SUBSET Object : Complete(M)' => \A h \in Goroutine \ Pending : stack'[h] \subseteq M
<1> USE DEF TypeInv, TypeOK, ProgramTypeOK
<1> DEFINE Goal == /\ \A o \in marked' \ grey' : Refs(field'[o]) \subseteq marked'
                   /\ 0 < markrootNext => Refs(global') \subseteq marked'
                   /\ \A M \in SUBSET Object :
                        Complete(M)' => \A h \in Goroutine \ Pending : stack'[h] \subseteq M
<1> SUFFICES Goal
  OBVIOUS
<1>1. /\ grey \subseteq marked
      /\ marked \subseteq allocated
      /\ \A o \in marked \ grey : Refs(field[o]) \subseteq marked
      /\ 0 < markrootNext => Refs(global) \subseteq marked
      /\ \A M \in SUBSET Object : Complete(M) => \A h \in Goroutine \ Pending : stack[h] \subseteq M
  BY DEF Tricolour
<1>2. \A objs : WriteBarrier(objs) => Shade(objs)
  BY DEF WriteBarrier
<1>3. CASE \E o \in Object : (Load(g, o) \/ Forget(g, o)) /\ UNCHANGED markVars
  <2> PICK o \in Object : (Load(g, o) \/ Forget(g, o)) /\ UNCHANGED markVars
    BY <1>3
  <2>1. UNCHANGED <<field, global, marked, grey>>
    BY DEF Load, Forget, markVars
  <2>2. \A M : Complete(M)' => Complete(M)
    BY <2>1 DEF Complete
  <2>3. \A M : Complete(M) /\ stack[g] \subseteq M => stack'[g] \subseteq M
    BY DEF Complete, Load, Forget
  <2>4. \A h \in Goroutine \ {g} : stack'[h] = stack[h]
    BY DEF Load, Forget
  <2> QED
    BY <1>1, <2>1, <2>2, <2>3, <2>4
<1>4. CASE LoadGlobal(g) /\ UNCHANGED markVars
  <2>1. UNCHANGED <<field, global, marked, grey>>
    BY <1>4 DEF LoadGlobal, markVars
  <2>2. \A M : Complete(M)' => Complete(M)
    BY <2>1 DEF Complete
  <2>3. \A M : Complete(M) => \A h \in Goroutine : stack[h] \subseteq M => stack'[h] \subseteq M
    BY <1>4 DEF Complete, LoadGlobal
  <2> QED
    BY <1>1, <2>1, <2>2, <2>3
<1>5. CASE \E o \in Object : New(g, o) /\ AllocateBlack(o)
  <2> PICK o \in Object : New(g, o) /\ AllocateBlack(o)
    BY <1>5
  <2>1. /\ UNCHANGED <<global, grey>> /\ marked' = marked \cup {o} /\ o \notin allocated
        /\ field'[o] = Nil /\ \A p \in Object \ {o} : field'[p] = field[p]
        /\ \A h \in Goroutine : stack'[h] \subseteq stack[h] \cup {o}
    BY DEF New, AllocateBlack
  <2>2. \A p \in marked' \ grey' : Refs(field'[p]) \subseteq marked'
    BY <1>1, <2>1, RefsNil
  <2>3. 0 < markrootNext => Refs(global') \subseteq marked'
    BY <1>1, <2>1
  <2>4. ASSUME NEW M \in SUBSET Object, Complete(M)', NEW h \in Goroutine \ Pending
        PROVE  stack'[h] \subseteq M
    <3>1. Closed(allocated)
      BY DEF Memory, Confines
    <3>2. Complete(M \cap allocated)
      BY <1>1, <2>1, <2>4, <3>1 DEF Complete, Closed
    <3>3. stack[h] \subseteq M \cap allocated
      BY <1>1, <3>2
    <3>4. o \in M
      BY <2>1, <2>4 DEF Complete
    <3> QED
      BY <2>1, <3>3, <3>4
  <2> QED
    BY <2>2, <2>3, <2>4
<1>6. CASE \E o \in Object, v \in Object \cup {Nil} :
             Store(g, o, v) /\ WriteBarrier(Refs(v) \cup Refs(field[o]))
  <2> PICK o \in Object, v \in Object \cup {Nil} :
             Store(g, o, v) /\ WriteBarrier(Refs(v) \cup Refs(field[o]))
    BY <1>6
  <2>1. /\ UNCHANGED <<global, stack>>
        /\ field'[o] = v /\ \A p \in Object \ {o} : field'[p] = field[p]
    BY DEF Store
  <2>2. marked' = marked \cup Refs(v) \cup Refs(field[o]) /\ marked' \ grey' \subseteq marked \ grey
    BY <1>1, <1>2, ShadeMarks
  <2>3. \A p \in marked' \ grey' : Refs(field'[p]) \subseteq marked'
    BY <1>1, <2>1, <2>2
  <2>4. \A M \in SUBSET Object : Complete(M)' => Complete(M)
    BY <2>1, <2>2 DEF Complete
  <2> QED
    BY <1>1, <2>1, <2>2, <2>3, <2>4
<1>7. CASE \E v \in Object \cup {Nil} : StoreGlobal(g, v) /\ WriteBarrier(Refs(v) \cup Refs(global))
  <2> PICK v \in Object \cup {Nil} : StoreGlobal(g, v) /\ WriteBarrier(Refs(v) \cup Refs(global))
    BY <1>7
  <2>1. UNCHANGED <<field, stack>> /\ global' = v
    BY DEF StoreGlobal
  <2>2. marked' = marked \cup Refs(v) \cup Refs(global) /\ marked' \ grey' \subseteq marked \ grey
    BY <1>1, <1>2, ShadeMarks
  <2>3. \A M \in SUBSET Object : Complete(M)' => Complete(M)
    BY <2>1, <2>2 DEF Complete
  <2> QED
    BY <1>1, <2>1, <2>2, <2>3
<1>8. ASSUME NEW objs, Shade(objs), UNCHANGED <<field, global>>,
             \A h \in Goroutine : stack'[h] \subseteq stack[h] \cup objs
      PROVE  Goal
  <2>1. marked' = marked \cup objs /\ marked' \ grey' \subseteq marked \ grey
    BY <1>1, <1>8, ShadeMarks
  <2>2. \A M \in SUBSET Object : Complete(M)' => Complete(M) /\ objs \subseteq M
    BY <1>8, <2>1 DEF Complete
  <2> QED
    BY <1>1, <1>8, <2>1, <2>2
<1>9. CASE \E h \in Goroutine, args \in SUBSET stack[g] : Go(g, h, args) /\ WriteBarrier(args)
  <2> PICK h \in Goroutine, args \in SUBSET stack[g] : Go(g, h, args) /\ WriteBarrier(args)
    BY <1>9
  <2>1. UNCHANGED <<field, global>> /\ \A k \in Goroutine : stack'[k] \subseteq stack[k] \cup args
    BY DEF Go
  <2> HIDE DEF Goal
  <2> QED
    BY <1>2, <1>8, <2>1
<1>10. CASE (Goexit(g) \/ Sleep(g)) /\ UNCHANGED markVars
  <2>1. UNCHANGED <<field, global, marked, grey>> /\ \A k \in Goroutine : stack'[k] \subseteq stack[k]
    BY <1>10 DEF Goexit, Sleep, markVars
  <2>2. \A M : Complete(M)' => Complete(M)
    BY <2>1 DEF Complete
  <2> QED
    BY <1>1, <2>1, <2>2
<1>11. CASE \E objs \in SUBSET stack[g] : Park(g, objs) /\ UNCHANGED markVars
  <2>1. UNCHANGED <<field, global, marked, grey, stack>>
    BY <1>11 DEF Park, markVars
  <2>2. \A M : Complete(M)' => Complete(M)
    BY <2>1 DEF Complete
  <2> QED
    BY <1>1, <2>1, <2>2
<1>12. CASE \E o \in stack[g] : \E hs \in SUBSET queue[o], v \in Object \cup {Nil}, keep \in BOOLEAN :
              Dequeue(g, o, hs, v, keep) /\ WriteBarrier(Refs(v))
  <2> PICK o \in stack[g] : \E hs \in SUBSET queue[o], v \in Object \cup {Nil}, keep \in BOOLEAN :
              Dequeue(g, o, hs, v, keep) /\ WriteBarrier(Refs(v))
    BY <1>12
  <2> PICK hs \in SUBSET queue[o], v \in Object \cup {Nil}, keep \in BOOLEAN :
              Dequeue(g, o, hs, v, keep) /\ WriteBarrier(Refs(v))
    OBVIOUS
  <2>1. UNCHANGED <<field, global>> /\ \A k \in Goroutine : stack'[k] \subseteq stack[k] \cup Refs(v)
    BY DEF Dequeue
  <2> HIDE DEF Goal
  <2> QED
    BY <1>2, <1>8, <2>1
<1> HIDE DEF TypeInv, Goal
<1> QED
  BY <1>3, <1>4, <1>5, <1>6, <1>7, <1>9, <1>10, <1>11, <1>12 DEF Mutate

LEMMA MutatorTricolour ==
  ASSUME TypeInv, Memory, phase = "mark", Tricolour, Mutator
  PROVE  Tricolour'
<1>1. UNCHANGED <<stackRoots, markrootNext>>
  BY DEF Mutator, Others, rootVars
<1>2. Pending' = Pending
  BY <1>1 DEF Pending, nStackRoots
<1>3. CASE \E g \in Goroutine : Mutate(g)
  <2>1. PICK g \in Goroutine : Mutate(g)
    BY <1>3
  <2>2. /\ \A o \in marked' \ grey' : Refs(field'[o]) \subseteq marked'
        /\ 0 < markrootNext => Refs(global') \subseteq marked'
        /\ \A M \in SUBSET Object : Complete(M)' => \A h \in Goroutine \ Pending : stack'[h] \subseteq M
    BY <2>1, MutateTricolour
  <2>3. allocated \in SUBSET Object /\ allocated' \in SUBSET Object
    BY MutatorProgramTypeOK DEF TypeInv, TypeOK, ProgramTypeOK
  <2>4. Asleep({}) /\ Confines(allocated, {})
    BY DEF Asleep, Memory
  <2>5. allocated \subseteq allocated'
    BY <2>1, MutateAllocates
  <2>6. allocated' = allocated \cup (allocated' \ allocated) /\ marked \subseteq allocated
    BY <2>5 DEF Tricolour
  <2>7. ASSUME NEW N \in SUBSET Object, N = allocated'
        PROVE  marked' \subseteq N
    <3>1. N = allocated \cup (allocated' \ allocated) /\ {} \in SUBSET Goroutine
      BY <2>6, <2>7
    <3>2. \A o \in stack[g] : Running(g) => queue[o] \cap {} = {}
      OBVIOUS
    <3>3. phase = "mark" /\ marked \subseteq allocated => marked' \subseteq N
      BY <2>1, <2>3, <2>4, <3>1, <3>2, MutateConfined
    <3> QED
      BY <2>6, <3>3
  <2> QED
    BY <1>1, <1>2, <2>2, <2>3, <2>7 DEF Tricolour
<1>4. CASE /\ \E g \in Goroutine : WakeUp(g) \/ \E h \in Goroutine : Ready(g, h)
           /\ UNCHANGED markVars
  <2>1. UNCHANGED <<stack, field, global, allocated, marked, grey>>
    BY <1>4 DEF WakeUp, Ready, markVars
  <2>2. \A M : Complete(M)' => Complete(M)
    BY <2>1 DEF Complete
  <2> QED
    BY <1>1, <1>2, <2>1, <2>2 DEF Tricolour
<1> QED
  BY <1>3, <1>4 DEF Mutator

(* Once gcMarkDone is past the ragged barrier and has no goroutine left to *)
(* report, nothing can turn grey any more: everything the program refers   *)
(* to is marked, and new objects are black.                                *)
Drained == markDone.at = "stopped" \/ (markDone.at = "barrier" /\ Unclaimed = {}) => grey = {}

SafeInv ==
  /\ TypeInv
  /\ Memory
  /\ phase = "mark" => Tricolour
  /\ Drained

LEMMA SnapshotTaken ==
  ASSUME TypeInv, gcStart
  PROVE  /\ nStackRoots' \in Nat /\ DOMAIN stackRoots' = 1 .. nStackRoots' /\ markrootNext' = 0
         /\ {stackRoots'[i] : i \in 1 .. nStackRoots'} = {g \in Goroutine : status[g] # "_Gidle"}
         /\ \A i \in 1 .. nStackRoots' : i <= nValidStackRoots' <=> status[stackRoots'[i]] # "_Gwaiting"
<1>1. PICK len \in 0 .. Len(AllGs) :
        \E order \in [1 .. len -> DOMAIN AllGs], blockedIndex \in 0 .. len :
          /\ {order[j] : j \in 1 .. len} = {i \in DOMAIN AllGs : status[AllGs[i]] # "_Gidle"}
          /\ \A j \in 1 .. len : j <= blockedIndex <=> status[AllGs[order[j]]] # "_Gwaiting"
          /\ stackRoots' = [j \in 1 .. len |-> AllGs[order[j]]]
          /\ nValidStackRoots' = blockedIndex
  BY DEF gcStart, allGsSnapshotSortedForGC
<1>2. PICK order \in [1 .. len -> DOMAIN AllGs], blockedIndex \in 0 .. len :
          /\ {order[j] : j \in 1 .. len} = {i \in DOMAIN AllGs : status[AllGs[i]] # "_Gidle"}
          /\ \A j \in 1 .. len : j <= blockedIndex <=> status[AllGs[order[j]]] # "_Gwaiting"
          /\ stackRoots' = [j \in 1 .. len |-> AllGs[order[j]]]
          /\ nValidStackRoots' = blockedIndex
  BY <1>1
<1>3. len \in Nat /\ DOMAIN AllGs = 1 .. Len(AllGs)
  BY AllGsAssumption
<1>4. nStackRoots' = len /\ DOMAIN stackRoots' = 1 .. len
  BY <1>2, <1>3 DEF nStackRoots
<1>5. \A j \in 1 .. len : stackRoots'[j] = AllGs[order[j]] /\ order[j] \in DOMAIN AllGs
  BY <1>2
<1> DEFINE used == {i \in DOMAIN AllGs : status[AllGs[i]] # "_Gidle"}
<1>6. {AllGs[i] : i \in used} = {g \in Goroutine : status[g] # "_Gidle"}
  BY AllGsAssumption
<1>7. {stackRoots'[j] : j \in 1 .. len} = {AllGs[i] : i \in used}
  <2>1. {order[j] : j \in 1 .. len} = used
    BY <1>2
  <2> HIDE DEF used
  <2>2. \A j \in 1 .. len : stackRoots'[j] = AllGs[order[j]] /\ order[j] \in used
    BY <1>5, <2>1
  <2>3. ASSUME NEW i \in used
        PROVE  \E j \in 1 .. len : stackRoots'[j] = AllGs[i]
    <3>1. PICK j \in 1 .. len : order[j] = i
      BY <2>1
    <3> QED
      BY <2>2, <3>1
  <2>4. {stackRoots'[j] : j \in 1 .. len} \subseteq {AllGs[i] : i \in used}
    BY <2>2
  <2>5. {AllGs[i] : i \in used} \subseteq {stackRoots'[j] : j \in 1 .. len}
    BY <2>3
  <2> QED
    BY <2>4, <2>5
<1>8. \A i \in 1 .. len : i <= blockedIndex <=> status[stackRoots'[i]] # "_Gwaiting"
  BY <1>2, <1>5
<1> QED
  BY <1>2, <1>3, <1>4, <1>6, <1>7, <1>8 DEF gcStart

LEMMA StartSafe ==
  ASSUME SafeInv, gcStart
  PROVE  SafeInv'
<1> USE DEF SafeInv
<1>1. TypeInv'
  BY StartTypeInv
<1>2. UNCHANGED progVars /\ marked' = {} /\ grey' = {} /\ markrootNext' = 0
  BY DEF gcStart
<1>3. Memory'
  BY <1>2 DEF Memory, Confines, Closed, progVars
<1>4. \A g \in Goroutine \ Pending' : stack'[g] = {}
  <2>1. Pending' = {stackRoots'[i] : i \in {j \in 1 .. nStackRoots' : 0 <= j}}
    BY <1>2 DEF Pending
  <2>2. {j \in 1 .. nStackRoots' : 0 <= j} = 1 .. nStackRoots'
    BY SnapshotTaken
  <2>3. Pending' = {g \in Goroutine : status[g] # "_Gidle"}
    BY <2>1, <2>2, SnapshotTaken
  <2> QED
    BY <1>2, <2>3 DEF Memory, progVars
<1>5. Tricolour'
  <2>1. ~(0 < markrootNext')
    BY <1>2
  <2>2. \A M \in SUBSET Object : \A g \in Goroutine \ Pending' : stack'[g] \subseteq M
    BY <1>4
  <2> QED
    BY <1>2, <2>1, <2>2 DEF Tricolour
<1>6. Drained'
  BY <1>2 DEF Drained
<1> QED
  BY <1>1, <1>3, <1>5, <1>6

(* Scanning makes marked larger and takes from grey what it has looked at. *)
LEMMA MarkingSafe ==
  ASSUME SafeInv, MarkGlobals \/ MarkStack \/ \E o \in Object : ScanObject(o)
  PROVE  SafeInv'
<1> USE DEF SafeInv
<1>1. TypeInv'
  BY MarkingTypeInv
<1>2. UNCHANGED progVars /\ phase = "mark" /\ Tricolour /\ UNCHANGED <<phase, stackRoots, nValidStackRoots>>
  BY DEF MarkGlobals, MarkStack, ScanObject, rootVars
<1>3. Memory'
  BY <1>2 DEF Memory, Confines, Closed, progVars
<1>4. /\ UNCHANGED <<field, global, stack, allocated>>
      /\ Refs(global)' = Refs(global) /\ nStackRoots' = nStackRoots
  BY <1>2 DEF progVars, Refs, nStackRoots
<1>5. ASSUME marked \subseteq marked'
      PROVE  \A M \in SUBSET Object : Complete(M)' => Complete(M)
  BY <1>4, <1>5 DEF Complete
<1>6. Closed(allocated) /\ \A g \in Goroutine : stack[g] \subseteq allocated
  BY DEF Memory, Confines
<1>7. grey \subseteq marked
  BY DEF TypeInv, TypeOK
<1>11. Drained'
  <2>1. Unclaimed' = Unclaimed
    BY <1>2, <1>4 DEF Unclaimed
  <2>2. markDone' = markDone /\ markDone.at # "stopped"
    BY DEF MarkGlobals, MarkStack, ScanObject, WorldRuns
  <2>3. markDone.at = "barrier" => ~(MarkGlobals \/ MarkStack)
    BY Snapshot DEF MarkGlobals, MarkStack, TypeInv, Indices, markrootJobs
  <2>4. markDone.at = "barrier" /\ Unclaimed = {} => grey = {} /\ ~(\E o \in Object : ScanObject(o))
    BY DEF Drained, ScanObject
  <2> QED
    BY <2>1, <2>2, <2>3, <2>4 DEF Drained
<1>8. CASE MarkGlobals
  <2>1. markrootNext = 0 /\ markrootNext' = 1 /\ Shade(Refs(global))
    BY <1>8 DEF MarkGlobals
  <2>2. marked' = marked \cup Refs(global) /\ marked' \ grey' \subseteq marked \ grey
    BY <1>7, <2>1, ShadeMarks
  <2>3. Pending' = Pending
    <3>1. \A i \in 1 .. nStackRoots : 0 <= i /\ 1 <= i
      OBVIOUS
    <3> QED
      BY <1>2, <1>4, <2>1, <3>1 DEF Pending
  <2>4. marked' \subseteq allocated'
    BY <1>2, <1>4, <1>6, <2>2 DEF Tricolour, Closed
  <2>5. Tricolour'
    BY <1>2, <1>4, <1>5, <2>2, <2>3, <2>4 DEF Tricolour
  <2> QED
    BY <1>1, <1>3, <1>11, <2>5
<1>9. CASE MarkStack
  <2> DEFINE g == stackRoots[markrootNext]
  <2>1. 0 < markrootNext /\ markrootNext < markrootJobs /\ markrootNext' = markrootNext + 1 /\ Shade(stack[g])
    BY <1>9 DEF MarkStack
  <2>2. marked' = marked \cup stack[g] /\ marked' \ grey' \subseteq marked \ grey
    BY <1>7, <2>1, ShadeMarks
  <2>3. markrootNext \in 1 .. nStackRoots /\ g \in Goroutine
    BY <2>1, Snapshot DEF TypeInv, markrootJobs
  <2>4. \A i \in 1 .. nStackRoots : markrootNext <= i => i = markrootNext \/ markrootNext' <= i
    BY <2>1, <2>3
  <2>5. Pending \subseteq Pending' \cup {g}
    BY <1>2, <1>4, <2>4 DEF Pending
  <2>6. marked' \subseteq allocated' /\ Refs(global') \subseteq marked'
    BY <1>2, <1>4, <1>6, <2>1, <2>2, <2>3 DEF Tricolour
  <2>7. ASSUME NEW M \in SUBSET Object, Complete(M)', NEW h \in Goroutine \ Pending'
        PROVE  stack'[h] \subseteq M
    <3>1. Complete(M) /\ stack[g] \subseteq M
      BY <1>5, <2>2, <2>7 DEF Complete
    <3>2. h = g \/ h \notin Pending
      BY <2>5, <2>7
    <3> QED
      BY <1>2, <1>4, <3>1, <3>2 DEF Tricolour
  <2> HIDE DEF g
  <2>8. Tricolour'
    BY <1>2, <1>4, <2>2, <2>6, <2>7 DEF Tricolour
  <2> QED
    BY <1>1, <1>3, <1>11, <2>8
<1>10. ASSUME NEW o \in Object, ScanObject(o)
       PROVE  SafeInv'
  <2>1. /\ o \in grey /\ marked' = marked \cup Refs(field[o])
        /\ grey' = (grey \ {o}) \cup (Refs(field[o]) \ marked)
        /\ markrootNext' = markrootNext
    BY <1>10 DEF ScanObject, rootVars
  <2>2. Pending' = Pending
    BY <1>2, <1>4, <2>1 DEF Pending
  <2>3. \A p \in marked' \ grey' : p = o \/ p \in marked \ grey
    BY <2>1
  <2>4. \A p \in marked' \ grey' : Refs(field'[p]) \subseteq marked'
    BY <1>2, <1>4, <2>1, <2>3 DEF Tricolour
  <2>5. marked' \subseteq allocated'
    BY <1>2, <1>4, <1>6, <1>7, <2>1 DEF Tricolour, Closed
  <2>6. Tricolour'
    BY <1>2, <1>4, <1>5, <2>1, <2>2, <2>4, <2>5 DEF Tricolour
  <2> QED
    BY <1>1, <1>3, <1>11, <2>6
<1> QED
  BY <1>8, <1>9, <1>10

LEMMA RearrangedPending ==
  ASSUME TypeOK, Rearranged, markrootNext' = markrootNext
  PROVE  Pending' = Pending
<1>1. DOMAIN stackRoots = 1 .. nStackRoots /\ nStackRoots \in Nat /\ nValidStackRoots \in Nat
      /\ nValidStackRoots <= nStackRoots /\ markrootNext \in Nat /\ markrootNext <= 1 + nValidStackRoots
  BY Snapshot
<1>2. nStackRoots' = nStackRoots
  BY DEF Rearranged, nStackRoots
<1> DEFINE valid == {j \in 1 .. nValidStackRoots : markrootNext <= j}
           rest == (nValidStackRoots + 1) .. nStackRoots
<1>3. {j \in 1 .. nStackRoots : markrootNext <= j} = valid \cup rest
  BY <1>1
<1>4. \A i \in valid : stackRoots'[i] = stackRoots[i]
  BY DEF Rearranged
<1>5. {stackRoots'[i] : i \in rest} = {stackRoots[i] : i \in rest}
  BY DEF Rearranged, Unclaimed
<1>6. Pending' = {stackRoots'[i] : i \in valid \cup rest} /\ Pending = {stackRoots[i] : i \in valid \cup rest}
  BY <1>2, <1>3 DEF Pending
<1> HIDE DEF valid, rest
<1>7. {stackRoots'[i] : i \in valid \cup rest} = {stackRoots'[i] : i \in valid} \cup {stackRoots'[i] : i \in rest}
  OBVIOUS
<1>8. {stackRoots[i] : i \in valid \cup rest} = {stackRoots[i] : i \in valid} \cup {stackRoots[i] : i \in rest}
  OBVIOUS
<1>9. {stackRoots'[i] : i \in valid} = {stackRoots[i] : i \in valid}
  BY <1>4
<1> QED
  BY <1>5, <1>6, <1>7, <1>8, <1>9

(* When nothing is left to mark, the mark bits are a certificate: all that *)
(* the goroutines outside the masked rest can reach is marked.             *)
LEMMA MarkedConfines ==
  ASSUME SafeInv, phase = "mark", ~WorkAvailable
  PROVE  grey = {} /\ Pending = Unclaimed /\ Confines(marked, Unclaimed)
<1> USE DEF SafeInv
<1>1. nStackRoots \in Nat /\ nValidStackRoots \in Nat /\ nValidStackRoots <= nStackRoots
  BY Snapshot DEF TypeInv
<1>2. markrootNext = 1 + nValidStackRoots /\ grey = {}
  BY <1>1, Snapshot DEF WorkAvailable, markrootJobs, TypeInv
<1>3. {j \in 1 .. nStackRoots : markrootNext <= j} = (nValidStackRoots + 1) .. nStackRoots
  BY <1>1, <1>2
<1>4. Pending = Unclaimed
  BY <1>3 DEF Pending, Unclaimed
<1>5. Tricolour /\ marked \in SUBSET Object
  BY DEF TypeInv, TypeOK
<1>6. Closed(marked) /\ Complete(marked)
  BY <1>1, <1>2, <1>5 DEF Tricolour, Closed, Complete
<1>7. \A g \in Goroutine \ Unclaimed : stack[g] \subseteq marked
  BY <1>4, <1>5, <1>6 DEF Tricolour
<1> QED
  BY <1>2, <1>4, <1>6, <1>7 DEF Confines

LEMMA RearrangingSafe ==
  ASSUME SafeInv, Rearranged, UNCHANGED <<progVars, phase, markVars, markrootNext>>, TypeInv', Drained'
  PROVE  SafeInv'
<1> USE DEF SafeInv
<1>1. Pending' = Pending
  BY RearrangedPending DEF TypeInv
<1>2. Memory'
  BY DEF Memory, Confines, Closed, progVars
<1>3. UNCHANGED <<field, global, stack, allocated, marked, grey, phase, markrootNext>>
  BY DEF progVars, markVars
<1>4. \A M : Complete(M)' <=> Complete(M)
  BY <1>3 DEF Complete
<1>5. Tricolour => Tricolour'
  BY <1>1, <1>3, <1>4 DEF Tricolour
<1> QED
  BY <1>2, <1>3, <1>5

LEMMA DiscoverSafe ==
  ASSUME SafeInv, Discovering
  PROVE  SafeInv'
<1> USE DEF Discovering
<1>1. TypeInv'
  BY DiscoverTypeInv DEF SafeInv
<1>2. UNCHANGED <<progVars, phase, markVars, markrootNext>>
  BY DEF gcMarkDone, DiscoverFirst, DiscoverSwap, DiscoverPublish, MarkDoneReturns, PassBarrier, Restart,
         rootVars
<1>3. Rearranged
  <2>1. CASE DiscoverSwap
    BY <2>1, SwapRearranges DEF SafeInv
  <2>2. CASE ~DiscoverSwap
    <3>1. UNCHANGED stackRoots
      BY <2>2 DEF gcMarkDone, DiscoverFirst, DiscoverPublish, MarkDoneReturns, PassBarrier, Restart, rootVars
    <3> QED
      BY <3>1, Snapshot DEF Rearranged, Unclaimed, SafeInv, TypeInv
  <2> QED
    BY <2>1, <2>2
<1>4. Drained'
  <2>2. markDone'.at \in {"idle", "outer", "inner", "top"} \/ PassBarrier
    <3>1. markDone \in [at : {"idle", "outer", "inner", "top", "barrier", "stopped"},
                        v : 0 .. nStackRoots, iv : 0 .. nStackRoots]
      BY DEF SafeInv, TypeInv, TypeOK
    <3>2. CASE DiscoverFirst
      <4>1. \/ markDone' = [markDone EXCEPT !.v = @ + 1]
            \/ markDone' = [markDone EXCEPT !.at = "inner"]
        BY <3>2 DEF DiscoverFirst
      <4>2. markDone.at = "outer"
        BY <3>2 DEF DiscoverFirst
      <4> QED
        BY <3>1, <4>1, <4>2
    <3>3. CASE DiscoverSwap
      <4>1. \/ markDone'.at = "outer"
            \/ markDone' = [markDone EXCEPT !.iv = markDone.iv - 1]
        BY <3>3 DEF DiscoverSwap
      <4>2. markDone.at = "inner"
        BY <3>3 DEF DiscoverSwap
      <4> QED
        BY <3>1, <4>1, <4>2
    <3>4. CASE gcMarkDone \/ DiscoverPublish \/ MarkDoneReturns \/ Restart
      BY <3>4 DEF gcMarkDone, DiscoverPublish, MarkDoneReturns, Restart, Idle
    <3> QED
      BY <3>2, <3>3, <3>4
  <2>3. PassBarrier => grey' = {}
    BY DEF PassBarrier, WorkAvailable, markVars
  <2> QED
    BY <2>2, <2>3 DEF Drained
<1> QED
  BY <1>1, <1>2, <1>3, <1>4, RearrangingSafe

LEMMA DetectMoreSafe ==
  ASSUME SafeInv, DetectMore
  PROVE  SafeInv' /\ Rearranged
<1>1. TypeInv'
  BY DetectTypeInv DEF SafeInv
<1>2. UNCHANGED <<progVars, phase, markVars, markrootNext>>
  BY DEF DetectMore
<1>3. PICK count \in 1 .. (nStackRoots - nValidStackRoots) : FindMore(count)
  BY DEF DetectMore
<1>4. count \in Nat
  BY Snapshot DEF SafeInv, TypeInv
<1>5. Rearranged
  BY <1>3, <1>4, FindMoreRearranges DEF SafeInv, TypeInv
<1>6. Drained'
  BY DEF DetectMore, Drained, Idle
<1> QED
  BY <1>1, <1>2, <1>5, <1>6, RearrangingSafe

(* Everything reachable from objs is allocated if objs is, and closed.     *)
LEMMA ReachableClosed ==
  ASSUME ProgramTypeOK, Closed(allocated), NEW objs \in SUBSET Object, objs \subseteq allocated
  PROVE  /\ objs \subseteq Reachable(objs) /\ Reachable(objs) \subseteq allocated
         /\ \A o \in Reachable(objs) : Refs(field[o]) \subseteq Reachable(objs)
<1>1. objs \subseteq Reachable(objs)
  BY DEF Reachable
<1>2. Reachable(objs) \subseteq allocated
  BY DEF Reachable, Closed, ProgramTypeOK
<1>3. ASSUME NEW o \in Reachable(objs), NEW p \in Refs(field[o])
      PROVE  p \in Reachable(objs)
  <2>1. o \in Object /\ p \in Object
    BY <1>3, RefsType DEF Reachable, ProgramTypeOK
  <2>2. ASSUME NEW M \in SUBSET Object, objs \subseteq M, \A q \in M : Refs(field[q]) \subseteq M
        PROVE  p \in M
    BY <2>2 DEF Reachable
  <2> QED
    BY <2>1, <2>2 DEF Reachable
<1> QED
  BY <1>1, <1>2, <1>3

LEMMA DetectReportSafe ==
  ASSUME SafeInv, DetectReport
  PROVE  SafeInv'
<1> USE DEF SafeInv
<1>1. TypeInv'
  BY DetectTypeInv
<1>2. /\ phase = "mark" /\ markDone.at = "barrier"
      /\ UNCHANGED <<phase, stackRoots>> /\ markrootNext' = 1 + nStackRoots
      /\ UNCHANGED <<field, global, allocated>>
      /\ \A o \in Object : queue'[o] \subseteq queue[o]
      /\ \A g \in Goroutine : status'[g] = "_Gidle" => status[g] = "_Gidle"
      /\ \A g \in Goroutine \ Unclaimed : stack'[g] = stack[g]
  <2>1. queue \in [Object -> SUBSET Goroutine] /\ stack \in [Goroutine -> SUBSET Object]
    BY DEF TypeInv, TypeOK, ProgramTypeOK
  <2>2. phase = "mark" /\ markDone.at = "barrier"
    BY DEF DetectReport, WorldStops, TypeInv, TypeOK, Indices, Idle
  <2> QED
    BY <2>1, <2>2 DEF DetectReport, Recycle, Keep
<1>3. /\ Unclaimed \subseteq Goroutine
      /\ nStackRoots \in Nat /\ nValidStackRoots \in Nat /\ nValidStackRoots <= nStackRoots
      /\ markrootNext = 1 + nValidStackRoots
  BY <1>2, Snapshot DEF TypeInv, Indices, markrootJobs
<1>4. Closed(allocated) /\ \A g \in Goroutine : stack[g] \subseteq allocated
  BY DEF Memory, Confines
<1>5. PICK roots \in SUBSET Object :
        /\ roots \subseteq allocated
        /\ \A g \in Unclaimed : stack'[g] \subseteq stack[g] /\ stack'[g] \subseteq roots
        /\ \/ Unclaimed = {} /\ UNCHANGED markVars
           \/ marked' = marked \cup Reachable(grey \cup roots) /\ grey' = {}
  <2> DEFINE all == UNION {stack[g] : g \in Unclaimed}
  <2>1. all \in SUBSET Object /\ all \subseteq allocated /\ \A g \in Unclaimed : stack[g] \subseteq all
    BY <1>3, <1>4 DEF TypeInv, TypeOK, ProgramTypeOK
  <2> HIDE DEF all
  <2>2. CASE gcdetectdeadlocks = 1
    <3>1. \A g \in Unclaimed : stack'[g] = {}
      BY <1>3, <2>2 DEF DetectReport, Recycle
    <3>2. \/ Unclaimed = {} /\ UNCHANGED markVars
          \/ marked' = marked \cup Reachable(grey \cup {}) /\ grey' = {}
      BY <2>2 DEF DetectReport, DrainReported
    <3> QED
      BY <3>1, <3>2
  <2>3. CASE gcdetectdeadlocks # 1
    <3>1. UNCHANGED stack
      BY <2>3 DEF DetectReport, Keep
    <3>2. \/ Unclaimed = {} /\ UNCHANGED markVars
          \/ marked' = marked \cup Reachable(grey \cup all) /\ grey' = {}
      BY <2>3 DEF DetectReport, DrainReported, all
    <3> QED
      BY <2>1, <3>1, <3>2
  <2> QED
    BY <2>2, <2>3
<1>6. \A g \in Goroutine : stack'[g] \subseteq stack[g]
  BY <1>2, <1>5
<1>7. Memory'
  BY <1>2, <1>4, <1>6 DEF Memory, Confines, Closed
<1>8. Tricolour /\ grey \subseteq marked /\ marked \subseteq allocated /\ marked \in SUBSET Object
  BY <1>2 DEF TypeInv, TypeOK, Tricolour
<1>9. Refs(global) \subseteq marked
  <2>1. 0 < markrootNext
    BY <1>3
  <2> QED
    BY <1>8, <2>1 DEF Tricolour
<1>10. Pending = Unclaimed
  <2>1. {j \in 1 .. nStackRoots : markrootNext <= j} = (nValidStackRoots + 1) .. nStackRoots
    BY <1>3
  <2> QED
    BY <2>1 DEF Pending, Unclaimed
<1>11. /\ grey' = {} /\ marked \subseteq marked' /\ marked' \subseteq allocated
       /\ \A o \in marked' : Refs(field[o]) \subseteq marked'
       /\ \A g \in Unclaimed : stack'[g] \subseteq marked'
  <2>1. CASE Unclaimed = {} /\ UNCHANGED markVars
    <3>1. grey = {} /\ grey' = {} /\ marked' = marked
      BY <1>2, <2>1 DEF Drained, markVars
    <3> QED
      BY <1>8, <2>1, <3>1 DEF Tricolour
  <2>2. CASE marked' = marked \cup Reachable(grey \cup roots) /\ grey' = {}
    <3>1. grey \cup roots \in SUBSET Object /\ grey \cup roots \subseteq allocated /\ ProgramTypeOK
      BY <1>5, <1>8 DEF TypeInv, TypeOK
    <3>2. /\ grey \cup roots \subseteq Reachable(grey \cup roots)
          /\ Reachable(grey \cup roots) \subseteq allocated
          /\ \A o \in Reachable(grey \cup roots) : Refs(field[o]) \subseteq Reachable(grey \cup roots)
      BY <1>4, <3>1, ReachableClosed
    <3>3. \A o \in marked \ grey : Refs(field[o]) \subseteq marked
      BY <1>8 DEF Tricolour
    <3>4. PICK R : R = Reachable(grey \cup roots)
      OBVIOUS
    <3> HIDE DEF SafeInv
    <3>5. /\ marked' = marked \cup R /\ grey \subseteq R /\ roots \subseteq R /\ R \subseteq allocated
          /\ \A o \in R : Refs(field[o]) \subseteq R
      BY <2>2, <3>2, <3>4
    <3>6. \A g \in Unclaimed : stack'[g] \subseteq roots
      BY <1>5
    <3>7. \A o \in marked' : Refs(field[o]) \subseteq marked'
      BY <3>3, <3>5
    <3> QED
      BY <1>8, <2>2, <3>5, <3>6, <3>7
  <2> QED
    BY <1>5, <2>1, <2>2
<1>12. \A g \in Goroutine : stack'[g] \subseteq marked'
  <2>1. Complete(marked')
    BY <1>9, <1>11 DEF Complete
  <2>3. marked' \in SUBSET Object
    BY <1>1 DEF TypeInv, TypeOK
  <2>2. \A g \in Goroutine \ Unclaimed : stack[g] \subseteq marked'
    BY <1>8, <1>10, <2>1, <2>3 DEF Tricolour
  <2> QED
    BY <1>2, <1>11, <2>2
<1>13. \A M \in SUBSET Object : Complete(M)' => \A g \in Goroutine : stack'[g] \subseteq M
  BY <1>12 DEF Complete
<1>14. Tricolour'
  BY <1>2, <1>9, <1>11, <1>13 DEF Tricolour
<1>15. Drained'
  BY <1>11 DEF Drained
<1> QED
  BY <1>1, <1>7, <1>14, <1>15 DEF SafeInv

LEMMA MarkTerminationSafe ==
  ASSUME SafeInv, MarkTermination
  PROVE  SafeInv' /\ Confines(marked, {}) /\ Free(allocated \ marked)
<1> USE DEF SafeInv
<1>1. TypeInv'
  BY DetectTypeInv
<1>2. /\ phase = "mark" /\ ~WorkAvailable /\ detectedDeadlocks /\ phase' = "off"
      /\ Free(allocated \ marked) /\ markDone' = Idle
  BY DEF MarkTermination, TypeInv, TypeOK, Indices, Idle
<1>3. Unclaimed = {}
  <2>1. nValidStackRoots = nStackRoots /\ nStackRoots \in Nat
    BY <1>2, Snapshot DEF TypeInv, Indices
  <2>2. (nStackRoots + 1) .. nStackRoots = {}
    BY <2>1
  <2> QED
    BY <2>1, <2>2 DEF Unclaimed
<1>4. Confines(marked, {})
  BY <1>2, <1>3, MarkedConfines
<1>5. allocated' = marked /\ UNCHANGED <<status, stack, queue, field, global>>
  BY <1>2, <1>4 DEF Free, Confines, Closed
<1>6. Memory'
  BY <1>4, <1>5 DEF Memory, Confines, Closed
<1>7. Drained'
  BY <1>2 DEF Drained, Idle
<1> QED
  BY <1>1, <1>2, <1>4, <1>6, <1>7

(* Past the ragged barrier, with no goroutine masked, all that a goroutine *)
(* can shade is marked already.                                            *)
LEMMA MutateGrey ==
  ASSUME NEW g \in Goroutine, Mutate(g)
  PROVE  grey' \subseteq grey \cup (marked' \ (marked \cup (allocated' \ allocated)))
<1>1. ASSUME NEW objs, WriteBarrier(objs) \/ UNCHANGED markVars, allocated' = allocated
      PROVE  grey' \subseteq grey \cup (marked' \ (marked \cup (allocated' \ allocated)))
  BY <1>1 DEF WriteBarrier, Shade, markVars
<1>2. CASE \E o \in Object : New(g, o) /\ AllocateBlack(o)
  BY <1>2 DEF AllocateBlack
<1>3. CASE \E o \in Object : (Load(g, o) \/ Forget(g, o)) /\ UNCHANGED markVars
  BY <1>1, <1>3 DEF Load, Forget
<1>4. CASE (LoadGlobal(g) \/ Goexit(g) \/ Sleep(g)) /\ UNCHANGED markVars
  BY <1>1, <1>4 DEF LoadGlobal, Goexit, Sleep
<1>5. CASE \/ \E o \in Object, v \in Object \cup {Nil} :
                Store(g, o, v) /\ WriteBarrier(Refs(v) \cup Refs(field[o]))
           \/ \E v \in Object \cup {Nil} : StoreGlobal(g, v) /\ WriteBarrier(Refs(v) \cup Refs(global))
  BY <1>1, <1>5 DEF Store, StoreGlobal
<1>6. CASE \/ \E h \in Goroutine, args \in SUBSET stack[g] : Go(g, h, args) /\ WriteBarrier(args)
           \/ \E objs \in SUBSET stack[g] : Park(g, objs) /\ UNCHANGED markVars
  BY <1>1, <1>6 DEF Go, Park
<1>7. CASE \E o \in stack[g] : \E hs \in SUBSET queue[o], v \in Object \cup {Nil}, keep \in BOOLEAN :
             Dequeue(g, o, hs, v, keep) /\ WriteBarrier(Refs(v))
  BY <1>1, <1>7 DEF Dequeue
<1> QED
  BY <1>2, <1>3, <1>4, <1>5, <1>6, <1>7 DEF Mutate

LEMMA MutatorDrained ==
  ASSUME SafeInv, Mutator
  PROVE  Drained'
<1>1. UNCHANGED <<markDone, stackRoots, nValidStackRoots, phase>> /\ markDone.at # "stopped"
  BY DEF Mutator, Others, rootVars, WorldRuns
<1>2. Unclaimed' = Unclaimed
  BY <1>1 DEF Unclaimed, nStackRoots
<1>3. ASSUME markDone.at = "barrier", Unclaimed = {}
      PROVE  grey' = {}
  <2>1. grey = {} /\ phase = "mark"
    BY <1>3 DEF SafeInv, Drained, TypeInv, TypeOK, Indices, Idle
  <2>2. ~WorkAvailable
    BY <1>3, <2>1, Snapshot DEF SafeInv, TypeInv, Indices, WorkAvailable, markrootJobs
  <2>3. Confines(marked, {}) /\ Asleep({}) /\ TypeInv
    BY <1>3, <2>1, <2>2, MarkedConfines DEF Asleep, SafeInv
  <2>4. CASE \E g \in Goroutine : Mutate(g)
    <3>1. PICK g \in Goroutine : Mutate(g)
      BY <2>4
    <3>2. PICK N : N = marked \cup (allocated' \ allocated)
      OBVIOUS
    <3>3. marked \in SUBSET Object /\ N \in SUBSET Object /\ {} \in SUBSET Goroutine
      BY <3>2, MutatorProgramTypeOK DEF SafeInv, TypeInv, TypeOK, ProgramTypeOK
    <3>4. \A o \in stack[g] : Running(g) => queue[o] \cap {} = {}
      OBVIOUS
    <3>5. phase = "mark" /\ marked \subseteq marked => marked' \subseteq N
      BY <2>3, <3>1, <3>2, <3>3, <3>4, MutateConfined
    <3>6. grey' \subseteq grey \cup (marked' \ N)
      BY <3>1, <3>2, MutateGrey
    <3> QED
      BY <2>1, <3>5, <3>6
  <2>5. CASE UNCHANGED markVars
    BY <2>1, <2>5 DEF markVars
  <2> QED
    BY <2>4, <2>5 DEF Mutator
<1> QED
  BY <1>1, <1>2, <1>3 DEF Drained

LEMMA InitSafe == Init => SafeInv
<1> SUFFICES ASSUME Init
             PROVE  SafeInv
  OBVIOUS
<1>1. TypeInv
  BY InitTypeInv
<1>2. Confines(allocated, {})
  BY DEF Init, ContractInit, Confines
<1>3. \A g \in Goroutine : status[g] = "_Gidle" => stack[g] = {} /\ \A o \in Object : g \notin queue[o]
  BY DEF Init, ContractInit
<1>4. Drained
  BY DEF Init, Drained
<1> QED
  BY <1>1, <1>2, <1>3, <1>4 DEF Init, SafeInv, Memory

LEMMA NextSafe == SafeInv /\ [Next]_vars => SafeInv'
<1> SUFFICES ASSUME SafeInv, [Next]_vars
             PROVE  SafeInv'
  OBVIOUS
<1>1. CASE Mutator
  <2>1. phase' = phase
    BY <1>1 DEF Mutator, Others
  <2> QED
    BY <1>1, <2>1, MutatorTypeInv, MutatorMemory, MutatorTricolour, MutatorDrained DEF SafeInv
<1>2. CASE gcStart
  BY <1>2, StartSafe
<1>3. CASE Marking
  BY <1>3, MarkingSafe, DiscoverSafe, DetectMoreSafe, DetectReportSafe, MarkTerminationSafe
  DEF Marking, Draining, Finishing, Discovering
<1>4. CASE UNCHANGED vars
  <2>1. TypeInv'
    BY <1>4, NextTypeInv DEF SafeInv
  <2>2. UNCHANGED <<progVars, phase, markVars, markrootNext, stackRoots>>
    BY <1>4 DEF vars, gcVars, markVars
  <2>3. Rearranged
    BY <2>2, Snapshot DEF Rearranged, Unclaimed, SafeInv, TypeInv
  <2>4. Drained'
    BY <1>4 DEF vars, gcVars, SafeInv, Drained, Unclaimed, nStackRoots
  <2> QED
    BY <2>1, <2>2, <2>3, <2>4, RearrangingSafe
<1> QED
  BY <1>1, <1>2, <1>3, <1>4 DEF Next

-----------------------------------------------------------------------------
(* Every step is one the contract allows, if wakers cannot be preempted    *)
(* between taking a goroutine off its queue and readying it, and until a   *)
(* report is made while objects are grey.                                  *)
LEMMA ReportContract ==
  ASSUME ~PreemptibleWake, SafeInv, DetectReport, ~hasty'
  PROVE  Report(Unclaimed)
<1>1. /\ phase = "mark" /\ markDone.at = "barrier" /\ CanStopTheWorld
      /\ \A g \in Unclaimed : Blocked(g)
      /\ Recycle(Unclaimed) \/ Keep(Unclaimed)
  BY DEF DetectReport, WorldStops, SafeInv, TypeInv, TypeOK, Indices, Idle
<1>2. \A g \in Unclaimed : status[g] = "_Gwaiting" /\ waitingOn[g] \cap marked = {}
  BY <1>1 DEF Blocked, StackRootValid
<1>3. BeingWoken = {}
  BY <1>1 DEF CanStopTheWorld
<1>4. grey = {}
  <2>1. grey = {} \/ Unclaimed = {}
    BY DEF DetectReport
  <2> QED
    BY <1>1, <2>1 DEF SafeInv, Drained
<1>5. ~WorkAvailable
  BY <1>1, <1>4, Snapshot DEF WorkAvailable, SafeInv, TypeInv, Indices, markrootJobs
<1>6. Confines(marked, Unclaimed) /\ marked \in SUBSET Object
  BY <1>1, <1>5, MarkedConfines DEF SafeInv, TypeInv, TypeOK
<1>7. Certifies(marked, Unclaimed)
  BY <1>2, <1>6 DEF Confines, Certifies
<1> QED
  BY <1>1, <1>2, <1>3, <1>6, <1>7 DEF Report

LEMMA FreeContract ==
  ASSUME SafeInv, MarkTermination
  PROVE  FreeGarbage(allocated \ marked)
<1>1. Confines(marked, {}) /\ Free(allocated \ marked)
  BY MarkTerminationSafe
<1>2. marked \in SUBSET Object /\ marked \cap (allocated \ marked) = {}
  BY DEF SafeInv, TypeInv, TypeOK
<1>3. Closed(marked) /\ \A g \in Goroutine : stack[g] \subseteq marked
  BY <1>1 DEF Confines
<1> QED
  BY <1>1, <1>2, <1>3 DEF FreeGarbage

LEMMA NextContract ==
  ASSUME ~PreemptibleWake, SafeInv, [Next]_vars, ~hasty'
  PROVE  [ContractNext]_progVars
<1> USE DEF progVars
<1>1. CASE Mutator
  <2>1. ProgramTypeOK
    BY DEF SafeInv, TypeInv, TypeOK
  <2> QED
    BY <1>1, <2>1, MutatorProgram DEF ContractNext
<1>2. CASE UNCHANGED progVars
  BY <1>2 DEF progVars
<1>3. CASE DetectReport
  <2>1. Unclaimed \in SUBSET Goroutine
    BY Snapshot DEF SafeInv, TypeInv
  <2> QED
    BY <1>3, <2>1, ReportContract DEF ContractNext
<1>4. CASE MarkTermination
  <2>1. allocated \ marked \in SUBSET Object
    BY DEF SafeInv, TypeInv, TypeOK, ProgramTypeOK
  <2> QED
    BY <1>4, <2>1, FreeContract DEF ContractNext
<1>5. gcStart \/ MarkGlobals \/ MarkStack \/ (\E o \in Object : ScanObject(o)) \/ gcMarkDone
        \/ DiscoverFirst \/ DiscoverSwap \/ DiscoverPublish \/ MarkDoneReturns \/ PassBarrier
        \/ Restart \/ DetectMore
        => UNCHANGED progVars
  BY DEF gcStart, MarkGlobals, MarkStack, ScanObject, gcMarkDone, DiscoverFirst, DiscoverSwap,
         DiscoverPublish, MarkDoneReturns, PassBarrier, Restart, DetectMore
<1>6. UNCHANGED vars => UNCHANGED progVars
  BY DEF vars
<1> QED
  BY <1>1, <1>2, <1>3, <1>4, <1>5, <1>6 DEF Next, Marking, Draining, Finishing

-----------------------------------------------------------------------------
(* What the contract's invariant says of queues: a goroutine that can be   *)
(* taken off a queue of something a running goroutine refers to is waiting *)
(* there.                                                                  *)
LEMMA QueuedIsWaiting ==
  ASSUME ContractInv, ProgramTypeOK
  PROVE  /\ \A g, h \in Goroutine : \A o \in stack[g] :
              status[g] = "_Grunning" /\ h \in queue[o] => o \in waitingOn[h]
         /\ \A g \in Goroutine : waitingOn[g] \subseteq stack[g]
<1>1. PICK M \in SUBSET Object : Separates(M)
  BY DEF ContractInv
<1>2. \A g, h \in Goroutine : \A o \in stack[g] :
              status[g] = "_Grunning" /\ h \in queue[o] => o \in waitingOn[h]
  <2> SUFFICES ASSUME NEW g \in Goroutine, NEW h \in Goroutine, NEW o \in stack[g],
                      status[g] = "_Grunning", h \in queue[o]
               PROVE  o \in waitingOn[h]
    OBVIOUS
  <2>1. o \in M
    BY <1>1 DEF Separates
  <2> QED
    BY <1>1, <2>1 DEF Separates
<1>3. \A g \in Goroutine : waitingOn[g] \subseteq stack[g]
  BY DEF ContractInv, SemaQueues
<1> QED
  BY <1>2, <1>3

(* The goroutines that were doomed when the cycle started stay behind the  *)
(* valid roots: a set M secludes them that holds all that is ever marked   *)
(* and nothing they wait for.                                              *)
Secludes(M) ==
  /\ Confines(M, doomed) /\ Asleep(doomed)
  /\ marked \subseteq M
  /\ \A g \in doomed : waitingOn[g] \cap M = {}

Masked(g) ==
  /\ \E i \in 1 .. nStackRoots : stackRoots[i] = g
  /\ \A i \in 1 .. nStackRoots :
       i <= nValidStackRoots \/ (Scanning /\ i <= markDone.v) => stackRoots[i] # g

DoomedMasked ==
  /\ \A g \in doomed : Masked(g)
  /\ \E M \in SUBSET Object : Secludes(M)

DoomedReported == detectedDeadlocks => doomed \subseteq reported

DoomInv ==
  /\ phase = "mark" /\ ~detectedDeadlocks => DoomedMasked
  /\ DoomedReported

FullInv == SafeInv /\ (hasty \/ (ContractInv /\ DoomInv))

LEMMA MutatorDoom ==
  ASSUME SafeInv, ContractInv, DoomInv, Mutator
  PROVE  DoomInv'
<1> USE DEF SafeInv, TypeInv, TypeOK
<1>1. UNCHANGED <<phase, stackRoots, nValidStackRoots, detectedDeadlocks, markDone, doomed, reported>>
  BY DEF Mutator, Others, rootVars
<1>2. DoomedReported'
  BY <1>1 DEF DoomInv, DoomedReported
<1>3. ASSUME phase = "mark", ~detectedDeadlocks
      PROVE  DoomedMasked'
  <2>1. \A g \in doomed : Masked(g)'
    BY <1>1, <1>3 DEF DoomInv, DoomedMasked, Masked, Scanning, nStackRoots
  <2>2. PICK M \in SUBSET Object : Secludes(M)
    BY <1>3 DEF DoomInv, DoomedMasked
  <2>3. doomed \in SUBSET Goroutine /\ \A g \in doomed : waitingOn[g] \subseteq allocated
    BY QueuedIsWaiting DEF Memory, Confines
  <2>4. CASE \E g \in Goroutine : Mutate(g)
    <3>1. PICK g \in Goroutine : Mutate(g)
      BY <2>4
    <3>2. \A o \in stack[g] : Running(g) => queue[o] \cap doomed = {}
      <4> SUFFICES ASSUME NEW o \in stack[g], Running(g), NEW h \in doomed, h \in queue[o]
                   PROVE  FALSE
        OBVIOUS
      <4>1. o \in waitingOn[h]
        BY <2>3, QueuedIsWaiting DEF Running
      <4>2. g \notin doomed
        BY <2>2 DEF Secludes, Asleep, Running
      <4>3. o \in M
        BY <2>2, <4>2 DEF Secludes, Confines
      <4> QED
        BY <2>2, <4>1, <4>3 DEF Secludes
    <3>3. PICK N : N = M \cup (allocated' \ allocated)
      OBVIOUS
    <3>4. N \in SUBSET Object
      BY <3>3, MutatorProgramTypeOK DEF ProgramTypeOK
    <3>5. Confines(M, doomed) /\ Asleep(doomed) /\ marked \subseteq M
      BY <2>2 DEF Secludes
    <3> HIDE DEF TypeInv
    <3>6. ASSUME NEW D \in SUBSET Goroutine, D = doomed
          PROVE  /\ Confines(N, D)' /\ Asleep(D)'
                 /\ \A h \in D : waitingOn'[h] = waitingOn[h]
                 /\ marked' \subseteq N
      <4>1. Confines(M, D) /\ Asleep(D)
        BY <3>5, <3>6 DEF Confines, Asleep
      <4>2. \A o \in stack[g] : Running(g) => queue[o] \cap D = {}
        BY <3>2, <3>6
      <4>3. TypeInv
        OBVIOUS
      <4> HIDE DEF SafeInv
      <4>4. /\ Confines(N, D)' /\ Asleep(D)'
            /\ \A h \in D : waitingOn'[h] = waitingOn[h]
            /\ phase = "mark" /\ marked \subseteq M => marked' \subseteq N
        BY <3>1, <3>3, <3>4, <4>1, <4>2, <4>3, MutateConfined
      <4> QED
        BY <1>3, <3>5, <4>4
    <3>7. Confines(N, doomed)' /\ Asleep(doomed)'
      BY <1>1, <2>3, <3>6 DEF Confines, Asleep
    <3>8. \A h \in doomed : waitingOn'[h] \cap N = {}
      BY <2>2, <2>3, <3>3, <3>6 DEF Secludes
    <3>9. Secludes(N)'
      BY <1>1, <2>3, <3>6, <3>7, <3>8 DEF Secludes
    <3> QED
      BY <1>1, <2>1, <3>4, <3>9 DEF DoomedMasked
  <2>5. CASE /\ \E g \in Goroutine : WakeUp(g) \/ \E h \in Goroutine : Ready(g, h)
             /\ UNCHANGED markVars
    <3>1. UNCHANGED <<stack, field, global, allocated, marked>>
      BY <2>5 DEF WakeUp, Ready, markVars
    <3> HIDE DEF TypeInv
    <3>2. Asleep(doomed)
      BY <2>2 DEF Secludes
    <3>3. /\ \A D \in SUBSET Goroutine : D = doomed => Asleep(D)'
          /\ \A h \in doomed : waitingOn'[h] = waitingOn[h]
      BY <2>3, <2>5, <3>2, WakingConfined
    <3>4. Asleep(doomed)'
      BY <1>1, <2>3, <3>3 DEF Asleep
    <3>5. Confines(M, doomed)'
      BY <1>1, <2>2, <3>1 DEF Secludes, Confines, Closed
    <3>6. Secludes(M)'
      BY <1>1, <2>2, <3>1, <3>3, <3>4, <3>5 DEF Secludes
    <3> QED
      BY <1>1, <2>1, <3>6 DEF DoomedMasked
  <2> QED
    BY <2>4, <2>5 DEF Mutator
<1> QED
  BY <1>1, <1>2, <1>3 DEF DoomInv

(* When a cycle starts, what all the certificates have in common, within   *)
(* the allocated objects, secludes all the doomed goroutines at once.      *)
LEMMA StartDoom ==
  ASSUME SafeInv, gcStart
  PROVE  DoomInv'
<1> USE DEF SafeInv
<1>1. /\ UNCHANGED progVars /\ phase = "off" /\ doomed' = Doomed /\ marked' = {}
      /\ detectedDeadlocks' = FALSE /\ markDone' = markDone
  BY DEF gcStart
<1>2. ~Scanning'
  BY <1>1 DEF TypeInv, Indices, Idle, Scanning
<1>3. \A g \in Doomed : g \in Goroutine /\ status[g] = "_Gwaiting" /\ g \notin BeingWoken
  BY DEF Doomed
<1>4. ASSUME NEW g \in Doomed
      PROVE  Masked(g)'
  <2>1. g \in {stackRoots'[i] : i \in 1 .. nStackRoots'}
    BY <1>3, SnapshotTaken
  <2>2. \A i \in 1 .. nStackRoots' : i <= nValidStackRoots' => stackRoots'[i] # g
    BY <1>3, SnapshotTaken
  <2> QED
    BY <1>2, <2>1, <2>2 DEF Masked
<1> DEFINE Certificate(D, M) ==
             /\ Closed(M)
             /\ \A g \in Goroutine \ D : stack[g] \subseteq M
             /\ \A g \in D : waitingOn[g] \cap M = {}
           Candidates == SUBSET {g \in Goroutine : status[g] = "_Gwaiting" /\ g \notin BeingWoken}
           Common == {o \in allocated : \A D \in Candidates, M \in SUBSET Object :
                        Certificate(D, M) => o \in M}
<1>5. /\ \A g \in Doomed : \E D \in Candidates, M \in SUBSET Object : Certificate(D, M) /\ g \in D
      /\ \A D \in Candidates, M \in SUBSET Object : Certificate(D, M) => D \subseteq Doomed
  BY DEF Doomed
<1>6. allocated \in SUBSET Object /\ Closed(allocated) /\ \A g \in Goroutine : stack[g] \subseteq allocated
  BY DEF TypeInv, TypeOK, ProgramTypeOK, Memory, Confines
<1> HIDE DEF SafeInv, Candidates
<1>7. Closed(Common)
  BY <1>6 DEF Closed
<1>8. \A g \in Goroutine \ Doomed : stack[g] \subseteq Common
  BY <1>5, <1>6
<1>9. \A g \in Doomed : waitingOn[g] \cap Common = {}
  BY <1>5
<1>10. PICK M \in SUBSET Object : M = Common
  BY <1>6
<1>11. Secludes(M)'
  <2>1. Closed(M)' /\ Asleep(doomed)'
    BY <1>1, <1>3, <1>7, <1>10 DEF Closed, Asleep, BeingWoken, progVars, Refs
  <2>2. \A g \in Goroutine \ doomed' : stack'[g] \subseteq M
    BY <1>1, <1>8, <1>10 DEF progVars
  <2>3. \A g \in doomed' : waitingOn'[g] \cap M = {}
    BY <1>1, <1>9, <1>10 DEF progVars
  <2> QED
    BY <1>1, <2>1, <2>2, <2>3 DEF Secludes, Confines
<1>12. DoomedMasked'
  BY <1>1, <1>4, <1>11 DEF DoomedMasked
<1> QED
  BY <1>1, <1>12 DEF DoomInv, DoomedReported

LEMMA DoomedBlocked ==
  ASSUME DoomedMasked
  PROVE  \A g \in doomed : StackRootValid(g) = {FALSE} /\ Blocked(g)
<1>1. PICK M \in SUBSET Object : Secludes(M)
  BY DEF DoomedMasked
<1>2. \A g \in doomed : status[g] = "_Gwaiting" /\ waitingOn[g] \cap marked = {}
  BY <1>1 DEF Secludes, Asleep
<1> QED
  BY <1>2 DEF StackRootValid, Blocked

(* Marking stays inside the set that secludes the doomed goroutines.       *)
LEMMA MarkingDoom ==
  ASSUME SafeInv, DoomInv, MarkGlobals \/ MarkStack \/ \E o \in Object : ScanObject(o)
  PROVE  DoomInv'
<1>1. /\ UNCHANGED <<progVars, phase, stackRoots, nValidStackRoots, detectedDeadlocks, markDone,
                     doomed, reported>>
      /\ phase = "mark"
  BY DEF MarkGlobals, MarkStack, ScanObject, rootVars
<1>2. DoomedReported'
  BY <1>1 DEF DoomInv, DoomedReported
<1>3. ASSUME ~detectedDeadlocks
      PROVE  DoomedMasked'
  <2>1. \A g \in doomed : Masked(g)
    BY <1>1, <1>3 DEF DoomInv, DoomedMasked
  <2>2. \A g \in doomed' : Masked(g)'
    BY <1>1, <2>1 DEF Masked, Scanning, nStackRoots
  <2>3. PICK M \in SUBSET Object : Secludes(M)
    BY <1>1, <1>3 DEF DoomInv, DoomedMasked
  <2>4. marked' \subseteq M
    <3>1. CASE MarkGlobals
      BY <2>3, <3>1 DEF MarkGlobals, Shade, Secludes, Confines, Closed
    <3>2. CASE MarkStack
      <4> DEFINE g == stackRoots[markrootNext]
      <4>1. markrootNext \in 1 .. nStackRoots /\ markrootNext <= nValidStackRoots /\ g \in Goroutine
        BY <3>2, Snapshot DEF SafeInv, TypeInv, MarkStack, markrootJobs
      <4>2. g \notin doomed
        BY <2>1, <4>1 DEF Masked
      <4>3. stack[g] \subseteq M
        BY <2>3, <4>1, <4>2 DEF Secludes, Confines
      <4> QED
        BY <2>3, <3>2, <4>3 DEF MarkStack, Shade, Secludes
    <3>3. CASE \E o \in Object : ScanObject(o)
      <4>1. PICK o \in Object : ScanObject(o)
        BY <3>3
      <4>2. o \in marked
        BY <4>1 DEF ScanObject, SafeInv, TypeInv, TypeOK
      <4> QED
        BY <2>3, <4>1, <4>2 DEF ScanObject, Secludes, Confines, Closed
    <3> QED
      BY <3>1, <3>2, <3>3
  <2>5. Secludes(M)'
    BY <1>1, <2>3, <2>4 DEF Secludes, Confines, Closed, Asleep, BeingWoken, Refs, progVars
  <2> QED
    BY <2>2, <2>5 DEF DoomedMasked
<1> QED
  BY <1>1, <1>2, <1>3 DEF DoomInv

(* Entries of the snapshot are moved behind the valid roots only.          *)
LEMMA MaskedKept ==
  ASSUME TypeOK, Rearranged, NEW g \in Goroutine, Masked(g),
         \A i \in (nValidStackRoots + 1) .. nStackRoots :
           i <= nValidStackRoots' \/ (Scanning' /\ i <= markDone'.v) => stackRoots'[i] # g
  PROVE  Masked(g)'
<1>1. /\ nStackRoots \in Nat /\ nValidStackRoots \in Nat /\ nValidStackRoots <= nStackRoots
      /\ nStackRoots' = nStackRoots
  BY Snapshot DEF Rearranged, nStackRoots
<1>2. \E i \in 1 .. nStackRoots' : stackRoots'[i] = g
  <2>1. PICK i \in 1 .. nStackRoots : stackRoots[i] = g
    BY DEF Masked
  <2>2. ~(i <= nValidStackRoots)
    BY <2>1 DEF Masked
  <2>3. i \in (nValidStackRoots + 1) .. nStackRoots
    BY <1>1, <2>2
  <2>4. g \in Unclaimed
    BY <2>1, <2>3 DEF Unclaimed
  <2>5. PICK j \in (nValidStackRoots + 1) .. nStackRoots : stackRoots'[j] = g
    BY <2>4 DEF Rearranged
  <2>6. j \in 1 .. nStackRoots
    BY <1>1
  <2> QED
    BY <1>1, <2>5, <2>6
<1>3. ASSUME NEW i \in 1 .. nStackRoots, i <= nValidStackRoots' \/ (Scanning' /\ i <= markDone'.v)
      PROVE  stackRoots'[i] # g
  <2>1. CASE i \in 1 .. nValidStackRoots
    <3>1. stackRoots'[i] = stackRoots[i] /\ i <= nValidStackRoots
      BY <2>1 DEF Rearranged
    <3> QED
      BY <3>1 DEF Masked
  <2>2. CASE i \notin 1 .. nValidStackRoots
    <3>1. i \in (nValidStackRoots + 1) .. nStackRoots
      BY <1>1, <2>2
    <3> QED
      BY <1>3, <3>1
  <2> QED
    BY <2>1, <2>2
<1> QED
  BY <1>1, <1>2, <1>3 DEF Masked

LEMMA RearrangingDoom ==
  ASSUME SafeInv, DoomInv, Rearranged,
         UNCHANGED <<progVars, phase, marked, detectedDeadlocks, doomed, reported>>,
         \A g \in doomed : \A i \in (nValidStackRoots + 1) .. nStackRoots :
           DoomedMasked /\ (i <= nValidStackRoots' \/ (Scanning' /\ i <= markDone'.v)) => stackRoots'[i] # g
  PROVE  DoomInv'
<1>1. DoomedReported'
  BY DEF DoomInv, DoomedReported
<1>2. ASSUME DoomedMasked
      PROVE  DoomedMasked'
  <2>1. TypeOK /\ doomed \subseteq Goroutine
    BY DEF SafeInv, TypeInv, TypeOK
  <2>2. \A g \in doomed : Masked(g)'
    BY <1>2, <2>1, MaskedKept DEF DoomedMasked
  <2>3. PICK M \in SUBSET Object : Secludes(M)
    BY <1>2 DEF DoomedMasked
  <2>4. Secludes(M)'
    BY <2>3 DEF Secludes, Confines, Closed, Asleep, BeingWoken, Refs, progVars
  <2> QED
    BY <2>2, <2>4 DEF DoomedMasked
<1> QED
  BY <1>1, <1>2 DEF DoomInv

LEMMA DiscoverDoom ==
  ASSUME SafeInv, DoomInv, Discovering
  PROVE  DoomInv'
<1> USE DEF Discovering
<1>1. UNCHANGED <<progVars, phase, marked, detectedDeadlocks, doomed, reported>>
  BY DEF gcMarkDone, DiscoverFirst, DiscoverSwap, DiscoverPublish, MarkDoneReturns, PassBarrier, Restart,
         markVars
<1>2. Rearranged
  <2>1. CASE DiscoverSwap
    BY <2>1, SwapRearranges DEF SafeInv
  <2>2. CASE ~DiscoverSwap
    <3>1. UNCHANGED stackRoots
      BY <2>2 DEF gcMarkDone, DiscoverFirst, DiscoverPublish, MarkDoneReturns, PassBarrier, Restart, rootVars
    <3> QED
      BY <3>1, Snapshot DEF Rearranged, Unclaimed, SafeInv, TypeInv
  <2> QED
    BY <2>1, <2>2
<1>3. ASSUME NEW g \in doomed, NEW i \in (nValidStackRoots + 1) .. nStackRoots, DoomedMasked,
             i <= nValidStackRoots' \/ (Scanning' /\ i <= markDone'.v)
      PROVE  stackRoots'[i] # g
  <2>1. /\ nStackRoots \in Nat /\ nValidStackRoots \in Nat /\ DOMAIN stackRoots = 1 .. nStackRoots
        /\ i \in Nat /\ i \in 1 .. nStackRoots /\ ~(i <= nValidStackRoots)
    BY Snapshot DEF SafeInv, TypeInv
  <2>2. Scanning /\ i <= markDone.v => stackRoots[i] # g
    BY <1>3, <2>1 DEF DoomedMasked, Masked
  <2>3. StackRootValid(g) = {FALSE}
    BY <1>3, DoomedBlocked
  <2>4. CASE gcMarkDone
    BY <1>3, <2>1, <2>4 DEF gcMarkDone, rootVars
  <2>5. CASE DiscoverFirst
    <3>1. /\ UNCHANGED <<stackRoots, nValidStackRoots>> /\ Scanning
          /\ \/ markDone'.v = markDone.v + 1 /\ TRUE \in StackRootValid(stackRoots[markDone.v + 1])
             \/ markDone'.v = markDone.v
      <4>1. markDone \in [at : {"idle", "outer", "inner", "top", "barrier", "stopped"},
                          v : 0 .. nStackRoots, iv : 0 .. nStackRoots]
        BY DEF SafeInv, TypeInv, TypeOK
      <4>2. PICK valid \in StackRootValid(stackRoots[markDone.v + 1]) :
              markDone' = IF valid THEN [markDone EXCEPT !.v = @ + 1]
                          ELSE [markDone EXCEPT !.at = "inner"]
        BY <2>5 DEF DiscoverFirst
      <4>3. valid \in BOOLEAN
        BY DEF StackRootValid
      <4>4. CASE valid
        <5>1. valid = TRUE
          BY <4>3, <4>4
        <5> QED
          BY <2>5, <4>1, <4>2, <5>1 DEF DiscoverFirst, rootVars, Scanning
      <4>5. CASE ~valid
        BY <2>5, <4>1, <4>2, <4>5 DEF DiscoverFirst, rootVars, Scanning
      <4> QED
        BY <4>4, <4>5
    <3>2. markDone.v \in Nat
      BY <2>1 DEF SafeInv, TypeInv, TypeOK
    <3>3. i <= markDone.v \/ (i = markDone.v + 1 /\ TRUE \in StackRootValid(stackRoots[i]))
      <4>1. i <= markDone'.v
        BY <1>3, <2>1, <3>1
      <4>2. CASE markDone'.v = markDone.v
        BY <4>1, <4>2
      <4>3. CASE markDone'.v = markDone.v + 1 /\ TRUE \in StackRootValid(stackRoots[markDone.v + 1])
        <5>1. i <= markDone.v + 1
          BY <4>1, <4>3
        <5>2. i <= markDone.v \/ i = markDone.v + 1
          BY <2>1, <3>2, <5>1
        <5> QED
          BY <4>3, <5>2
      <4> QED
        BY <3>1, <4>2, <4>3
    <3> QED
      BY <2>2, <2>3, <3>1, <3>3
  <2>6. CASE DiscoverSwap
    <3> DEFINE v == markDone.v
               iv == markDone.iv - 1
    <3>1. /\ nValidStackRoots' = nValidStackRoots /\ Scanning
          /\ \/ stackRoots' = stackRoots /\ markDone'.v = v
             \/ /\ iv # v /\ TRUE \in StackRootValid(stackRoots[iv + 1])
                /\ stackRoots' = [stackRoots EXCEPT ![v + 1] = stackRoots[iv + 1],
                                                    ![iv + 1] = stackRoots[v + 1]]
                /\ markDone'.v = v + 1
      <4>1. markDone \in [at : {"idle", "outer", "inner", "top", "barrier", "stopped"},
                          v : 0 .. nStackRoots, iv : 0 .. nStackRoots]
        BY DEF SafeInv, TypeInv, TypeOK
      <4>2. nValidStackRoots' = nValidStackRoots /\ Scanning
        BY <2>6 DEF DiscoverSwap, Scanning
      <4>3. CASE iv = v
        <5>1. markDone' = [at |-> "outer", v |-> v, iv |-> iv] /\ UNCHANGED stackRoots
          BY <2>6, <4>3 DEF DiscoverSwap
        <5> QED
          BY <4>2, <5>1
      <4>4. CASE iv # v
        <5>1. PICK valid \in StackRootValid(stackRoots[iv + 1]) :
                IF valid
                THEN /\ stackRoots' = [stackRoots EXCEPT ![v + 1] = stackRoots[iv + 1],
                                                         ![iv + 1] = stackRoots[v + 1]]
                     /\ markDone' = [at |-> "outer", v |-> v + 1, iv |-> iv]
                ELSE /\ markDone' = [markDone EXCEPT !.iv = iv]
                     /\ UNCHANGED stackRoots
          BY <2>6, <4>4 DEF DiscoverSwap
        <5>2. valid \in BOOLEAN
          BY DEF StackRootValid
        <5>3. CASE valid
          <6>1. valid = TRUE
            BY <5>2, <5>3
          <6>2. TRUE \in StackRootValid(stackRoots[iv + 1])
            BY <6>1
          <6>3. /\ stackRoots' = [stackRoots EXCEPT ![v + 1] = stackRoots[iv + 1],
                                                   ![iv + 1] = stackRoots[v + 1]]
                /\ markDone'.v = v + 1
            BY <5>1, <6>1
          <6> QED
            BY <4>2, <4>4, <6>2, <6>3
        <5>4. CASE ~valid
          BY <4>1, <4>2, <5>1, <5>4
        <5> QED
          BY <5>3, <5>4
      <4> QED
        BY <4>3, <4>4
    <3>2. v \in Nat /\ markDone.iv \in Nat /\ v < markDone.iv
      BY <2>1, <2>6 DEF DiscoverSwap, SafeInv, TypeInv, TypeOK, Indices
    <3>3. CASE stackRoots' = stackRoots /\ markDone'.v = v
      BY <1>3, <2>1, <2>2, <3>1, <3>3
    <3>4. CASE /\ iv # v /\ TRUE \in StackRootValid(stackRoots[iv + 1])
               /\ stackRoots' = [stackRoots EXCEPT ![v + 1] = stackRoots[iv + 1],
                                                   ![iv + 1] = stackRoots[v + 1]]
               /\ markDone'.v = v + 1
      <4>1. i <= v + 1
        BY <1>3, <2>1, <3>1, <3>4
      <4>2. iv + 1 > v + 1 /\ iv \in Nat
        BY <3>2, <3>4
      <4>3. CASE i = v + 1
        <5>1. stackRoots'[i] = stackRoots[iv + 1]
          BY <2>1, <3>4, <4>2, <4>3
        <5> QED
          BY <2>3, <3>4, <5>1
      <4>4. CASE i # v + 1
        <5>1. i <= v /\ i # iv + 1
          BY <2>1, <3>2, <4>1, <4>2, <4>4
        <5>2. stackRoots'[i] = stackRoots[i]
          BY <2>1, <3>4, <4>4, <5>1
        <5> QED
          BY <2>2, <3>1, <5>1, <5>2
      <4> QED
        BY <4>3, <4>4
    <3> QED
      BY <3>1, <3>3, <3>4
  <2>7. CASE DiscoverPublish
    <3>1. Scanning /\ stackRoots' = stackRoots /\ nValidStackRoots' = markDone.v /\ ~Scanning'
      BY <2>7 DEF DiscoverPublish, Scanning, Idle
    <3> QED
      BY <1>3, <2>2, <3>1
  <2>8. CASE MarkDoneReturns \/ PassBarrier \/ Restart
    <3>1. nValidStackRoots' = nValidStackRoots /\ ~Scanning'
      BY <2>8 DEF MarkDoneReturns, PassBarrier, Restart, rootVars, Scanning, Idle
    <3> QED
      BY <1>3, <2>1, <3>1
  <2> QED
    BY <2>4, <2>5, <2>6, <2>7, <2>8
<1> QED
  BY <1>1, <1>2, <1>3, RearrangingDoom

LEMMA DetectDoom ==
  ASSUME SafeInv, DoomInv, DetectMore \/ DetectReport \/ MarkTermination
  PROVE  DoomInv'
<1>1. CASE DetectMore
  <2>1. UNCHANGED <<progVars, phase, marked, detectedDeadlocks, doomed, reported>> /\ ~Scanning'
    BY <1>1 DEF DetectMore, markVars, Scanning, Idle
  <2>2. PICK count \in 1 .. (nStackRoots - nValidStackRoots) :
          FindMore(count) /\ nValidStackRoots' = nValidStackRoots + count
    BY <1>1 DEF DetectMore
  <2>3. count \in Nat
    BY Snapshot DEF SafeInv, TypeInv
  <2>4. /\ Rearranged
        /\ \A i \in (nValidStackRoots + 1) .. nStackRoots :
             i <= nValidStackRoots + count => ~Blocked(stackRoots'[i])
    BY <2>2, <2>3, FindMoreRearranges DEF SafeInv, TypeInv
  <2>5. \A g \in doomed : \A i \in (nValidStackRoots + 1) .. nStackRoots :
           DoomedMasked /\ (i <= nValidStackRoots' \/ (Scanning' /\ i <= markDone'.v)) => stackRoots'[i] # g
    BY <2>1, <2>2, <2>4, DoomedBlocked
  <2> QED
    BY <2>1, <2>4, <2>5, RearrangingDoom
<1>2. CASE DetectReport
  <2>1. /\ phase = "mark" /\ ~detectedDeadlocks /\ detectedDeadlocks' = TRUE
        /\ reported' = Unclaimed /\ doomed' = doomed
    BY <1>2 DEF DetectReport, WorldStops, SafeInv, TypeInv, TypeOK, Indices, Idle
  <2>2. ASSUME NEW g \in doomed
        PROVE  g \in Unclaimed
    <3>1. Masked(g)
      BY <2>1, <2>2 DEF DoomInv, DoomedMasked
    <3>2. PICK i \in 1 .. nStackRoots : stackRoots[i] = g
      BY <3>1 DEF Masked
    <3>3. ~(i <= nValidStackRoots)
      BY <3>1, <3>2 DEF Masked
    <3>4. i \in (nValidStackRoots + 1) .. nStackRoots
      BY <3>3, Snapshot DEF SafeInv, TypeInv
    <3> QED
      BY <3>2, <3>4 DEF Unclaimed
  <2> QED
    BY <2>1, <2>2 DEF DoomInv, DoomedReported
<1>3. CASE MarkTermination
  <2>1. phase' = "off" /\ UNCHANGED <<detectedDeadlocks, doomed, reported>>
    BY <1>3 DEF MarkTermination
  <2> QED
    BY <2>1 DEF DoomInv, DoomedReported
<1> QED
  BY <1>1, <1>2, <1>3

LEMMA InitFull == Init => FullInv
<1> SUFFICES ASSUME Init
             PROVE  FullInv
  OBVIOUS
<1>1. ContractInv
  BY InitContractInv DEF Init
<1>2. DoomInv
  BY DEF Init, DoomInv, DoomedReported
<1> QED
  BY <1>1, <1>2, InitSafe DEF FullInv

LEMMA NextFull == ~PreemptibleWake /\ FullInv /\ [Next]_vars => FullInv'
<1> SUFFICES ASSUME ~PreemptibleWake, FullInv, [Next]_vars
             PROVE  FullInv'
  OBVIOUS
<1>0. SafeInv'
  BY NextSafe DEF FullInv
<1>2. hasty => hasty'
  BY DEF Next, Mutator, Others, gcStart, Marking, Draining, Finishing, MarkGlobals, MarkStack, ScanObject,
         gcMarkDone, DiscoverFirst, DiscoverSwap, DiscoverPublish, MarkDoneReturns, PassBarrier, Restart,
         DetectMore, DetectReport, MarkTermination, vars
<1> SUFFICES ASSUME ~hasty, ~hasty'
             PROVE  ContractInv' /\ DoomInv'
  BY <1>0, <1>2 DEF FullInv
<1>1. SafeInv /\ DoomInv /\ ContractInv
  BY DEF FullInv
<1>3. ContractInv'
  BY <1>1, NextContract, NextContractInv
<1>4. DoomInv'
  <2>1. CASE Mutator
    BY <1>1, <2>1, MutatorDoom
  <2>2. CASE gcStart
    BY <1>1, <2>2, StartDoom
  <2>3. CASE Marking
    BY <1>1, <2>3, MarkingDoom, DiscoverDoom, DetectDoom DEF Marking, Draining, Finishing, Discovering
  <2>4. CASE UNCHANGED vars
    <3>1. /\ UNCHANGED <<progVars, phase, marked, detectedDeadlocks, doomed, reported, stackRoots,
                         nValidStackRoots, markDone>>
      BY <2>4 DEF vars, gcVars
    <3>2. DoomedReported'
      BY <1>1, <3>1 DEF DoomInv, DoomedReported
    <3>3. \A g : Masked(g) => Masked(g)'
      BY <3>1 DEF Masked, Scanning, nStackRoots
    <3>4. \A M : Secludes(M) => Secludes(M)'
      BY <3>1 DEF Secludes, Confines, Closed, Asleep, BeingWoken, Refs, progVars
    <3>5. DoomedMasked => DoomedMasked'
      BY <3>1, <3>3, <3>4 DEF DoomedMasked
    <3> QED
      BY <1>1, <3>1, <3>2, <3>5 DEF DoomInv
  <2> QED
    BY <2>1, <2>2, <2>3, <2>4 DEF Next
<1> QED
  BY <1>3, <1>4

-----------------------------------------------------------------------------
LEMMA SafeInductive == Spec => []SafeInv
  BY InitSafe, NextSafe, PTL DEF Spec

LEMMA FullInductive == ~PreemptibleWake => (Spec => []FullInv)
<1> SUFFICES ASSUME ~PreemptibleWake
             PROVE  Spec => []FullInv
  OBVIOUS
<1>1. Init => FullInv
  BY InitFull
<1>2. FullInv /\ [Next]_vars => FullInv'
  BY NextFull
<1> QED
  BY <1>1, <1>2, PTL DEF Spec

(* Every variable of the collector keeps its type: in particular the       *)
(* boundary of the valid roots, the next root job and the two indices of   *)
(* gcDiscoverMoreStackRoots stay within the snapshot of the goroutines.    *)
THEOREM CollectorTypeOK == Spec => []TypeOK
<1>1. SafeInv => TypeOK
  BY DEF SafeInv, TypeInv
<1> QED
  BY SafeInductive, <1>1, PTL

(* What gcMark and gcMarkRootCheck assert at mark termination, although    *)
(* nobody looks at work.full after the ragged barrier: no object is grey,  *)
(* and no stack of the snapshot has been missed, in spite of all that      *)
(* gcDiscoverMoreStackRoots and detectPartialDeadlocks move around while   *)
(* root jobs are being claimed.                                            *)
THEOREM NoWorkMissed == Spec => []NothingMissed
<1>1. SafeInv => NothingMissed
  <2> SUFFICES ASSUME SafeInv, markDone.at = "stopped"
               PROVE  ~WorkAvailable /\ \A i \in 1 .. nStackRoots : stackRoots[i] \in gcscandone
    BY DEF NothingMissed
  <2>1. phase = "mark" /\ detectedDeadlocks /\ markrootNext = markrootJobs
    BY DEF SafeInv, TypeInv, TypeOK, Indices, Idle
  <2>2. nValidStackRoots = nStackRoots /\ nStackRoots \in Nat /\ DOMAIN stackRoots = 1 .. nStackRoots
    BY <2>1, Snapshot DEF SafeInv, TypeInv, Indices
  <2>3. markrootNext = 1 + nStackRoots
    BY <2>1, <2>2 DEF markrootJobs
  <2>4. ~WorkAvailable
    BY <2>1, <2>2, <2>3 DEF WorkAvailable, SafeInv, Drained
  <2>5. \A i \in 1 .. nStackRoots : i < markrootNext
    BY <2>2, <2>3
  <2> QED
    BY <2>2, <2>4, <2>5 DEF SafeInv, TypeInv, ScannedSoFar
<1> QED
  BY SafeInductive, <1>1, PTL

(* The sweep frees nothing that a goroutine can still reach, although      *)
(* blocked goroutines are not roots when marking starts and the program    *)
(* runs on while it marks.  This needs no assumption on when a waker may   *)
(* be preempted.                                                           *)
THEOREM MarkingIsComplete == Spec => []NoDangling
<1>1. SafeInv => NoDangling
  <2> SUFFICES ASSUME SafeInv
               PROVE  NoDangling
    OBVIOUS
  <2>1. Closed(allocated) /\ allocated \in SUBSET Object
    BY DEF SafeInv, Memory, Confines, TypeInv, TypeOK, ProgramTypeOK
  <2>2. \A g \in Goroutine : stack[g] \subseteq allocated
    BY DEF SafeInv, Memory, Confines
  <2> DEFINE roots == Refs(global) \cup UNION {stack[g] : g \in Goroutine}
  <2>3. roots \subseteq allocated /\ \A p \in allocated : Refs(field[p]) \subseteq allocated
    BY <2>1, <2>2 DEF Closed
  <2> HIDE DEF roots
  <2>4. Reachable(roots) \subseteq allocated
    BY <2>1, <2>3 DEF Reachable
  <2> QED
    BY <2>4 DEF NoDangling, roots
<1> QED
  BY SafeInductive, <1>1, PTL

(* Every report and every sweep is one the contract of PartialDeadlock     *)
(* allows: the goroutines reported can be woken by no other goroutine, now *)
(* or later.  This has two provisos.  A waker must not be preempted        *)
(* between taking a goroutine off its queue and readying it; and it holds  *)
(* until goroutines are reported while objects on work.full are still grey *)
(* (nobody looks at work.full after the ragged barrier).                   *)
THEOREM CollectorKeepsContract == ~PreemptibleWake => (Spec => KeepsContract)
<1> SUFFICES ASSUME ~PreemptibleWake
             PROVE  Spec => KeepsContract
  OBVIOUS
<1>1. Init => ContractInit
  BY DEF Init
<1>2. SafeInv /\ [Next]_vars => [hasty' \/ ContractNext]_progVars
  BY NextContract
<1> QED
  BY <1>1, <1>2, SafeInductive, PTL DEF Spec, KeepsContract

(* The detection is complete: whatever order the snapshot is in, whatever  *)
(* the program does and however often the boundary moves, a goroutine that *)
(* nobody could wake when the cycle started is reported when it ends, with *)
(* the two provisos of CollectorKeepsContract.                             *)
THEOREM DetectionComplete == ~PreemptibleWake => (Spec => []AllDoomedReported)
<1> SUFFICES ASSUME ~PreemptibleWake
             PROVE  Spec => []AllDoomedReported
  OBVIOUS
<1>1. FullInv => AllDoomedReported
  BY DEF FullInv, DoomInv, DoomedReported, AllDoomedReported
<1> QED
  BY FullInductive, <1>1, PTL

(* With the same provisos the collector never reports a goroutine that is  *)
(* about to be woken, and nobody wakes a reported one: ready never throws  *)
(* "bad g->status in ready", and never revives a recycled descriptor.      *)
THEOREM CollectorReportsNoneWoken == ~PreemptibleWake => (Spec => []WokenNotReported)
<1> SUFFICES ASSUME ~PreemptibleWake
             PROVE  Spec => []WokenNotReported
  OBVIOUS
<1>1. FullInv => WokenNotReported
  BY DEF FullInv, ContractInv, WokenNotReported
<1> QED
  BY FullInductive, <1>1, PTL

(* gcGoexit leaves the channel queue entries of the goroutines it recycles *)
(* behind; with the same provisos no goroutine that can run ever gets hold *)
(* of such a queue.                                                        *)
THEOREM CollectorHidesStaleWaiters == ~PreemptibleWake => (Spec => []StaleWaitersHidden)
<1> SUFFICES ASSUME ~PreemptibleWake
             PROVE  Spec => []StaleWaitersHidden
  OBVIOUS
<1>1. FullInv => StaleWaitersHidden
  BY SeparationHides DEF FullInv, StaleWaitersHidden
<1> QED
  BY FullInductive, <1>1, PTL
=============================================================================
