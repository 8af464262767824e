--------------------------- MODULE MarkDone_proof ---------------------------
(***************************************************************************)
(* The mark phase ends cleanly for every number of Ps, workers, objects    *)
(* and goroutines: no root job unclaimed, no goroutine unsettled, no       *)
(* cached work; and until then no object is ever counted twice.  That      *)
(* nothing is left on work.full does not hold: a write barrier may put     *)
(* work there after the ragged barrier has passed.                         *)
(***************************************************************************)
EXTENDS MarkDone, FiniteSetTheorems, TLAPS

HolderLabels == MarkDoneLabels \cup {"discover"}
\* From here on gcMarkDone has seen every root job claimed.
PastRecheck == {"world", "barrier", "stop", "flush1", "detect", "flush2"}
StoppedLabels == {"flush1", "detect", "flush2"}
BusyLabels == DrainLabels \cup {"last"}

Types ==
  /\ phase \in {"mark", "off"}
  /\ jobs \in Nat /\ blocked \in Nat
  /\ detectedDeadlocks \in BOOLEAN
  /\ pc \in [Workers -> Labels]

(* markDoneSema excludes.                                                  *)
Mutex ==
  \A v, w \in Workers : pc[v] \in HolderLabels /\ pc[w] \in HolderLabels => v = w

(* While gcMarkDone is past its recheck nobody else appends root jobs.     *)
NoJobsPastRecheck ==
  \A w \in Workers : pc[w] \in PastRecheck => jobs = 0 /\ phase = "mark"

(* After the detection round no goroutine is left.                         *)
RoundSettles ==
  /\ detectedDeadlocks => blocked = 0
  /\ \A w \in Workers : pc[w] = "flush2" => blocked = 0

(* Nobody drains while the world is stopped.                               *)
NobodyDrains ==
  \A v, w \in Workers : pc[v] \in StoppedLabels => pc[w] \notin BusyLabels

(* When the phase is over it stays over.                                   *)
Over ==
  phase = "off" => /\ jobs = 0 /\ blocked = 0 /\ ~Cached
                   /\ \A w \in Workers : pc[w] \notin BusyLabels

IInv == Types /\ Mutex /\ NoJobsPastRecheck /\ RoundSettles /\ NobodyDrains /\ Over

-----------------------------------------------------------------------------
LEMMA InitIInv == Init => IInv
<1> SUFFICES ASSUME Init
             PROVE  IInv
  OBVIOUS
<1> USE BoundsAssumption DEF Init, Labels, DrainLabels, MarkDoneLabels
<1>1. Types
  <2>1. phase = "mark" /\ detectedDeadlocks = FALSE
    OBVIOUS
  <2>2. jobs \in Nat /\ blocked \in Nat
    <3>1. jobs \in 1 .. MaxJobs /\ blocked \in 0 .. MaxBlocked
      OBVIOUS
    <3>2. MaxJobs \in Nat /\ MaxBlocked \in Nat
      OBVIOUS
    <3> HIDE BoundsAssumption DEF Init
    <3> QED
      BY <3>1, <3>2
  <2>3. pc \in [Workers -> Labels]
    <3>1. pc = [w \in Workers |-> "parked"]
      OBVIOUS
    <3> HIDE DEF Init
    <3> QED
      BY <3>1
  <2> HIDE DEF Init
  <2> QED
    BY <2>1, <2>2, <2>3 DEF Types
<1>2. \A w \in Workers : pc[w] = "parked"
  OBVIOUS
<1> QED
  BY <1>1, <1>2 DEF IInv, Mutex, NoJobsPastRecheck, RoundSettles, NobodyDrains, Over,
                    HolderLabels, PastRecheck, StoppedLabels

(* A step of one worker or of the program, seen from the control state:    *)
(* only w moves.                                                           *)
LEMMA Moves ==
  ASSUME Types, NEW w \in Workers, NEW l \in Labels, Goto(w, l)
  PROVE  /\ pc' \in [Workers -> Labels]
         /\ pc'[w] = l
         /\ \A v \in Workers : v # w => pc'[v] = pc[v]
  BY DEF Types, Goto

LEMMA BufferWriteIInv ==
  ASSUME IInv, NEW p \in Procs, BufferWrite(p)
  PROVE  IInv'
<1>1. phase = "mark" /\ phase' = "mark"
  BY DEF BufferWrite
<1>2. UNCHANGED <<jobs, blocked, detectedDeadlocks, pc>>
  BY DEF BufferWrite
<1> QED
  BY <1>1, <1>2 DEF IInv, Types, Mutex, NoJobsPastRecheck, RoundSettles, NobodyDrains, Over

LEMMA StartIInv ==
  ASSUME IInv, NEW w \in Workers, NEW p \in Procs, Start(w, p)
  PROVE  IInv'
<1> USE DEF Labels, DrainLabels, MarkDoneLabels
<1>1. phase = "mark" /\ UNCHANGED <<phase, jobs, blocked, detectedDeadlocks>>
  BY DEF Start
<1>2. PICK l \in {"roots", "loop"} : Goto(w, l)
  BY DEF Start
<1>3. /\ pc' \in [Workers -> Labels] /\ pc'[w] = l
      /\ \A v \in Workers : v # w => pc'[v] = pc[v]
  BY <1>2, Moves DEF IInv
<1>4. \A v \in Workers : pc[v] \notin StoppedLabels
  BY DEF Start, WorldStopped, StoppedLabels
<1>5. Types' /\ Mutex' /\ NoJobsPastRecheck' /\ RoundSettles'
  BY <1>1, <1>3 DEF IInv, Types, Mutex, NoJobsPastRecheck, RoundSettles, HolderLabels, PastRecheck
<1>6. NobodyDrains'
  BY <1>3, <1>4 DEF NobodyDrains, StoppedLabels
<1> QED
  BY <1>1, <1>5, <1>6 DEF IInv, Over

(* Draining goes on only while the mark phase does; it may claim root jobs *)
(* but never publishes any.                                                *)
LEMMA DrainIInv ==
  ASSUME IInv, NEW w \in Workers, Drain(w)
  PROVE  IInv'
<1> USE DEF Labels, DrainLabels, MarkDoneLabels
<1>1. pc[w] \in BusyLabels
  BY DEF Drain, Preempted, MarkRoot, NoMoreRoots, Balance, GetAndScan, FlushOrStop, Stop, BusyLabels
<1>2. phase = "mark" /\ \A v \in Workers : pc[v] \notin StoppedLabels
  BY <1>1 DEF IInv, Over, NobodyDrains, Types
<1>3. UNCHANGED <<phase, blocked, detectedDeadlocks>>
  BY DEF Drain, Preempted, MarkRoot, NoMoreRoots, Balance, GetAndScan, FlushOrStop, Stop, workVars
<1>4. jobs' = jobs \/ (jobs > 0 /\ jobs' = jobs - 1)
  BY DEF Drain, Preempted, MarkRoot, NoMoreRoots, Balance, GetAndScan, FlushOrStop, Stop
<1>5. PICK l \in {"roots", "loop", "get", "last", "acquire", "parked"} : Goto(w, l)
  BY DEF Drain, Preempted, MarkRoot, NoMoreRoots, Balance, GetAndScan, FlushOrStop, Stop
<1>6. /\ pc' \in [Workers -> Labels] /\ pc'[w] = l
      /\ \A v \in Workers : v # w => pc'[v] = pc[v]
  BY <1>5, Moves DEF IInv
<1>7. jobs' \in Nat /\ (jobs = 0 => jobs' = 0)
  BY <1>4 DEF IInv, Types
<1>8. Types' /\ Mutex'
  BY <1>3, <1>6, <1>7 DEF IInv, Types, Mutex, HolderLabels
<1>9. NoJobsPastRecheck' /\ RoundSettles'
  BY <1>3, <1>6, <1>7 DEF IInv, NoJobsPastRecheck, RoundSettles, PastRecheck
<1>10. NobodyDrains'
  BY <1>2, <1>6 DEF NobodyDrains, StoppedLabels
<1> QED
  BY <1>2, <1>3, <1>8, <1>9, <1>10 DEF IInv, Over

(* gcMarkDone, from the entry to the ragged barrier.                       *)
LEMMA EntryIInv ==
  ASSUME IInv, NEW w \in Workers,
         Acquire(w) \/ Discover(w) \/ Recheck(w) \/ StartBarrier(w) \/ EndBarrier(w)
           \/ \E p \in Procs : RaggedBarrier(w, p)
  PROVE  IInv'
<1> USE DEF Labels, DrainLabels, MarkDoneLabels
<1>1. CASE Acquire(w)
  <2>1. UNCHANGED <<phase, jobs, blocked, detectedDeadlocks, local, wbBuf>>
    BY <1>1 DEF Acquire, workVars
  <2>2. /\ pc' \in [Workers -> Labels] /\ pc'[w] = "discover"
        /\ \A v \in Workers : v # w => pc'[v] = pc[v]
    BY <1>1, Moves DEF Acquire, IInv
  <2>3. \A v \in Workers : pc[v] \notin HolderLabels
    BY <1>1 DEF Acquire, Holders, HolderLabels
  <2>4. Mutex'
    BY <2>2, <2>3 DEF Mutex
  <2> QED
    BY <2>1, <2>2, <2>3, <2>4 DEF IInv, Types, NoJobsPastRecheck, RoundSettles, NobodyDrains, Over,
         HolderLabels, PastRecheck, StoppedLabels, BusyLabels, Cached
<1>2. CASE Discover(w)
  <2>1. PICK k \in 0 .. blocked : blocked' = blocked - k /\ jobs' = jobs + k
    BY <1>2 DEF Discover
  <2>2. UNCHANGED <<phase, detectedDeadlocks, local, wbBuf>>
    BY <1>2 DEF Discover, workVars
  <2>3. pc[w] = "discover" /\ pc' \in [Workers -> Labels] /\ pc'[w] = "top"
        /\ \A v \in Workers : v # w => pc'[v] = pc[v]
    BY <1>2, Moves DEF Discover, IInv
  <2>4. jobs' \in Nat /\ blocked' \in Nat /\ (blocked = 0 => blocked' = 0 /\ jobs' = jobs)
    BY <2>1 DEF IInv, Types
  <2>5. \A v \in Workers : v # w => pc[v] \notin HolderLabels
    BY <2>3 DEF IInv, Mutex, HolderLabels
  <2>6. Mutex' /\ NoJobsPastRecheck'
    BY <2>3, <2>5 DEF Mutex, NoJobsPastRecheck, HolderLabels, PastRecheck
  <2> QED
    BY <2>2, <2>3, <2>4, <2>5, <2>6 DEF IInv, Types, RoundSettles, NobodyDrains, Over,
         HolderLabels, StoppedLabels, BusyLabels, Cached
<1>3. CASE Recheck(w)
  <2>1. UNCHANGED <<phase, jobs, blocked, detectedDeadlocks, local, wbBuf>>
    BY <1>3 DEF Recheck, workVars
  <2>2. PICK l \in {"world", "parked"} : Goto(w, l) /\ (l = "world" => phase = "mark" /\ jobs = 0)
    BY <1>3 DEF Recheck, gcMarkWorkAvailable, IInv, Types
  <2>3. pc[w] = "top" /\ pc' \in [Workers -> Labels] /\ pc'[w] = l
        /\ \A v \in Workers : v # w => pc'[v] = pc[v]
    BY <1>3, <2>2, Moves DEF Recheck, IInv
  <2>4. Mutex'
    BY <2>3 DEF IInv, Mutex, HolderLabels
  <2> QED
    BY <2>1, <2>2, <2>3, <2>4 DEF IInv, Types, NoJobsPastRecheck, RoundSettles, NobodyDrains, Over,
         PastRecheck, StoppedLabels, BusyLabels, Cached
<1>4. CASE StartBarrier(w) \/ EndBarrier(w)
  <2>1. UNCHANGED <<phase, jobs, blocked, detectedDeadlocks, local, wbBuf>>
    BY <1>4 DEF StartBarrier, EndBarrier, workVars
  <2>2. PICK l \in {"barrier", "top", "stop"} : Goto(w, l) /\ pc[w] \in {"world", "barrier"}
    BY <1>4 DEF StartBarrier, EndBarrier
  <2>3. pc' \in [Workers -> Labels] /\ pc'[w] = l /\ \A v \in Workers : v # w => pc'[v] = pc[v]
    BY <2>2, Moves DEF IInv
  <2>4. Mutex'
    BY <2>2, <2>3 DEF IInv, Mutex, HolderLabels
  <2> QED
    BY <2>1, <2>2, <2>3, <2>4 DEF IInv, Types, NoJobsPastRecheck, RoundSettles, NobodyDrains, Over,
         PastRecheck, StoppedLabels, BusyLabels, Cached
<1>5. CASE \E p \in Procs : RaggedBarrier(w, p)
  <2>1. UNCHANGED <<phase, jobs, blocked, detectedDeadlocks, pc>> /\ pc[w] = "barrier"
    BY <1>5 DEF RaggedBarrier
  <2>2. phase = "mark"
    BY <2>1 DEF IInv, NoJobsPastRecheck, PastRecheck
  <2> QED
    BY <2>1, <2>2 DEF IInv, Types, Mutex, NoJobsPastRecheck, RoundSettles, NobodyDrains, Over
<1> QED
  BY <1>1, <1>2, <1>3, <1>4, <1>5

(* With the world stopped.                                                 *)
LEMMA StoppedIInv ==
  ASSUME IInv, NEW w \in Workers,
         StopTheWorld(w) \/ FirstFlushCheck(w) \/ DetectMore(w) \/ DetectReport(w)
           \/ DetectNone(w) \/ SecondFlushCheck(w)
  PROVE  IInv'
<1> USE DEF Labels, DrainLabels, MarkDoneLabels
<1>0. /\ pc[w] \in {"stop", "flush1", "detect", "flush2"} /\ phase = "mark" /\ jobs = 0
      /\ \A v \in Workers : v # w => pc[v] \notin HolderLabels
  BY DEF StopTheWorld, FirstFlushCheck, FlushCheck, DetectMore, DetectReport, DetectNone,
         SecondFlushCheck, IInv, NoJobsPastRecheck, PastRecheck, Mutex, HolderLabels
<1>1. CASE StopTheWorld(w)
  <2>1. UNCHANGED <<phase, jobs, blocked, detectedDeadlocks>>
    BY <1>1 DEF StopTheWorld
  <2>2. pc' \in [Workers -> Labels] /\ pc'[w] = "flush1"
        /\ \A v \in Workers : v # w => pc'[v] = pc[v]
    BY <1>1, Moves DEF StopTheWorld, IInv
  <2>3. \A v \in Workers : pc[v] \notin BusyLabels
    BY <1>1 DEF StopTheWorld, Busy, BusyLabels
  <2> QED
    BY <1>0, <2>1, <2>2, <2>3 DEF IInv, Types, Mutex, NoJobsPastRecheck, RoundSettles,
         NobodyDrains, Over, HolderLabels, PastRecheck, StoppedLabels, BusyLabels
<1>2. CASE FirstFlushCheck(w)
  <2>1. UNCHANGED <<phase, jobs, blocked, detectedDeadlocks>> /\ pc[w] = "flush1"
    BY <1>2 DEF FirstFlushCheck, FlushCheck
  <2>2. PICK l \in {"top", "detect"} : Goto(w, l)
    BY <1>2 DEF FirstFlushCheck, FlushCheck
  <2>3. pc' \in [Workers -> Labels] /\ pc'[w] = l /\ \A v \in Workers : v # w => pc'[v] = pc[v]
    BY <2>2, Moves DEF IInv
  <2> QED
    BY <1>0, <2>1, <2>3 DEF IInv, Types, Mutex, NoJobsPastRecheck, RoundSettles,
         NobodyDrains, Over, HolderLabels, PastRecheck, StoppedLabels, BusyLabels
<1>3. CASE DetectMore(w)
  <2>1. PICK k \in 1 .. blocked : blocked' = blocked - k /\ jobs' = jobs + k
    BY <1>3 DEF DetectMore
  <2>2. UNCHANGED <<phase, detectedDeadlocks>> /\ ~detectedDeadlocks
    BY <1>3 DEF DetectMore
  <2>3. pc' \in [Workers -> Labels] /\ pc'[w] = "top"
        /\ \A v \in Workers : v # w => pc'[v] = pc[v]
    BY <1>3, Moves DEF DetectMore, IInv
  <2>4. jobs' \in Nat /\ blocked' \in Nat
    BY <2>1 DEF IInv, Types
  <2>5. Mutex' /\ NoJobsPastRecheck'
    BY <1>0, <2>3 DEF Mutex, NoJobsPastRecheck, HolderLabels, PastRecheck
  <2>6. RoundSettles' /\ NobodyDrains'
    BY <1>0, <2>2, <2>3 DEF RoundSettles, NobodyDrains, HolderLabels, StoppedLabels, BusyLabels
  <2> QED
    BY <1>0, <2>2, <2>3, <2>4, <2>5, <2>6 DEF IInv, Types, Over
<1>4. CASE DetectReport(w) \/ DetectNone(w)
  <2>1. UNCHANGED phase /\ pc[w] = "detect"
    BY <1>4 DEF DetectReport, DetectNone
  <2>2. jobs' = 0 /\ blocked' = 0 /\ detectedDeadlocks' = TRUE
    BY <1>0, <1>4 DEF DetectReport, DetectNone, IInv, RoundSettles
  <2>3. pc' \in [Workers -> Labels] /\ pc'[w] = "flush2"
        /\ \A v \in Workers : v # w => pc'[v] = pc[v]
    BY <1>4, Moves DEF DetectReport, DetectNone, IInv
  <2> QED
    BY <1>0, <2>1, <2>2, <2>3 DEF IInv, Types, Mutex, NoJobsPastRecheck, RoundSettles,
         NobodyDrains, Over, HolderLabels, PastRecheck, StoppedLabels, BusyLabels
<1>5. CASE SecondFlushCheck(w)
  <2>1. UNCHANGED <<jobs, blocked, detectedDeadlocks>> /\ pc[w] = "flush2"
    BY <1>5 DEF SecondFlushCheck, FlushCheck
  <2>2. blocked = 0 /\ \A v \in Workers : pc[v] \notin BusyLabels
    BY <2>1 DEF IInv, RoundSettles, NobodyDrains, StoppedLabels
  <2>3. PICK l \in {"top", "parked"} : Goto(w, l)
    BY <1>5 DEF SecondFlushCheck, FlushCheck
  <2>4. pc' \in [Workers -> Labels] /\ pc'[w] = l /\ \A v \in Workers : v # w => pc'[v] = pc[v]
    BY <2>3, Moves DEF IInv
  <2>5. phase' = "mark" \/ (phase' = "off" /\ ~Cached')
    BY <1>0, <1>5 DEF SecondFlushCheck, FlushCheck, Cached
  <2> QED
    BY <1>0, <2>1, <2>2, <2>4, <2>5 DEF IInv, Types, Mutex, NoJobsPastRecheck, RoundSettles,
         NobodyDrains, Over, HolderLabels, PastRecheck, StoppedLabels, BusyLabels
<1> QED
  BY <1>1, <1>2, <1>3, <1>4, <1>5

LEMMA NextIInv == IInv /\ [Next]_vars => IInv'
<1> SUFFICES ASSUME IInv, [Next]_vars
             PROVE  IInv'
  OBVIOUS
<1>1. CASE \E p \in Procs : BufferWrite(p)
  BY <1>1, BufferWriteIInv
<1>2. ASSUME NEW w \in Workers, (\E p \in Procs : Start(w, p)) \/ Drain(w) \/ MarkDone(w)
      PROVE  IInv'
  BY <1>2, StartIInv, DrainIInv, EntryIInv, StoppedIInv DEF MarkDone
<1>3. CASE UNCHANGED vars
  BY <1>3 DEF vars, workVars, IInv, Types, Mutex, NoJobsPastRecheck, RoundSettles, NobodyDrains,
              Over, Cached
<1> QED
  BY <1>1, <1>2, <1>3 DEF Next

LEMMA Inductive == Spec => []IInv
  BY InitIInv, NextIInv, PTL DEF Spec

-----------------------------------------------------------------------------
(* The mark phase never ends with a goroutine that was neither scanned nor *)
(* reported, nor with a root job unclaimed.                                *)
THEOREM GoroutinesSettled == Spec => []EveryGoroutineSettled
<1>1. IInv => EveryGoroutineSettled
  BY DEF IInv, Over, EveryGoroutineSettled
<1> QED
  BY Inductive, <1>1, PTL

(* The mark phase never ends with work cached by a P.                      *)
THEOREM CachesFlushed == Spec => []NothingCachedAtEnd
<1>1. IInv => NothingCachedAtEnd
  BY DEF IInv, Over, NothingCachedAtEnd
<1> QED
  BY Inductive, <1>1, PTL

-----------------------------------------------------------------------------
(* No object is counted twice: the units of the counters can be numbered   *)
(* from 1 to MaxWhite.                                                     *)
Place == ({"white", "full"} \X {0}) \cup ({"local", "wbBuf"} \X Procs)
Units(c) == {u \in Place \X (Nat \ {0}) : u[2] <= c[u[1]]}
Numbered(c) ==
  \E f \in [Units(c) -> 1 .. MaxWhite] : \A u, v \in Units(c) : f[u] = f[v] => u = v

LEMMA NumberedFewer ==
  ASSUME NEW c \in [Place -> Nat], NEW d \in [Place -> Nat], Numbered(c),
         \A x \in Place : d[x] <= c[x]
  PROVE  Numbered(d)
<1>1. PICK f \in [Units(c) -> 1 .. MaxWhite] : \A u, v \in Units(c) : f[u] = f[v] => u = v
  BY DEF Numbered
<1>2. Units(d) \subseteq Units(c)
  <2> SUFFICES ASSUME NEW u \in Units(d) PROVE u \in Units(c)
    OBVIOUS
  <2>1. u \in Place \X (Nat \ {0}) /\ u[2] <= d[u[1]] /\ u[1] \in Place
    BY DEF Units
  <2>2. u[2] \in Nat /\ d[u[1]] \in Nat /\ c[u[1]] \in Nat /\ d[u[1]] <= c[u[1]]
    BY <2>1
  <2>3. u[2] <= c[u[1]]
    BY <2>1, <2>2
  <2> QED
    BY <2>1, <2>3 DEF Units
<1> DEFINE g == [u \in Units(d) |-> f[u]]
<1>3. g \in [Units(d) -> 1 .. MaxWhite] /\ \A u, v \in Units(d) : g[u] = g[v] => u = v
  BY <1>1, <1>2
<1> QED
  BY <1>3 DEF Numbered

LEMMA NumberedBound ==
  ASSUME NEW c \in [Place -> Nat], Numbered(c), NEW x \in Place
  PROVE  c[x] \in 0 .. MaxWhite
<1>1. PICK f \in [Units(c) -> 1 .. MaxWhite] : \A u, v \in Units(c) : f[u] = f[v] => u = v
  BY DEF Numbered
<1> DEFINE g == [i \in 1 .. c[x] |-> f[<<x, i>>]]
<1>2. c[x] \in Nat /\ MaxWhite \in Nat
  BY BoundsAssumption
<1>3. \A i \in 1 .. c[x] : <<x, i>> \in Units(c)
  BY <1>2 DEF Units
<1>4. g \in [1 .. c[x] -> 1 .. MaxWhite]
  BY <1>1, <1>3
<1>5. \A i, j \in 1 .. c[x] : g[i] = g[j] => i = j
  <2> SUFFICES ASSUME NEW i \in 1 .. c[x], NEW j \in 1 .. c[x], f[<<x, i>>] = f[<<x, j>>] PROVE i = j
    OBVIOUS
  <2>1. <<x, i>> = <<x, j>>
    BY <1>1, <1>3
  <2> QED
    BY <2>1
<1>6. g \in Injection(1 .. c[x], 1 .. MaxWhite)
  BY <1>4, <1>5 DEF Injection, IsInjective
<1>7. Cardinality(1 .. c[x]) <= Cardinality(1 .. MaxWhite)
  <2> HIDE DEF g
  <2>1. IsFiniteSet(1 .. MaxWhite)
    BY <1>2, FS_Interval
  <2> QED
    BY <1>6, <2>1, FS_Injection, Zenon
<1>8. Cardinality(1 .. c[x]) = c[x] /\ Cardinality(1 .. MaxWhite) = MaxWhite
  <2>1. \A n \in Nat : Cardinality(1 .. n) = n
    BY FS_Interval
  <2> QED
    BY <1>2, <2>1
<1> QED
  BY <1>2, <1>7, <1>8

\* k objects move from place a to place b.
Moved(c, a, b, k) == [x \in Place |-> IF x = a THEN c[a] - k ELSE IF x = b THEN c[b] + k ELSE c[x]]

LEMMA NumberedMoved ==
  ASSUME NEW c \in [Place -> Nat], Numbered(c),
         NEW a \in Place, NEW b \in Place, a # b, NEW k \in 0 .. c[a]
  PROVE  Moved(c, a, b, k) \in [Place -> Nat] /\ Numbered(Moved(c, a, b, k))
<1>1. PICK f \in [Units(c) -> 1 .. MaxWhite] : \A u, v \in Units(c) : f[u] = f[v] => u = v
  BY DEF Numbered
<1>2. c[a] \in Nat /\ c[b] \in Nat /\ k \in Nat /\ k <= c[a]
  OBVIOUS
<1> DEFINE d == Moved(c, a, b, k)
           Old(u) == IF u[1] = b /\ u[2] > c[b] THEN <<a, c[a] - k + (u[2] - c[b])>> ELSE u
           g == [u \in Units(d) |-> f[Old(u)]]
<1>3. d \in [Place -> Nat]
  BY <1>2 DEF Moved
<1>4. /\ d[a] = c[a] - k /\ d[b] = c[b] + k
      /\ \A x \in Place : x # a /\ x # b => d[x] = c[x]
  BY DEF Moved
<1> HIDE DEF d
<1>5. ASSUME NEW u \in Units(d)
      PROVE  /\ u = <<u[1], u[2]>> /\ u[1] \in Place /\ u[2] \in Nat /\ 0 < u[2] /\ u[2] <= d[u[1]]
  BY DEF Units
<1>6. ASSUME NEW u \in Units(d) PROVE Old(u) \in Units(c)
  <2>1. CASE u[1] = b /\ u[2] > c[b]
    <3>1. c[a] - k + (u[2] - c[b]) \in Nat \ {0} /\ c[a] - k + (u[2] - c[b]) <= c[a]
      BY <1>2, <1>4, <1>5, <2>1
    <3> QED
      BY <2>1, <3>1 DEF Units
  <2>2. CASE ~(u[1] = b /\ u[2] > c[b])
    <3>1. u[2] <= c[u[1]]
      BY <1>2, <1>4, <1>5, <2>2
    <3> QED
      BY <2>2, <3>1, <1>5 DEF Units
  <2> QED
    BY <2>1, <2>2
<1>7. ASSUME NEW u \in Units(d), NEW v \in Units(d), Old(u) = Old(v) PROVE u = v
  <2>1. CASE (u[1] = b /\ u[2] > c[b]) /\ (v[1] = b /\ v[2] > c[b])
    <3>1. c[a] - k + (u[2] - c[b]) = c[a] - k + (v[2] - c[b])
      BY <2>1, <1>7
    <3>2. u[2] = v[2]
      BY <3>1, <1>2, <1>5
    <3> QED
      BY <2>1, <3>2, <1>5
  <2>2. ASSUME NEW w \in Units(d), NEW z \in Units(d), w[1] = b /\ w[2] > c[b],
               ~(z[1] = b /\ z[2] > c[b]), Old(w) = Old(z)
        PROVE  FALSE
    <3>1. <<a, c[a] - k + (w[2] - c[b])>> = z
      BY <2>2
    <3>2. z[1] = a /\ z[2] = c[a] - k + (w[2] - c[b]) /\ z[2] <= c[a] - k
      BY <3>1, <1>4, <1>5
    <3>3. w[2] \in Nat
      BY <1>5
    <3> QED
      BY <2>2, <3>2, <3>3, <1>2
  <2>3. CASE ~(u[1] = b /\ u[2] > c[b]) /\ ~(v[1] = b /\ v[2] > c[b])
    BY <2>3, <1>7
  <2> QED
    BY <1>7, <2>1, <2>2, <2>3
<1>8. g \in [Units(d) -> 1 .. MaxWhite]
  BY <1>1, <1>6
<1>9. \A u, v \in Units(d) : g[u] = g[v] => u = v
  <2> SUFFICES ASSUME NEW u \in Units(d), NEW v \in Units(d), f[Old(u)] = f[Old(v)] PROVE u = v
    OBVIOUS
  <2>1. Old(u) = Old(v)
    BY <1>1, <1>6
  <2> QED
    BY <1>7, <2>1
<1>10. Numbered(d)
  <2> HIDE DEF g
  <2> QED
    BY <1>8, <1>9 DEF Numbered
<1> QED
  BY <1>3, <1>10 DEF d

White == <<"white", 0>>
Full == <<"full", 0>>
Local(p) == <<"local", p>>
Buffer(p) == <<"wbBuf", p>>

Tally(wh, fu, lo, wb) ==
  [x \in Place |-> IF x[1] = "white" THEN wh ELSE IF x[1] = "full" THEN fu
                   ELSE IF x[1] = "local" THEN lo[x[2]] ELSE wb[x[2]]]

PerP == [Procs -> Nat]
Tallied(wh, fu, lo, wb) ==
  /\ wh \in Nat /\ fu \in Nat /\ lo \in PerP /\ wb \in PerP
  /\ Numbered(Tally(wh, fu, lo, wb))

LEMMA Places ==
  /\ White \in Place /\ Full \in Place /\ White # Full
  /\ \A p \in Procs : Local(p) \in Place /\ Buffer(p) \in Place
  /\ \A x \in Place : \/ x = White \/ x = Full
                      \/ \E p \in Procs : x = Local(p) \/ x = Buffer(p)
  /\ \A p : Local(p) # White /\ Local(p) # Full /\ Buffer(p) # White /\ Buffer(p) # Full
  /\ \A p, q : Local(p) # Buffer(q) /\ (Local(p) = Local(q) => p = q) /\ (Buffer(p) = Buffer(q) => p = q)
  BY DEF Place, White, Full, Local, Buffer

LEMMA TallyAt ==
  ASSUME NEW wh, NEW fu, NEW lo, NEW wb
  PROVE  /\ Tally(wh, fu, lo, wb)[White] = wh /\ Tally(wh, fu, lo, wb)[Full] = fu
         /\ \A p \in Procs : /\ Tally(wh, fu, lo, wb)[Local(p)] = lo[p]
                             /\ Tally(wh, fu, lo, wb)[Buffer(p)] = wb[p]
  BY Places DEF Tally, White, Full, Local, Buffer

LEMMA TallyType ==
  ASSUME NEW wh \in Nat, NEW fu \in Nat, NEW lo \in PerP, NEW wb \in PerP
  PROVE  Tally(wh, fu, lo, wb) \in [Place -> Nat]
<1>1. ASSUME NEW x \in Place PROVE Tally(wh, fu, lo, wb)[x] \in Nat
  <2>1. CASE x = White \/ x = Full
    BY <2>1, TallyAt
  <2>2. CASE \E p \in Procs : x = Local(p) \/ x = Buffer(p)
    BY <2>2, TallyAt DEF PerP
  <2> QED
    BY <2>1, <2>2, Places
<1> QED
  BY <1>1 DEF Tally

\* What place x holds when it held n and k objects have moved from a to b.
Then(n, x, a, b, k) == IF x = a THEN n - k ELSE IF x = b THEN n + k ELSE n

LEMMA TalliedMoved ==
  ASSUME NEW wh, NEW fu, NEW lo, NEW wb, Tallied(wh, fu, lo, wb),
         NEW a \in Place, NEW b \in Place, a # b,
         NEW k \in 0 .. Tally(wh, fu, lo, wb)[a],
         NEW wh2 \in Nat, NEW fu2 \in Nat, NEW lo2 \in PerP, NEW wb2 \in PerP,
         wh2 = Then(wh, White, a, b, k), fu2 = Then(fu, Full, a, b, k),
         \A p \in Procs : lo2[p] = Then(lo[p], Local(p), a, b, k),
         \A p \in Procs : wb2[p] = Then(wb[p], Buffer(p), a, b, k)
  PROVE  Tallied(wh2, fu2, lo2, wb2)
<1> DEFINE c == Tally(wh, fu, lo, wb)
           d == Tally(wh2, fu2, lo2, wb2)
<1>1. c \in [Place -> Nat] /\ Numbered(c) /\ d \in [Place -> Nat]
  BY TallyType DEF Tallied
<1>2. Numbered(Moved(c, a, b, k))
  BY <1>1, NumberedMoved
<1>3. ASSUME NEW x \in Place PROVE d[x] = Moved(c, a, b, k)[x]
  <2>1. Moved(c, a, b, k)[x] = Then(c[x], x, a, b, k)
    BY DEF Moved, Then
  <2>2. CASE x = White \/ x = Full
    BY <2>1, <2>2, TallyAt
  <2>3. CASE \E p \in Procs : x = Local(p) \/ x = Buffer(p)
    BY <2>1, <2>3, TallyAt
  <2> QED
    BY <2>2, <2>3, Places
<1>4. d = Moved(c, a, b, k)
  BY <1>1, <1>3 DEF Moved
<1>5. Numbered(d)
  BY <1>2, <1>4
<1> QED
  BY <1>5 DEF Tallied

LEMMA TalliedFewer ==
  ASSUME NEW wh, NEW fu, NEW lo, NEW wb, Tallied(wh, fu, lo, wb),
         NEW wh2 \in 0 .. wh, NEW fu2 \in 0 .. fu, NEW lo2 \in PerP, NEW wb2 \in PerP,
         \A p \in Procs : lo2[p] <= lo[p] /\ wb2[p] <= wb[p]
  PROVE  Tallied(wh2, fu2, lo2, wb2)
<1> DEFINE c == Tally(wh, fu, lo, wb)
           d == Tally(wh2, fu2, lo2, wb2)
<1>1. wh2 \in Nat /\ fu2 \in Nat /\ wh2 <= wh /\ fu2 <= fu
  BY DEF Tallied
<1>2. c \in [Place -> Nat] /\ d \in [Place -> Nat]
  BY <1>1, TallyType DEF Tallied
<1>3. \A x \in Place : d[x] <= c[x]
  <2> SUFFICES ASSUME NEW x \in Place PROVE d[x] <= c[x]
    OBVIOUS
  <2>1. CASE x = White \/ x = Full
    BY <1>1, <2>1, TallyAt
  <2>2. CASE \E p \in Procs : x = Local(p) \/ x = Buffer(p)
    BY <2>2, TallyAt
  <2> QED
    BY <2>1, <2>2, Places
<1> HIDE DEF c, d
<1>4. Numbered(d)
  BY <1>2, <1>3, NumberedFewer DEF Tallied, c
<1> QED
  BY <1>1, <1>4 DEF Tallied, d

LEMMA TalliedBound ==
  ASSUME NEW wh, NEW fu, NEW lo, NEW wb, Tallied(wh, fu, lo, wb)
  PROVE  /\ wh \in 0 .. MaxWhite /\ fu \in 0 .. MaxWhite
         /\ lo \in [Procs -> 0 .. MaxWhite] /\ wb \in [Procs -> 0 .. MaxWhite]
<1>1. \A x \in Place : Tally(wh, fu, lo, wb)[x] \in 0 .. MaxWhite
  BY TallyType, NumberedBound DEF Tallied
<1>2. wh \in 0 .. MaxWhite /\ fu \in 0 .. MaxWhite
  BY <1>1, Places, TallyAt
<1>3. \A p \in Procs : lo[p] \in 0 .. MaxWhite /\ wb[p] \in 0 .. MaxWhite
  BY <1>1, Places, TallyAt
<1> QED
  BY <1>2, <1>3 DEF Tallied, PerP

\* The moves the actions make.
LEMMA WhiteToLocal ==
  ASSUME NEW wh, NEW fu, NEW lo, NEW wb, Tallied(wh, fu, lo, wb),
         NEW p \in Procs, NEW k \in 0 .. wh
  PROVE  Tallied(wh - k, fu, [lo EXCEPT ![p] = lo[p] + k], wb)
<1> DEFINE lo2 == [lo EXCEPT ![p] = lo[p] + k]
<1>1. wh \in Nat /\ fu \in Nat /\ lo \in [Procs -> Nat] /\ wb \in [Procs -> Nat]
  BY DEF Tallied, PerP
<1>2. wh - k \in Nat /\ lo2 \in [Procs -> Nat]
  BY <1>1
<1>3. wh - k = Then(wh, White, White, Local(p), k) /\ fu = Then(fu, Full, White, Local(p), k)
  BY Places DEF Then
<1>4. \A r \in Procs : lo2[r] = Then(lo[r], Local(r), White, Local(p), k)
  BY <1>1, Places DEF Then
<1>5. \A r \in Procs : wb[r] = Then(wb[r], Buffer(r), White, Local(p), k)
  BY <1>1, Places DEF Then
<1>6. /\ White \in Place /\ Local(p) \in Place /\ White # Local(p)
      /\ k \in 0 .. Tally(wh, fu, lo, wb)[White]
  BY Places, TallyAt
<1>7. Tallied(wh - k, fu, lo2, wb)
  <2> HIDE DEF lo2
  <2> QED
    BY <1>1, <1>2, <1>3, <1>4, <1>5, <1>6, TalliedMoved DEF PerP
<1> QED
  BY <1>7

LEMMA WhiteToBuffer ==
  ASSUME NEW wh, NEW fu, NEW lo, NEW wb, Tallied(wh, fu, lo, wb),
         NEW p \in Procs, NEW k \in 0 .. wh
  PROVE  Tallied(wh - k, fu, lo, [wb EXCEPT ![p] = wb[p] + k])
<1> DEFINE wb2 == [wb EXCEPT ![p] = wb[p] + k]
<1>1. wh \in Nat /\ fu \in Nat /\ lo \in [Procs -> Nat] /\ wb \in [Procs -> Nat]
  BY DEF Tallied, PerP
<1>2. wh - k \in Nat /\ wb2 \in [Procs -> Nat]
  BY <1>1
<1>3. wh - k = Then(wh, White, White, Buffer(p), k) /\ fu = Then(fu, Full, White, Buffer(p), k)
  BY Places DEF Then
<1>4. \A r \in Procs : lo[r] = Then(lo[r], Local(r), White, Buffer(p), k)
  BY <1>1, Places DEF Then
<1>5. \A r \in Procs : wb2[r] = Then(wb[r], Buffer(r), White, Buffer(p), k)
  BY <1>1, Places DEF Then
<1>6. /\ White \in Place /\ Buffer(p) \in Place /\ White # Buffer(p)
      /\ k \in 0 .. Tally(wh, fu, lo, wb)[White]
  BY Places, TallyAt
<1>7. Tallied(wh - k, fu, lo, wb2)
  <2> HIDE DEF wb2
  <2> QED
    BY <1>1, <1>2, <1>3, <1>4, <1>5, <1>6, TalliedMoved DEF PerP
<1> QED
  BY <1>7

LEMMA FullToLocal ==
  ASSUME NEW wh, NEW fu, NEW lo, NEW wb, Tallied(wh, fu, lo, wb),
         NEW p \in Procs, NEW k \in 0 .. fu
  PROVE  Tallied(wh, fu - k, [lo EXCEPT ![p] = lo[p] + k], wb)
<1> DEFINE lo2 == [lo EXCEPT ![p] = lo[p] + k]
<1>1. wh \in Nat /\ fu \in Nat /\ lo \in [Procs -> Nat] /\ wb \in [Procs -> Nat]
  BY DEF Tallied, PerP
<1>2. fu - k \in Nat /\ lo2 \in [Procs -> Nat]
  BY <1>1
<1>3. wh = Then(wh, White, Full, Local(p), k) /\ fu - k = Then(fu, Full, Full, Local(p), k)
  BY Places DEF Then
<1>4. \A r \in Procs : lo2[r] = Then(lo[r], Local(r), Full, Local(p), k)
  BY <1>1, Places DEF Then
<1>5. \A r \in Procs : wb[r] = Then(wb[r], Buffer(r), Full, Local(p), k)
  BY <1>1, Places DEF Then
<1>6. /\ Full \in Place /\ Local(p) \in Place /\ Full # Local(p)
      /\ k \in 0 .. Tally(wh, fu, lo, wb)[Full]
  BY Places, TallyAt
<1>7. Tallied(wh, fu - k, lo2, wb)
  <2> HIDE DEF lo2
  <2> QED
    BY <1>1, <1>2, <1>3, <1>4, <1>5, <1>6, TalliedMoved DEF PerP
<1> QED
  BY <1>7

LEMMA LocalToFull ==
  ASSUME NEW wh, NEW fu, NEW lo, NEW wb, Tallied(wh, fu, lo, wb),
         NEW p \in Procs, NEW k \in 0 .. lo[p]
  PROVE  Tallied(wh, fu + k, [lo EXCEPT ![p] = lo[p] - k], wb)
<1> DEFINE lo2 == [lo EXCEPT ![p] = lo[p] - k]
<1>1. wh \in Nat /\ fu \in Nat /\ lo \in [Procs -> Nat] /\ wb \in [Procs -> Nat]
  BY DEF Tallied, PerP
<1>2. lo2 \in [Procs -> Nat] /\ fu + k \in Nat
  BY <1>1
<1>3. wh = Then(wh, White, Local(p), Full, k) /\ fu + k = Then(fu, Full, Local(p), Full, k)
  BY Places DEF Then
<1>4. \A r \in Procs : lo2[r] = Then(lo[r], Local(r), Local(p), Full, k)
  BY <1>1, Places DEF Then
<1>5. \A r \in Procs : wb[r] = Then(wb[r], Buffer(r), Local(p), Full, k)
  BY <1>1, Places DEF Then
<1>6. /\ Local(p) \in Place /\ Full \in Place /\ Local(p) # Full
      /\ k \in 0 .. Tally(wh, fu, lo, wb)[Local(p)]
  BY Places, TallyAt
<1>7. Tallied(wh, fu + k, lo2, wb)
  <2> HIDE DEF lo2
  <2> QED
    BY <1>1, <1>2, <1>3, <1>4, <1>5, <1>6, TalliedMoved DEF PerP
<1> QED
  BY <1>7

LEMMA BufferToLocal ==
  ASSUME NEW wh, NEW fu, NEW lo, NEW wb, Tallied(wh, fu, lo, wb),
         NEW p \in Procs, NEW q \in Procs, NEW k \in 0 .. wb[q]
  PROVE  Tallied(wh, fu, [lo EXCEPT ![p] = lo[p] + k], [wb EXCEPT ![q] = wb[q] - k])
<1> DEFINE wb2 == [wb EXCEPT ![q] = wb[q] - k]
           lo2 == [lo EXCEPT ![p] = lo[p] + k]
<1>1. wh \in Nat /\ fu \in Nat /\ lo \in [Procs -> Nat] /\ wb \in [Procs -> Nat]
  BY DEF Tallied, PerP
<1>2. wb2 \in [Procs -> Nat] /\ lo2 \in [Procs -> Nat]
  BY <1>1
<1>3. wh = Then(wh, White, Buffer(q), Local(p), k) /\ fu = Then(fu, Full, Buffer(q), Local(p), k)
  BY Places DEF Then
<1>4. \A r \in Procs : lo2[r] = Then(lo[r], Local(r), Buffer(q), Local(p), k)
  BY <1>1, Places DEF Then
<1>5. \A r \in Procs : wb2[r] = Then(wb[r], Buffer(r), Buffer(q), Local(p), k)
  BY <1>1, Places DEF Then
<1>6. /\ Buffer(q) \in Place /\ Local(p) \in Place /\ Buffer(q) # Local(p)
      /\ k \in 0 .. Tally(wh, fu, lo, wb)[Buffer(q)]
  BY Places, TallyAt
<1>7. Tallied(wh, fu, lo2, wb2)
  <2> HIDE DEF wb2, lo2
  <2> QED
    BY <1>1, <1>2, <1>3, <1>4, <1>5, <1>6, TalliedMoved DEF PerP
<1> QED
  BY <1>7

LEMMA BufferToFull ==
  ASSUME NEW wh, NEW fu, NEW lo, NEW wb, Tallied(wh, fu, lo, wb),
         NEW p \in Procs, NEW k \in 0 .. wb[p]
  PROVE  Tallied(wh, fu + k, lo, [wb EXCEPT ![p] = wb[p] - k])
<1> DEFINE wb2 == [wb EXCEPT ![p] = wb[p] - k]
<1>1. wh \in Nat /\ fu \in Nat /\ lo \in [Procs -> Nat] /\ wb \in [Procs -> Nat]
  BY DEF Tallied, PerP
<1>2. wb2 \in [Procs -> Nat] /\ fu + k \in Nat
  BY <1>1
<1>3. wh = Then(wh, White, Buffer(p), Full, k) /\ fu + k = Then(fu, Full, Buffer(p), Full, k)
  BY Places DEF Then
<1>4. \A r \in Procs : lo[r] = Then(lo[r], Local(r), Buffer(p), Full, k)
  BY <1>1, Places DEF Then
<1>5. \A r \in Procs : wb2[r] = Then(wb[r], Buffer(r), Buffer(p), Full, k)
  BY <1>1, Places DEF Then
<1>6. /\ Buffer(p) \in Place /\ Full \in Place /\ Buffer(p) # Full
      /\ k \in 0 .. Tally(wh, fu, lo, wb)[Buffer(p)]
  BY Places, TallyAt
<1>7. Tallied(wh, fu + k, lo, wb2)
  <2> HIDE DEF wb2
  <2> QED
    BY <1>1, <1>2, <1>3, <1>4, <1>5, <1>6, TalliedMoved DEF PerP
<1> QED
  BY <1>7

-----------------------------------------------------------------------------
Conserved == Tallied(white, full, local, wbBuf)

LEMMA ConservedTypes ==
  ASSUME Conserved
  PROVE  white \in Nat /\ full \in Nat /\ local \in [Procs -> Nat] /\ wbBuf \in [Procs -> Nat]
  BY DEF Conserved, Tallied, PerP

\* Scan moves objects from white and from a buffer, if n of them are in the gcw before.
LEMMA ScanTallied ==
  ASSUME Conserved, NEW fu \in Nat, NEW p \in Procs, NEW n \in Nat,
         Tallied(white, fu, [local EXCEPT ![p] = n], wbBuf), Scan(p, n)
  PROVE  Tallied(white', fu, local', wbBuf')
<1> DEFINE lo1 == [local EXCEPT ![p] = n]
<1>1. white \in Nat /\ local \in [Procs -> Nat] /\ wbBuf \in [Procs -> Nat]
  BY ConservedTypes
<1>2. PICK k \in 0 .. white, from \in SUBSET {q \in Procs : wbBuf[q] > 0} :
        /\ Cardinality(from) <= 1
        /\ white' = white - k
        /\ wbBuf' = [q \in Procs |-> IF q \in from THEN wbBuf[q] - 1 ELSE wbBuf[q]]
        /\ local' = [local EXCEPT ![p] = n + k + Cardinality(from)]
  BY DEF Scan
<1> DEFINE lo2 == [lo1 EXCEPT ![p] = lo1[p] + k]
<1>3. Tallied(white - k, fu, lo2, wbBuf)
  <2> HIDE DEF lo1
  <2> QED
    BY <1>2, WhiteToLocal DEF lo1
<1>4. lo1 \in [Procs -> Nat] /\ lo2 = [local EXCEPT ![p] = n + k] /\ k \in Nat
  <2> DEFINE lo3 == [local EXCEPT ![p] = n + k]
  <2>1. k \in Nat /\ n + k \in Nat
    BY <1>1
  <2>2. lo1 \in [Procs -> Nat] /\ lo1[p] = n
    BY <1>1
  <2>3. lo2 \in [Procs -> Nat] /\ lo3 \in [Procs -> Nat]
    BY <1>1, <2>1, <2>2
  <2>4. \A q \in Procs : lo2[q] = lo3[q]
    BY <1>1, <2>2
  <2>5. lo2 = lo3
    <3> HIDE DEF lo2, lo3
    <3> QED
      BY <2>3, <2>4
  <2> QED
    BY <2>1, <2>2, <2>5
<1>5. IsFiniteSet(from) /\ Cardinality(from) \in Nat
  BY <1>2, ProcsAssumption, FS_Subset, FS_CardinalityType
<1>6. CASE Cardinality(from) = 0
  <2>1. from = {}
    BY <1>5, <1>6, FS_EmptySet
  <2>2. wbBuf' = wbBuf
    BY <1>1, <1>2, <2>1
  <2>3. local' = lo2
    BY <1>2, <1>4, <1>6
  <2> QED
    BY <1>2, <1>3, <2>2, <2>3
<1>7. CASE Cardinality(from) = 1
  <2>1. PICK q : from = {q}
    BY <1>5, <1>7, FS_Singleton
  <2>2. q \in Procs /\ wbBuf[q] > 0 /\ 1 \in 0 .. wbBuf[q]
    BY <1>1, <1>2, <2>1
  <2>3. wbBuf' = [wbBuf EXCEPT ![q] = wbBuf[q] - 1]
    BY <1>1, <1>2, <2>1
  <2>4. local' = [lo2 EXCEPT ![p] = lo2[p] + 1]
    BY <1>1, <1>2, <1>4, <1>7
  <2>5. Tallied(white - k, fu, [lo2 EXCEPT ![p] = lo2[p] + 1], [wbBuf EXCEPT ![q] = wbBuf[q] - 1])
    <3> HIDE DEF lo2
    <3> QED
      BY <1>3, <2>2, BufferToLocal
  <2> QED
    BY <1>2, <2>3, <2>4, <2>5
<1> QED
  BY <1>2, <1>5, <1>6, <1>7

LEMMA DrainConserved ==
  ASSUME Conserved, on \in [Workers -> Procs], NEW w \in Workers, Drain(w)
  PROVE  Conserved'
<1>1. white \in Nat /\ full \in Nat /\ local \in [Procs -> Nat] /\ wbBuf \in [Procs -> Nat]
  BY ConservedTypes
<1>2. PICK p \in Procs : p = on[w]
  OBVIOUS
<1>3. CASE Preempted(w) \/ NoMoreRoots(w) \/ Stop(w)
  BY <1>3 DEF Preempted, NoMoreRoots, Stop, workVars, Conserved
<1>4. CASE MarkRoot(w)
  <2>1. Scan(p, local[p]) /\ full' = full
    BY <1>2, <1>4 DEF MarkRoot
  <2>2. [local EXCEPT ![p] = local[p]] = local /\ local[p] \in Nat
    BY <1>1
  <2>3. Tallied(white, full, [local EXCEPT ![p] = local[p]], wbBuf)
    BY <2>2 DEF Conserved
  <2>4. Tallied(white', full, local', wbBuf')
    BY <1>1, <2>1, <2>2, <2>3, ScanTallied
  <2> QED
    BY <2>1, <2>4 DEF Conserved
<1>5. CASE Balance(w)
  <2>1. UNCHANGED <<white, wbBuf>>
    BY <1>5 DEF Balance
  <2>2. CASE UNCHANGED <<full, local>>
    BY <2>1, <2>2 DEF Conserved
  <2>3. CASE full = 0 /\ \E k \in 1 .. local[p] : full' = k /\ local' = [local EXCEPT ![p] = @ - k]
    <3>1. PICK k \in 1 .. local[p] : full' = k /\ local' = [local EXCEPT ![p] = local[p] - k]
      BY <2>3
    <3>2. k \in 0 .. local[p] /\ full' = full + k
      BY <1>1, <2>3, <3>1
    <3>3. Tallied(white, full + k, [local EXCEPT ![p] = local[p] - k], wbBuf)
      BY <3>2, LocalToFull DEF Conserved
    <3> QED
      BY <2>1, <3>1, <3>2, <3>3 DEF Conserved
  <2> QED
    BY <1>2, <1>5, <2>2, <2>3 DEF Balance
<1>6. CASE GetAndScan(w)
  <2>1. CASE local[p] > 0 /\ Scan(p, local[p] - 1) /\ UNCHANGED full
    <3> DEFINE lo1 == [local EXCEPT ![p] = local[p] - 1]
    <3>1. lo1 \in [Procs -> Nat] /\ local[p] - 1 \in Nat /\ \A q \in Procs : lo1[q] <= local[q]
      BY <1>1, <2>1
    <3>2. \A q \in Procs : wbBuf[q] <= wbBuf[q]
      BY <1>1
    <3>3. white \in 0 .. white /\ full \in 0 .. full
      BY <1>1
    <3>4. Tallied(white, full, lo1, wbBuf)
      <4> HIDE DEF lo1
      <4> QED
        BY <1>1, <3>1, <3>2, <3>3, TalliedFewer DEF Conserved, PerP
    <3>5. Tallied(white', full, local', wbBuf')
      BY <1>1, <2>1, <3>1, <3>4, ScanTallied
    <3> QED
      BY <2>1, <3>5 DEF Conserved
  <2>2. CASE local[p] = 0 /\ \E k \in 1 .. full : full' = full - k /\ Scan(p, k - 1)
    <3>1. PICK k \in 1 .. full : full' = full - k /\ Scan(p, k - 1)
      BY <2>2
    <3> DEFINE lo1 == [local EXCEPT ![p] = local[p] + k]
               lo2 == [local EXCEPT ![p] = k - 1]
    <3>2. k \in 0 .. full /\ full - k \in Nat /\ k - 1 \in Nat
      BY <1>1, <3>1
    <3>3. Tallied(white, full - k, lo1, wbBuf)
      BY <3>2, FullToLocal DEF Conserved
    <3>4. lo1 \in [Procs -> Nat] /\ lo2 \in [Procs -> Nat] /\ \A q \in Procs : lo2[q] <= lo1[q]
      BY <1>1, <2>2, <3>2
    <3>5. \A q \in Procs : wbBuf[q] <= wbBuf[q]
      BY <1>1
    <3>6. white \in 0 .. white /\ full - k \in 0 .. (full - k)
      BY <1>1, <3>2
    <3>7. Tallied(white, full - k, lo2, wbBuf)
      <4> HIDE DEF lo1, lo2
      <4> QED
        BY <1>1, <3>3, <3>4, <3>5, <3>6, TalliedFewer DEF PerP
    <3>8. Tallied(white', full - k, local', wbBuf')
      BY <3>1, <3>2, <3>7, ScanTallied
    <3> QED
      BY <3>1, <3>8 DEF Conserved
  <2> QED
    BY <1>2, <1>6, <2>1, <2>2 DEF GetAndScan
<1>7. CASE FlushOrStop(w)
  <2>1. /\ local[p] = 0 /\ UNCHANGED <<white, full>>
        /\ local' = [local EXCEPT ![p] = wbBuf[p]] /\ wbBuf' = [wbBuf EXCEPT ![p] = 0]
    BY <1>2, <1>7 DEF FlushOrStop
  <2>2. local[p] + wbBuf[p] = wbBuf[p] /\ wbBuf[p] - wbBuf[p] = 0 /\ wbBuf[p] \in 0 .. wbBuf[p]
    BY <1>1, <2>1
  <2>3. Tallied(white, full, [local EXCEPT ![p] = local[p] + wbBuf[p]],
                             [wbBuf EXCEPT ![p] = wbBuf[p] - wbBuf[p]])
    BY <2>2, BufferToLocal DEF Conserved
  <2> QED
    BY <2>1, <2>2, <2>3 DEF Conserved
<1> QED
  BY <1>3, <1>4, <1>5, <1>6, <1>7 DEF Drain

LEMMA MarkDoneConserved ==
  ASSUME Conserved, on \in [Workers -> Procs], NEW w \in Workers, MarkDone(w)
  PROVE  Conserved'
<1>1. white \in Nat /\ full \in Nat /\ local \in [Procs -> Nat] /\ wbBuf \in [Procs -> Nat]
  BY ConservedTypes
<1>2. CASE UNCHANGED workVars
  BY <1>2 DEF workVars, Conserved
<1>3. ASSUME NEW p \in Procs, RaggedBarrier(w, p) PROVE Conserved'
  <2>1. /\ full' = full + local[p] + wbBuf[p] /\ white' = white
        /\ local' = [local EXCEPT ![p] = 0] /\ wbBuf' = [wbBuf EXCEPT ![p] = 0]
    BY <1>3 DEF RaggedBarrier
  <2>2. /\ local[p] - local[p] = 0 /\ local[p] \in 0 .. local[p]
        /\ wbBuf[p] - wbBuf[p] = 0 /\ wbBuf[p] \in 0 .. wbBuf[p]
    BY <1>1
  <2>3. Tallied(white, full + local[p], [local EXCEPT ![p] = local[p] - local[p]], wbBuf)
    BY <2>2, LocalToFull DEF Conserved
  <2>4. Tallied(white, full + local[p] + wbBuf[p], [local EXCEPT ![p] = local[p] - local[p]],
                       [wbBuf EXCEPT ![p] = wbBuf[p] - wbBuf[p]])
    BY <2>2, <2>3, BufferToFull
  <2> QED
    BY <2>1, <2>2, <2>4 DEF Conserved
<1>4. ASSUME NEW from, NEW next, FlushCheck(w, from, next) PROVE Conserved'
  <2>1. UNCHANGED <<white, full>>
    BY <1>4 DEF FlushCheck
  <2>2. CASE UNCHANGED <<local, wbBuf>>
    BY <2>1, <2>2 DEF Conserved
  <2>3. ASSUME NEW p \in Procs, local' = [local EXCEPT ![p] = local[p] + wbBuf[p]],
               wbBuf' = [wbBuf EXCEPT ![p] = 0]
        PROVE  Conserved'
    <3>1. wbBuf[p] - wbBuf[p] = 0 /\ wbBuf[p] \in 0 .. wbBuf[p]
      BY <1>1
    <3>2. Tallied(white, full, [local EXCEPT ![p] = local[p] + wbBuf[p]],
                               [wbBuf EXCEPT ![p] = wbBuf[p] - wbBuf[p]])
      BY <3>1, BufferToLocal DEF Conserved
    <3> QED
      BY <2>1, <2>3, <3>1, <3>2 DEF Conserved
  <2> QED
    BY <1>4, <2>2, <2>3 DEF FlushCheck
<1>5. CASE DetectReport(w)
  <2>1. PICK p \in Procs : p = on[w]
    OBVIOUS
  <2>2. PICK k \in 0 .. white : \E left, buffered \in 0 .. k :
          /\ left + buffered <= k
          /\ white' = white - k
          /\ local' = [q \in Procs |-> IF q = p THEN left ELSE 0]
          /\ wbBuf' = [q \in Procs |-> IF q = p THEN buffered ELSE 0]
    BY <1>5, <2>1 DEF DetectReport
  <2>3. PICK left \in 0 .. k, buffered \in 0 .. k :
          /\ left + buffered <= k
          /\ white' = white - k
          /\ local' = [q \in Procs |-> IF q = p THEN left ELSE 0]
          /\ wbBuf' = [q \in Procs |-> IF q = p THEN buffered ELSE 0]
    BY <2>2
  <2> DEFINE none == [q \in Procs |-> 0]
             lo1 == [none EXCEPT ![p] = none[p] + left]
             wb1 == [none EXCEPT ![p] = none[p] + buffered]
  <2>4. none \in [Procs -> Nat] /\ \A q \in Procs : none[q] <= local[q] /\ none[q] <= wbBuf[q]
    BY <1>1
  <2>5. /\ k \in Nat /\ left \in Nat /\ buffered \in Nat /\ left \in 0 .. white
        /\ white - left \in Nat /\ buffered \in 0 .. (white - left)
        /\ white - k \in 0 .. (white - left - buffered)
    BY <1>1, <2>3
  <2>6. white \in 0 .. white /\ 0 \in 0 .. full /\ 0 \in 0 .. 0
    BY <1>1
  <2>7. Tallied(white, 0, none, none)
    <3> HIDE DEF none
    <3> QED
      BY <2>4, <2>6, TalliedFewer DEF Conserved, PerP
  <2>8. Tallied(white - left, 0, lo1, none)
    <3> HIDE DEF none
    <3> QED
      BY <2>5, <2>7, WhiteToLocal
  <2>9. Tallied(white - left - buffered, 0, lo1, wb1)
    <3> HIDE DEF none, lo1
    <3> QED
      BY <2>5, <2>8, WhiteToBuffer
  <2>10. lo1 = local' /\ wb1 = wbBuf'
    <3>1. /\ lo1 \in [Procs -> Nat] /\ \A q \in Procs : lo1[q] = IF q = p THEN left ELSE 0
          /\ wb1 \in [Procs -> Nat] /\ \A q \in Procs : wb1[q] = IF q = p THEN buffered ELSE 0
      BY <2>4, <2>5
    <3> HIDE DEF lo1, wb1
    <3> QED
      BY <2>3, <3>1
  <2>11. /\ lo1 \in [Procs -> Nat] /\ wb1 \in [Procs -> Nat]
         /\ \A q \in Procs : lo1[q] <= lo1[q] /\ wb1[q] <= wb1[q]
    BY <2>4, <2>5
  <2>12. Tallied(white - k, 0, lo1, wb1)
    <3> HIDE DEF lo1, wb1
    <3> QED
      BY <2>5, <2>6, <2>9, <2>11, TalliedFewer DEF PerP
  <2>13. full' = 0
    BY <1>5 DEF DetectReport
  <2> QED
    BY <2>3, <2>10, <2>12, <2>13 DEF Conserved
<1>6. CASE Acquire(w) \/ Discover(w) \/ Recheck(w) \/ StartBarrier(w) \/ EndBarrier(w)
             \/ StopTheWorld(w) \/ DetectMore(w) \/ DetectNone(w)
  BY <1>2, <1>6 DEF Acquire, Discover, Recheck, StartBarrier, EndBarrier, StopTheWorld, DetectMore,
                    DetectNone
<1> QED
  BY <1>3, <1>4, <1>5, <1>6 DEF MarkDone, FirstFlushCheck, SecondFlushCheck

LEMMA ConservedInit == Init => Conserved
<1> SUFFICES ASSUME Init PROVE Conserved
  OBVIOUS
<1>1. white \in 0 .. MaxWhite /\ full = 0 /\ MaxWhite \in Nat
  BY BoundsAssumption DEF Init
<1>2. white \in Nat /\ local \in PerP /\ wbBuf \in PerP
  BY <1>1 DEF Init, PerP
<1> DEFINE c == Tally(white, full, local, wbBuf)
           f == [u \in Units(c) |-> u[2]]
<1>3. \A x \in Place : c[x] = IF x = White THEN white ELSE 0
  <2> SUFFICES ASSUME NEW x \in Place PROVE c[x] = IF x = White THEN white ELSE 0
    OBVIOUS
  <2>1. CASE x = White \/ x = Full
    BY <1>1, <2>1, TallyAt, Places
  <2>2. ASSUME NEW p \in Procs, x = Local(p) \/ x = Buffer(p)
        PROVE  c[x] = IF x = White THEN white ELSE 0
    <3>1. local[p] = 0 /\ wbBuf[p] = 0
      BY DEF Init
    <3> QED
      BY <2>2, <3>1, TallyAt, Places
  <2> QED
    BY <2>1, <2>2, Places
<1> HIDE DEF c
<1>4. \A u \in Units(c) : u = <<White, u[2]>> /\ u[2] \in 1 .. MaxWhite
  <2> SUFFICES ASSUME NEW u \in Units(c) PROVE u = <<White, u[2]>> /\ u[2] \in 1 .. MaxWhite
    OBVIOUS
  <2>1. u = <<u[1], u[2]>> /\ u[1] \in Place /\ u[2] \in Nat \ {0} /\ u[2] <= c[u[1]]
    BY DEF Units
  <2>2. u[1] = White
    BY <1>3, <2>1
  <2> QED
    BY <1>1, <1>3, <2>1, <2>2
<1>5. f \in [Units(c) -> 1 .. MaxWhite] /\ \A u, v \in Units(c) : f[u] = f[v] => u = v
  BY <1>4
<1>6. Numbered(c)
  <2> HIDE DEF f
  <2> QED
    BY <1>5 DEF Numbered
<1> QED
  BY <1>1, <1>2, <1>6 DEF Conserved, Tallied, c

LEMMA BufferWriteConserved ==
  ASSUME Conserved, NEW p \in Procs, BufferWrite(p)
  PROVE  Conserved'
<1>1. 1 \in 0 .. white
  BY ConservedTypes DEF BufferWrite
<1>2. Tallied(white - 1, full, local, [wbBuf EXCEPT ![p] = wbBuf[p] + 1])
  BY <1>1, WhiteToBuffer DEF Conserved
<1> QED
  BY <1>2 DEF BufferWrite, Conserved

\* The other parts of TypeOK.
Bounded ==
  /\ flushedWork \subseteq Procs /\ on \in [Workers -> Procs]
  /\ passed \subseteq Procs /\ barrierFlushed \in BOOLEAN /\ preemptoff \subseteq Procs
  /\ detours \in 0 .. MaxDetours
  /\ blocked <= MaxBlocked /\ jobs + blocked <= MaxJobs + MaxBlocked

LEMMA BoundedInit == Init => Bounded
<1> SUFFICES ASSUME Init PROVE Bounded
  OBVIOUS
<1>1. /\ jobs \in 1 .. MaxJobs /\ blocked \in 0 .. MaxBlocked /\ detours = 0
      /\ MaxJobs \in Nat /\ MaxBlocked \in Nat /\ MaxDetours \in Nat
  BY BoundsAssumption DEF Init
<1>2. blocked <= MaxBlocked /\ jobs + blocked <= MaxJobs + MaxBlocked /\ detours \in 0 .. MaxDetours
  BY <1>1
<1> QED
  BY <1>2 DEF Init, Bounded

\* k goroutines become root jobs.
LEMMA JobsAppended ==
  ASSUME Types, Bounded, NEW k \in 0 .. blocked, blocked' = blocked - k, jobs' = jobs + k
  PROVE  blocked' <= MaxBlocked /\ jobs' + blocked' <= MaxJobs + MaxBlocked
<1>1. /\ k \in Nat /\ k <= blocked /\ blocked \in Nat /\ jobs \in Nat /\ MaxJobs \in Nat
      /\ MaxBlocked \in Nat /\ blocked <= MaxBlocked /\ jobs + blocked <= MaxJobs + MaxBlocked
  BY BoundsAssumption DEF Types, Bounded
<1>2. blocked - k <= MaxBlocked /\ (jobs + k) + (blocked - k) <= MaxJobs + MaxBlocked
  BY <1>1
<1> QED
  BY <1>2

LEMMA BoundedStep == Types /\ Bounded /\ [Next]_vars => Bounded'
<1> SUFFICES ASSUME Types, Bounded, [Next]_vars PROVE Bounded'
  OBVIOUS
<1>0. /\ jobs \in Nat /\ blocked \in Nat /\ detours \in Nat
      /\ MaxJobs \in Nat /\ MaxBlocked \in Nat /\ MaxDetours \in Nat
  BY BoundsAssumption DEF Types, Bounded
<1> USE DEF workVars, barrierVars
<1>1. ASSUME NEW p \in Procs, BufferWrite(p) PROVE Bounded'
  BY <1>1 DEF BufferWrite, Bounded
<1>2. ASSUME NEW w \in Workers, NEW p \in Procs, Start(w, p) PROVE Bounded'
  <2>1. detours' = detours \/ (detours < MaxDetours /\ detours' = detours + 1)
    BY <1>2 DEF Start
  <2>2. detours' \in 0 .. MaxDetours
    BY <1>0, <2>1 DEF Bounded
  <2> QED
    BY <1>2, <2>2 DEF Start, Bounded
<1>3. ASSUME NEW w \in Workers, Preempted(w) PROVE Bounded'
  <2>1. detours' = detours \/ (detours < MaxDetours /\ detours' = detours + 1)
    BY <1>3 DEF Preempted
  <2>2. detours' \in 0 .. MaxDetours
    BY <1>0, <2>1 DEF Bounded
  <2> QED
    BY <1>3, <2>2 DEF Preempted, Bounded
<1>4. ASSUME NEW w \in Workers, MarkRoot(w) PROVE Bounded'
  <2>1. jobs > 0 /\ jobs' = jobs - 1 /\ blocked' = blocked
    BY <1>4 DEF MarkRoot
  <2>2. (jobs - 1) + blocked <= MaxJobs + MaxBlocked
    BY <1>0, <2>1 DEF Bounded
  <2> QED
    BY <1>4, <2>1, <2>2 DEF MarkRoot, Bounded
<1>5. ASSUME NEW w \in Workers, Balance(w) PROVE Bounded'
  BY <1>5 DEF Balance, Bounded
<1>6. ASSUME NEW w \in Workers,
             NoMoreRoots(w) \/ GetAndScan(w) \/ FlushOrStop(w) \/ Stop(w)
               \/ Acquire(w) \/ Recheck(w) \/ StopTheWorld(w) \/ DetectNone(w)
      PROVE  Bounded'
  BY <1>6 DEF NoMoreRoots, GetAndScan, FlushOrStop, Stop, Acquire, Recheck, StopTheWorld, DetectNone,
              Bounded
<1>7. ASSUME NEW w \in Workers, Discover(w) \/ DetectMore(w) PROVE Bounded'
  <2>1. PICK k \in 0 .. blocked : blocked' = blocked - k /\ jobs' = jobs + k
    <3>1. 1 .. blocked \subseteq 0 .. blocked
      BY <1>0
    <3> QED
      BY <1>7, <3>1 DEF Discover, DetectMore
  <2>2. blocked' <= MaxBlocked /\ jobs' + blocked' <= MaxJobs + MaxBlocked
    BY <2>1, JobsAppended
  <2> QED
    BY <1>7, <2>2 DEF Discover, DetectMore, Bounded
<1>8. ASSUME NEW w \in Workers, StartBarrier(w) PROVE Bounded'
  BY <1>8 DEF StartBarrier, Bounded
<1>9. ASSUME NEW w \in Workers, NEW p \in Procs, RaggedBarrier(w, p) PROVE Bounded'
  BY <1>9 DEF RaggedBarrier, Bounded
<1>10. ASSUME NEW w \in Workers, EndBarrier(w) PROVE Bounded'
  BY <1>10 DEF EndBarrier, Bounded
<1>11. ASSUME NEW w \in Workers, FirstFlushCheck(w) \/ SecondFlushCheck(w) PROVE Bounded'
  <2>1. preemptoff' \subseteq preemptoff
    BY <1>11 DEF FirstFlushCheck, SecondFlushCheck, FlushCheck
  <2> QED
    BY <1>11, <2>1 DEF FirstFlushCheck, SecondFlushCheck, FlushCheck, Bounded
<1>12. ASSUME NEW w \in Workers, DetectReport(w) PROVE Bounded'
  <2>1. jobs' = 0 /\ blocked' = 0
    BY <1>12 DEF DetectReport
  <2>2. 0 <= MaxBlocked /\ 0 + 0 <= MaxJobs + MaxBlocked
    BY <1>0
  <2> QED
    BY <1>12, <2>1, <2>2 DEF DetectReport, Bounded
<1>13. CASE UNCHANGED vars
  BY <1>13 DEF vars, Bounded
<1> QED
  BY <1>1, <1>2, <1>3, <1>4, <1>5, <1>6, <1>7, <1>8, <1>9, <1>10, <1>11, <1>12, <1>13
     DEF Next, Drain, MarkDone

\* Objects move between the program, the Ps and the global queue but are never counted
\* twice; whatever is flushed, balanced or found behind the barrier, no counter exceeds the
\* objects there were, and no root job is published twice.
THEOREM MarkDoneTypeOK == Spec => []TypeOK
<1> DEFINE Inv == IInv /\ Conserved /\ Bounded
<1>1. Init => Inv
  BY InitIInv, ConservedInit, BoundedInit
<1>2. Inv /\ [Next]_vars => Inv'
  <2> SUFFICES ASSUME Inv, [Next]_vars PROVE Inv'
    OBVIOUS
  <2>1. IInv' /\ Bounded'
    BY NextIInv, BoundedStep DEF IInv
  <2>2. on \in [Workers -> Procs]
    BY DEF Bounded
  <2>3. CASE \E p \in Procs : BufferWrite(p)
    BY <2>1, <2>3, BufferWriteConserved
  <2>4. ASSUME NEW w \in Workers, NEW p \in Procs, Start(w, p) PROVE Conserved'
    BY <2>4 DEF Start, workVars, Conserved
  <2>5. CASE UNCHANGED vars
    BY <2>1, <2>5 DEF vars, workVars, Conserved
  <2> QED
    BY <2>1, <2>2, <2>3, <2>4, <2>5, DrainConserved, MarkDoneConserved DEF Next
<1>3. Inv => TypeOK
  <2> SUFFICES ASSUME Inv PROVE TypeOK
    OBVIOUS
  <2>1. /\ white \in 0 .. MaxWhite /\ full \in 0 .. MaxWhite
        /\ local \in [Procs -> 0 .. MaxWhite] /\ wbBuf \in [Procs -> 0 .. MaxWhite]
    BY TalliedBound DEF Conserved
  <2>2. jobs \in 0 .. (MaxJobs + MaxBlocked) /\ blocked \in 0 .. MaxBlocked
    BY BoundsAssumption DEF IInv, Types, Bounded
  <2> QED
    BY <2>1, <2>2 DEF IInv, Types, Bounded, TypeOK
<1> QED
  BY <1>1, <1>2, <1>3, PTL DEF Spec
=============================================================================
