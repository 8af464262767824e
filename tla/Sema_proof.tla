----------------------------- MODULE Sema_proof -----------------------------
(***************************************************************************)
(* nwait is exact, no wake-up is missed and no permit is lost, for every   *)
(* number of goroutines and semaphores and however many calls there are.   *)
(* All three are statements about how many goroutines are at certain       *)
(* places; the proof follows each of these sets through every action.      *)
(***************************************************************************)
EXTENDS Sema, FiniteSetTheorems, TLAPS

Locked == {"recheck", "undo", "queue", "rrecheck", "runlock"}
WakerAt == {"runlock", "handoff", "wake"}

(* root.lock is held by whoever is between lock and unlock.                *)
Locking == \A p \in Proc : lock = p <=> pc[p] \in Locked

(* A dequeued waiter belongs to one releaser, who has not yet handed it    *)
(* anything before the handoff.                                            *)
Waking ==
  /\ \A p \in Proc : pc[p] \in WakerAt =>
       /\ pc[wakes[p]] = "dequeued" /\ addr[wakes[p]] = addr[p]
       /\ pc[p] # "wake" => ticket[wakes[p]] = 0
  /\ \A p, q \in Proc : pc[p] \in WakerAt /\ pc[q] \in WakerAt /\ wakes[p] = wakes[q] => p = q

DoomedQuiet == \A a \in doomed : \A p \in Proc : addr[p] = a => pc[p] \in {"idle", "parked"}

(* Goroutines that own a permit they have not returned with yet.           *)
Granted(a) ==
  {p \in Proc : addr[p] = a /\ (pc[p] = "undo" \/ (pc[p] \in {"dequeued", "ready"} /\ ticket[p] = 1))}

Conserved == \A a \in Addr : permits[a] = value[a] + Cardinality(Granted(a))

(* NoMissedWakeup must hold already when the waiter is about to be queued: *)
(* a permit it did not see then was released after nwait had been raised.  *)
Waiting(a) == \E p \in Proc : addr[p] = a /\ pc[p] \in {"queue", "parked"}
Offered == \A a \in Addr : Waiting(a) => value[a] <= Cardinality(InFlight(a))

Control == TypeOK /\ Locking /\ Waking /\ DoomedQuiet
IInv == Control /\ NwaitExact /\ Conserved /\ Offered

-----------------------------------------------------------------------------
LEMMA Finite == \A S \in SUBSET Proc : IsFiniteSet(S) /\ Cardinality(S) \in Nat
  BY ProcAssumption, FS_Subset, FS_CardinalityType

LEMMA Grow == \A S \in SUBSET Proc : \A p \in Proc \ S : Cardinality(S \cup {p}) = Cardinality(S) + 1
  BY Finite, FS_AddElement

LEMMA Shrink ==
  \A S \in SUBSET Proc : \A p \in S : Cardinality(S \ {p}) = Cardinality(S) - 1 /\ Cardinality(S) > 0
<1> SUFFICES ASSUME NEW S \in SUBSET Proc, NEW p \in S
             PROVE  Cardinality(S \ {p}) = Cardinality(S) - 1 /\ Cardinality(S) > 0
  OBVIOUS
<1>1. IsFiniteSet(S) /\ Cardinality(S) \in Nat
  BY Finite
<1>2. Cardinality(S \ {p}) = Cardinality(S) - 1
  BY <1>1, FS_RemoveElement
<1>3. Cardinality(S) # 0
  BY <1>1, FS_EmptySet
<1>. QED
  BY <1>1, <1>2, <1>3

LEMMA Swap ==
  \A S \in SUBSET Proc : \A p \in Proc \ S, q \in S : Cardinality((S \ {q}) \cup {p}) = Cardinality(S)
<1> SUFFICES ASSUME NEW S \in SUBSET Proc, NEW p \in Proc \ S, NEW q \in S
             PROVE  Cardinality((S \ {q}) \cup {p}) = Cardinality(S)
  OBVIOUS
<1>1. Cardinality(S \ {q}) = Cardinality(S) - 1 /\ Cardinality(S) \in Nat
  BY Shrink, Finite
<1>2. Cardinality((S \ {q}) \cup {p}) = Cardinality(S \ {q}) + 1
  BY Grow
<1>. QED
  BY <1>1, <1>2

LEMMA Empty == Cardinality({}) = 0 /\ \A S \in SUBSET Proc : Cardinality(S) = 0 => S = {}
  BY Finite, FS_EmptySet

LEMMA Steps ==
  ASSUME [Next]_vars
  PROVE  \/ UNCHANGED vars
         \/ \E p \in Proc, a \in Addr : AcquireEasy(p, a)
         \/ \E p \in Proc, a \in Addr : AcquireHard(p, a)
         \/ \E p \in Proc : AddWaiter(p)
         \/ \E p \in Proc : RecheckSucceeds(p)
         \/ \E p \in Proc : Undo(p)
         \/ \E p \in Proc : RecheckFails(p)
         \/ \E p \in Proc : Queue(p)
         \/ \E p \in Proc : HandedOff(p)
         \/ \E p \in Proc : ReadySucceeds(p)
         \/ \E p \in Proc : ReadyFails(p)
         \/ \E p \in Proc, a \in Addr : Release(p, a)
         \/ \E p \in Proc : NobodyWaits(p)
         \/ \E p \in Proc : SomebodyWaits(p)
         \/ \E p \in Proc : LockRoot(p)
         \/ \E p \in Proc : AlreadyConsumed(p)
         \/ \E p \in Proc : NobodyOnAddr(p)
         \/ \E p \in Proc, w \in Proc : Dequeue(p, w)
         \/ \E p \in Proc : Unlock(p)
         \/ \E p \in Proc : Handoff(p)
         \/ \E p \in Proc : NoHandoff(p)
         \/ \E p \in Proc : readyWithTime(p)
         \/ \E a \in Addr : Report(a)
         \/ \E p \in Proc : GcDequeue(p)
         \/ \E a \in Addr : Reuse(a)
  BY Zenon DEF Next, Call, Continue, Collect

LEMMA CountedSet == Counted \in SUBSET Proc
  BY DEF Counted

(* Whatever changes nwait moves one goroutine into or out of what it counts. *)
(* A dequeued waiter is replaced by the releaser that will subtract it. *)
LEMMA CountStep ==
  ASSUME IInv, [Next]_vars
  PROVE  NwaitExact'
<1>1. ASSUME NEW p \in Proc,
            \/ RecheckSucceeds(p)
            \/ RecheckFails(p)
            \/ Queue(p)
            \/ HandedOff(p)
            \/ ReadySucceeds(p)
     PROVE  NwaitExact'
  <2>1. Counted' = Counted /\ nwait' = nwait
    BY <1>1 DEF RecheckSucceeds, RecheckFails, Queue, HandedOff, ReadySucceeds, cansemacquire,
      GoTo, Acquired, IInv, Control, TypeOK, Waking, WakerAt, NwaitExact, Counted
  <2>. QED
    BY <2>1 DEF NwaitExact, IInv
<1>2. ASSUME NEW p \in Proc,
            \/ ReadyFails(p)
            \/ NobodyWaits(p)
            \/ SomebodyWaits(p)
            \/ LockRoot(p)
            \/ AlreadyConsumed(p)
     PROVE  NwaitExact'
  <2>1. Counted' = Counted /\ nwait' = nwait
    BY <1>2 DEF ReadyFails, NobodyWaits, SomebodyWaits, LockRoot, AlreadyConsumed, GoTo, IInv,
      Control, TypeOK, Waking, WakerAt, NwaitExact, Counted
  <2>. QED
    BY <2>1 DEF NwaitExact, IInv
<1>3. ASSUME NEW p \in Proc,
            \/ NobodyOnAddr(p)
            \/ Handoff(p)
            \/ NoHandoff(p)
            \/ readyWithTime(p)
     PROVE  NwaitExact'
  <2>1. Counted' = Counted /\ nwait' = nwait
    BY <1>3 DEF NobodyOnAddr, Handoff, NoHandoff, readyWithTime, cansemacquire, GoTo, Parked,
      IInv, Control, TypeOK, Waking, WakerAt, NwaitExact, Counted
  <2>. QED
    BY <2>1 DEF NwaitExact, IInv
<1>4. ASSUME NEW p \in Proc, NEW a \in Addr,
            \/ AcquireEasy(p, a)
            \/ AcquireHard(p, a)
            \/ Release(p, a)
     PROVE  NwaitExact'
  <2>1. Counted' = Counted /\ nwait' = nwait
    BY <1>4 DEF AcquireEasy, AcquireHard, Release, cansemacquire, GoTo, Acquired, IInv, Control,
      TypeOK, Waking, WakerAt, NwaitExact, Counted
  <2>. QED
    BY <2>1 DEF NwaitExact, IInv
<1>5. ASSUME NEW a \in Addr,
            \/ Report(a)
            \/ Reuse(a)
     PROVE  NwaitExact'
  <2>1. Counted' = Counted /\ nwait' = nwait
    BY <1>5 DEF Report, Reuse, Parked, IInv, Control, TypeOK, Waking, WakerAt, NwaitExact, Counted
  <2>. QED
    BY <2>1 DEF NwaitExact, IInv
<1>6. ASSUME NEW p \in Proc,
            AddWaiter(p)
     PROVE  NwaitExact'
  <2>1. Counted' = Counted \cup {p} /\ p \notin Counted /\ nwait' = nwait + 1
    BY <1>6 DEF AddWaiter, GoTo, IInv, Control, TypeOK, Waking, WakerAt, NwaitExact, Counted
  <2>. QED
    BY <2>1, CountedSet, Grow DEF NwaitExact, IInv
<1>7. ASSUME NEW p \in Proc,
            \/ Undo(p)
            \/ Unlock(p)
            \/ GcDequeue(p)
     PROVE  NwaitExact'
  <2>1. Counted' = Counted \ {p} /\ p \in Counted /\ nwait' = nwait - 1
    BY <1>7 DEF Undo, Unlock, GcDequeue, GoTo, Acquired, IInv, Control, TypeOK, Waking, WakerAt,
      NwaitExact, Counted
  <2>. QED
    BY <2>1, CountedSet, Shrink DEF NwaitExact, IInv
<1>8. ASSUME NEW p \in Proc, NEW w \in Proc,
            Dequeue(p, w)
     PROVE  NwaitExact'
  <2>1. Counted' = (Counted \ {w}) \cup {p} /\ p \notin Counted /\ w \in Counted /\ nwait' = nwait
    BY <1>8 DEF Dequeue, Parked, IInv, Control, TypeOK, Waking, WakerAt, NwaitExact, Counted
  <2>. QED
    BY <2>1, CountedSet, Swap DEF NwaitExact, IInv
<1>9. CASE UNCHANGED vars
  BY <1>9 DEF vars, IInv, Control, TypeOK, Waking, WakerAt, NwaitExact, Counted
<1>. QED
  BY <1>1, <1>2, <1>3, <1>4, <1>5, <1>6, <1>7, <1>8, <1>9, Steps

LEMMA GrantedSet == \A a : Granted(a) \in SUBSET Proc
  BY DEF Granted

(* A permit that leaves the counter is granted to one goroutine, and a grant ends when that *)
(* goroutine returns: permits follows. *)
LEMMA ConserveStep ==
  ASSUME IInv, [Next]_vars
  PROVE  Conserved'
<1>1. ASSUME NEW p \in Proc,
            \/ AddWaiter(p)
            \/ RecheckFails(p)
            \/ Queue(p)
            \/ ReadySucceeds(p)
            \/ ReadyFails(p)
     PROVE  Conserved'
  <2> SUFFICES ASSUME NEW b \in Addr
               PROVE  permits'[b] = value'[b] + Cardinality(Granted(b)')
    BY DEF Conserved
  <2>0. permits[b] = value[b] + Cardinality(Granted(b)) /\ Cardinality(Granted(b)) \in Nat
    BY GrantedSet, Finite DEF IInv, Conserved
  <2>t. permits[b] \in Int /\ value[b] \in Nat
    BY DEF IInv, Control, TypeOK
  <2>1. Granted(b)' = Granted(b) /\ permits'[b] - value'[b] = permits[b] - value[b]
        /\ permits'[b] \in Int /\ value'[b] \in Int
    BY <1>1 DEF AddWaiter, RecheckFails, Queue, ReadySucceeds, ReadyFails, cansemacquire, GoTo,
      Acquired, IInv, Control, TypeOK, Waking, WakerAt, Granted
  <2>. QED
    BY <2>0, <2>1, <2>t
<1>2. ASSUME NEW p \in Proc,
            \/ NobodyWaits(p)
            \/ SomebodyWaits(p)
            \/ LockRoot(p)
            \/ AlreadyConsumed(p)
            \/ NobodyOnAddr(p)
     PROVE  Conserved'
  <2> SUFFICES ASSUME NEW b \in Addr
               PROVE  permits'[b] = value'[b] + Cardinality(Granted(b)')
    BY DEF Conserved
  <2>0. permits[b] = value[b] + Cardinality(Granted(b)) /\ Cardinality(Granted(b)) \in Nat
    BY GrantedSet, Finite DEF IInv, Conserved
  <2>t. permits[b] \in Int /\ value[b] \in Nat
    BY DEF IInv, Control, TypeOK
  <2>1. Granted(b)' = Granted(b) /\ permits'[b] - value'[b] = permits[b] - value[b]
        /\ permits'[b] \in Int /\ value'[b] \in Int
    BY <1>2 DEF NobodyWaits, SomebodyWaits, LockRoot, AlreadyConsumed, NobodyOnAddr, GoTo, Parked,
      IInv, Control, TypeOK, Waking, WakerAt, Granted
  <2>. QED
    BY <2>0, <2>1, <2>t
<1>3. ASSUME NEW p \in Proc,
            \/ Unlock(p)
            \/ NoHandoff(p)
            \/ readyWithTime(p)
            \/ GcDequeue(p)
     PROVE  Conserved'
  <2> SUFFICES ASSUME NEW b \in Addr
               PROVE  permits'[b] = value'[b] + Cardinality(Granted(b)')
    BY DEF Conserved
  <2>0. permits[b] = value[b] + Cardinality(Granted(b)) /\ Cardinality(Granted(b)) \in Nat
    BY GrantedSet, Finite DEF IInv, Conserved
  <2>t. permits[b] \in Int /\ value[b] \in Nat
    BY DEF IInv, Control, TypeOK
  <2>1. Granted(b)' = Granted(b) /\ permits'[b] - value'[b] = permits[b] - value[b]
        /\ permits'[b] \in Int /\ value'[b] \in Int
    BY <1>3 DEF Unlock, NoHandoff, readyWithTime, GcDequeue, GoTo, IInv, Control, TypeOK, Waking,
      WakerAt, Granted
  <2>. QED
    BY <2>0, <2>1, <2>t
<1>4. ASSUME NEW p \in Proc, NEW a \in Addr,
            \/ AcquireEasy(p, a)
            \/ AcquireHard(p, a)
            \/ Release(p, a)
     PROVE  Conserved'
  <2> SUFFICES ASSUME NEW b \in Addr
               PROVE  permits'[b] = value'[b] + Cardinality(Granted(b)')
    BY DEF Conserved
  <2>0. permits[b] = value[b] + Cardinality(Granted(b)) /\ Cardinality(Granted(b)) \in Nat
    BY GrantedSet, Finite DEF IInv, Conserved
  <2>t. permits[b] \in Int /\ value[b] \in Nat
    BY DEF IInv, Control, TypeOK
  <2>1. Granted(b)' = Granted(b) /\ permits'[b] - value'[b] = permits[b] - value[b]
        /\ permits'[b] \in Int /\ value'[b] \in Int
    BY <1>4 DEF AcquireEasy, AcquireHard, Release, cansemacquire, GoTo, Acquired, IInv, Control,
      TypeOK, Waking, WakerAt, Granted
  <2>. QED
    BY <2>0, <2>1, <2>t
<1>5. ASSUME NEW p \in Proc, NEW w \in Proc,
            Dequeue(p, w)
     PROVE  Conserved'
  <2> SUFFICES ASSUME NEW b \in Addr
               PROVE  permits'[b] = value'[b] + Cardinality(Granted(b)')
    BY DEF Conserved
  <2>0. permits[b] = value[b] + Cardinality(Granted(b)) /\ Cardinality(Granted(b)) \in Nat
    BY GrantedSet, Finite DEF IInv, Conserved
  <2>t. permits[b] \in Int /\ value[b] \in Nat
    BY DEF IInv, Control, TypeOK
  <2>1. Granted(b)' = Granted(b) /\ permits'[b] - value'[b] = permits[b] - value[b]
        /\ permits'[b] \in Int /\ value'[b] \in Int
    BY <1>5 DEF Dequeue, Parked, IInv, Control, TypeOK, Waking, WakerAt, Granted
  <2>. QED
    BY <2>0, <2>1, <2>t
<1>6. ASSUME NEW a \in Addr,
            Report(a)
     PROVE  Conserved'
  <2> SUFFICES ASSUME NEW b \in Addr
               PROVE  permits'[b] = value'[b] + Cardinality(Granted(b)')
    BY DEF Conserved
  <2>0. permits[b] = value[b] + Cardinality(Granted(b)) /\ Cardinality(Granted(b)) \in Nat
    BY GrantedSet, Finite DEF IInv, Conserved
  <2>t. permits[b] \in Int /\ value[b] \in Nat
    BY DEF IInv, Control, TypeOK
  <2>1. Granted(b)' = Granted(b) /\ permits'[b] - value'[b] = permits[b] - value[b]
        /\ permits'[b] \in Int /\ value'[b] \in Int
    BY <1>6 DEF Report, Parked, IInv, Control, TypeOK, Waking, WakerAt, Granted
  <2>. QED
    BY <2>0, <2>1, <2>t
<1>7. ASSUME NEW p \in Proc,
            RecheckSucceeds(p)
     PROVE  Conserved'
  <2> SUFFICES ASSUME NEW b \in Addr
               PROVE  permits'[b] = value'[b] + Cardinality(Granted(b)')
    BY DEF Conserved
  <2>0. permits[b] = value[b] + Cardinality(Granted(b)) /\ Cardinality(Granted(b)) \in Nat
    BY GrantedSet, Finite DEF IInv, Conserved
  <2>t. permits[b] \in Int /\ value[b] \in Nat
    BY DEF IInv, Control, TypeOK
  <2>1. CASE b = addr[p]
    <3>1. Granted(b)' = Granted(b) \cup {p} /\ p \in Proc \ Granted(b)
      BY <1>7, <2>1 DEF RecheckSucceeds, cansemacquire, GoTo, IInv, Control, TypeOK, Granted
    <3>2. permits'[b] = permits[b] /\ value'[b] = value[b] - 1
      BY <1>7, <2>1 DEF RecheckSucceeds, cansemacquire, GoTo, IInv, Control, TypeOK, Granted
    <3>. QED
      BY <2>0, <2>t, <3>1, <3>2, GrantedSet, Grow
  <2>2. CASE b # addr[p]
    <3>1. Granted(b)' = Granted(b) /\ permits'[b] = permits[b] /\ value'[b] = value[b]
      BY <1>7, <2>2 DEF RecheckSucceeds, cansemacquire, GoTo, IInv, Control, TypeOK, Granted
    <3>. QED
      BY <2>0, <3>1
  <2>. QED
    BY <2>1, <2>2
<1>8. ASSUME NEW p \in Proc,
            Handoff(p)
     PROVE  Conserved'
  <2> SUFFICES ASSUME NEW b \in Addr
               PROVE  permits'[b] = value'[b] + Cardinality(Granted(b)')
    BY DEF Conserved
  <2>0. permits[b] = value[b] + Cardinality(Granted(b)) /\ Cardinality(Granted(b)) \in Nat
    BY GrantedSet, Finite DEF IInv, Conserved
  <2>t. permits[b] \in Int /\ value[b] \in Nat
    BY DEF IInv, Control, TypeOK
  <2>1. CASE b = addr[p]
    <3>1. Granted(b)' = Granted(b) \cup {wakes[p]} /\ wakes[p] \in Proc \ Granted(b)
      BY <1>8, <2>1 DEF Handoff, cansemacquire, GoTo, IInv, Control, TypeOK, Waking, WakerAt,
        Granted
    <3>2. permits'[b] = permits[b] /\ value'[b] = value[b] - 1
      BY <1>8, <2>1 DEF Handoff, cansemacquire, GoTo, IInv, Control, TypeOK, Waking, WakerAt,
        Granted
    <3>. QED
      BY <2>0, <2>t, <3>1, <3>2, GrantedSet, Grow
  <2>2. CASE b # addr[p]
    <3>1. Granted(b)' = Granted(b) /\ permits'[b] = permits[b] /\ value'[b] = value[b]
      BY <1>8, <2>2 DEF Handoff, cansemacquire, GoTo, IInv, Control, TypeOK, Waking, WakerAt,
        Granted
    <3>. QED
      BY <2>0, <3>1
  <2>. QED
    BY <2>1, <2>2
<1>9. ASSUME NEW p \in Proc,
            \/ Undo(p)
            \/ HandedOff(p)
     PROVE  Conserved'
  <2> SUFFICES ASSUME NEW b \in Addr
               PROVE  permits'[b] = value'[b] + Cardinality(Granted(b)')
    BY DEF Conserved
  <2>0. permits[b] = value[b] + Cardinality(Granted(b)) /\ Cardinality(Granted(b)) \in Nat
    BY GrantedSet, Finite DEF IInv, Conserved
  <2>t. permits[b] \in Int /\ value[b] \in Nat
    BY DEF IInv, Control, TypeOK
  <2>1. CASE b = addr[p]
    <3>1. Granted(b)' = Granted(b) \ {p} /\ p \in Granted(b)
      BY <1>9, <2>1 DEF Undo, HandedOff, GoTo, Acquired, IInv, Control, TypeOK, Granted
    <3>2. permits'[b] = permits[b] - 1 /\ value'[b] = value[b]
      BY <1>9, <2>1 DEF Undo, HandedOff, GoTo, Acquired, IInv, Control, TypeOK, Granted
    <3>. QED
      BY <2>0, <2>t, <3>1, <3>2, GrantedSet, Shrink
  <2>2. CASE b # addr[p]
    <3>1. Granted(b)' = Granted(b) /\ permits'[b] = permits[b] /\ value'[b] = value[b]
      BY <1>9, <2>2 DEF Undo, HandedOff, GoTo, Acquired, IInv, Control, TypeOK, Granted
    <3>. QED
      BY <2>0, <3>1
  <2>. QED
    BY <2>1, <2>2
<1>10. ASSUME NEW a \in Addr,
            Reuse(a)
     PROVE  Conserved'
  <2> SUFFICES ASSUME NEW b \in Addr
               PROVE  permits'[b] = value'[b] + Cardinality(Granted(b)')
    BY DEF Conserved
  <2>0. permits[b] = value[b] + Cardinality(Granted(b)) /\ Cardinality(Granted(b)) \in Nat
    BY GrantedSet, Finite DEF IInv, Conserved
  <2>t. permits[b] \in Int /\ value[b] \in Nat
    BY DEF IInv, Control, TypeOK
  <2>1. CASE b = a
    <3>1. Granted(b)' = {} /\ permits'[b] = 0 /\ value'[b] = 0
      BY <1>10, <2>1 DEF DoomedQuiet, Reuse, Parked, IInv, Control, TypeOK, Waking, WakerAt, Granted
    <3>. QED
      BY <3>1, Empty
  <2>2. CASE b # a
    <3>1. Granted(b)' = Granted(b) /\ permits'[b] = permits[b] /\ value'[b] = value[b]
      BY <1>10, <2>2 DEF Reuse, Parked, IInv, Control, TypeOK, Waking, WakerAt, Granted
    <3>. QED
      BY <2>0, <3>1
  <2>. QED
    BY <2>1, <2>2
<1>11. CASE UNCHANGED vars
  BY <1>11 DEF vars, Conserved, IInv, Control, TypeOK, Waking, WakerAt, Granted
<1>. QED
  BY <1>1, <1>2, <1>3, <1>4, <1>5, <1>6, <1>7, <1>8, <1>9, <1>10, <1>11, Steps

LEMMA InFlightSet == \A a : InFlight(a) \in SUBSET Proc
  BY DEF InFlight

(* A release adds a permit and a goroutine in flight; whoever leaves the flight has taken a *)
(* permit, seen that there is none, or seen that nobody waits. *)
LEMMA OfferStep ==
  ASSUME IInv, [Next]_vars
  PROVE  Offered'
<1>1. ASSUME NEW p \in Proc,
            \/ AddWaiter(p)
            \/ RecheckSucceeds(p)
            \/ Undo(p)
            \/ Queue(p)
            \/ HandedOff(p)
     PROVE  Offered'
  <2> SUFFICES ASSUME NEW b \in Addr, Waiting(b)'
               PROVE  value'[b] <= Cardinality(InFlight(b)')
    BY DEF Offered
  <2>0. Waiting(b) => value[b] <= Cardinality(InFlight(b))
    BY DEF IInv, Offered
  <2>t. value[b] \in Nat /\ Cardinality(InFlight(b)) \in Nat /\ Cardinality(InFlight(b)') \in Nat
    BY InFlightSet, Finite DEF IInv, Control, TypeOK, InFlight
  <2>1. InFlight(b)' = InFlight(b) /\ Waiting(b) /\ value'[b] \in Nat /\ value'[b] <= value[b]
    BY <1>1 DEF Waiting, AddWaiter, RecheckSucceeds, Undo, Queue, HandedOff, cansemacquire, GoTo,
      Acquired, IInv, Control, TypeOK, Waking, WakerAt, InFlight
  <2>. QED
    BY <2>0, <2>1, <2>t
<1>2. ASSUME NEW p \in Proc,
            \/ SomebodyWaits(p)
            \/ LockRoot(p)
            \/ Unlock(p)
            \/ NoHandoff(p)
            \/ readyWithTime(p)
     PROVE  Offered'
  <2> SUFFICES ASSUME NEW b \in Addr, Waiting(b)'
               PROVE  value'[b] <= Cardinality(InFlight(b)')
    BY DEF Offered
  <2>0. Waiting(b) => value[b] <= Cardinality(InFlight(b))
    BY DEF IInv, Offered
  <2>t. value[b] \in Nat /\ Cardinality(InFlight(b)) \in Nat /\ Cardinality(InFlight(b)') \in Nat
    BY InFlightSet, Finite DEF IInv, Control, TypeOK, InFlight
  <2>1. InFlight(b)' = InFlight(b) /\ Waiting(b) /\ value'[b] \in Nat /\ value'[b] <= value[b]
    BY <1>2 DEF Waiting, SomebodyWaits, LockRoot, Unlock, NoHandoff, readyWithTime, GoTo, IInv,
      Control, TypeOK, Waking, WakerAt, InFlight
  <2>. QED
    BY <2>0, <2>1, <2>t
<1>3. ASSUME NEW p \in Proc,
            GcDequeue(p)
     PROVE  Offered'
  <2> SUFFICES ASSUME NEW b \in Addr, Waiting(b)'
               PROVE  value'[b] <= Cardinality(InFlight(b)')
    BY DEF Offered
  <2>0. Waiting(b) => value[b] <= Cardinality(InFlight(b))
    BY DEF IInv, Offered
  <2>t. value[b] \in Nat /\ Cardinality(InFlight(b)) \in Nat /\ Cardinality(InFlight(b)') \in Nat
    BY InFlightSet, Finite DEF IInv, Control, TypeOK, InFlight
  <2>1. InFlight(b)' = InFlight(b) /\ Waiting(b) /\ value'[b] \in Nat /\ value'[b] <= value[b]
    BY <1>3 DEF Waiting, GcDequeue, GoTo, IInv, Control, TypeOK, Waking, WakerAt, InFlight
  <2>. QED
    BY <2>0, <2>1, <2>t
<1>4. ASSUME NEW p \in Proc, NEW a \in Addr,
            \/ AcquireEasy(p, a)
            \/ AcquireHard(p, a)
     PROVE  Offered'
  <2> SUFFICES ASSUME NEW b \in Addr, Waiting(b)'
               PROVE  value'[b] <= Cardinality(InFlight(b)')
    BY DEF Offered
  <2>0. Waiting(b) => value[b] <= Cardinality(InFlight(b))
    BY DEF IInv, Offered
  <2>t. value[b] \in Nat /\ Cardinality(InFlight(b)) \in Nat /\ Cardinality(InFlight(b)') \in Nat
    BY InFlightSet, Finite DEF IInv, Control, TypeOK, InFlight
  <2>1. InFlight(b)' = InFlight(b) /\ Waiting(b) /\ value'[b] \in Nat /\ value'[b] <= value[b]
    BY <1>4 DEF Waiting, AcquireEasy, AcquireHard, cansemacquire, GoTo, Acquired, IInv, Control,
      TypeOK, Waking, WakerAt, InFlight
  <2>. QED
    BY <2>0, <2>1, <2>t
<1>5. ASSUME NEW a \in Addr,
            Report(a)
     PROVE  Offered'
  <2> SUFFICES ASSUME NEW b \in Addr, Waiting(b)'
               PROVE  value'[b] <= Cardinality(InFlight(b)')
    BY DEF Offered
  <2>0. Waiting(b) => value[b] <= Cardinality(InFlight(b))
    BY DEF IInv, Offered
  <2>t. value[b] \in Nat /\ Cardinality(InFlight(b)) \in Nat /\ Cardinality(InFlight(b)') \in Nat
    BY InFlightSet, Finite DEF IInv, Control, TypeOK, InFlight
  <2>1. InFlight(b)' = InFlight(b) /\ Waiting(b) /\ value'[b] \in Nat /\ value'[b] <= value[b]
    BY <1>5 DEF Waiting, Report, Parked, IInv, Control, TypeOK, Waking, WakerAt, InFlight
  <2>. QED
    BY <2>0, <2>1, <2>t
<1>6. ASSUME NEW p \in Proc,
            RecheckFails(p)
     PROVE  Offered'
  <2> SUFFICES ASSUME NEW b \in Addr, Waiting(b)'
               PROVE  value'[b] <= Cardinality(InFlight(b)')
    BY DEF Offered
  <2>0. Waiting(b) => value[b] <= Cardinality(InFlight(b))
    BY DEF IInv, Offered
  <2>t. value[b] \in Nat /\ Cardinality(InFlight(b)) \in Nat /\ Cardinality(InFlight(b)') \in Nat
    BY InFlightSet, Finite DEF IInv, Control, TypeOK, InFlight
  <2>1. CASE b = addr[p]
    <3>1. value'[b] = 0
      BY <1>6, <2>1 DEF RecheckFails, GoTo, IInv, Control, TypeOK, Waking, WakerAt, InFlight
    <3>. QED
      BY <2>t, <3>1
  <2>2. CASE b # addr[p]
    <3>1. InFlight(b)' = InFlight(b) /\ Waiting(b) /\ value'[b] = value[b]
      BY <1>6, <2>2 DEF Waiting, RecheckFails, GoTo, IInv, Control, TypeOK, Waking, WakerAt,
        InFlight
    <3>. QED
      BY <2>0, <3>1
  <2>. QED
    BY <2>1, <2>2
<1>7. ASSUME NEW p \in Proc, NEW a \in Addr,
            Release(p, a)
     PROVE  Offered'
  <2> SUFFICES ASSUME NEW b \in Addr, Waiting(b)'
               PROVE  value'[b] <= Cardinality(InFlight(b)')
    BY DEF Offered
  <2>0. Waiting(b) => value[b] <= Cardinality(InFlight(b))
    BY DEF IInv, Offered
  <2>t. value[b] \in Nat /\ Cardinality(InFlight(b)) \in Nat /\ Cardinality(InFlight(b)') \in Nat
    BY InFlightSet, Finite DEF IInv, Control, TypeOK, InFlight
  <2>1. CASE b = a
    <3>1. InFlight(b)' = InFlight(b) \cup {p} /\ p \in Proc \ InFlight(b)
      BY <1>7, <2>1 DEF Release, GoTo, IInv, Control, TypeOK, Waking, WakerAt, InFlight
    <3>2. Waiting(b) /\ value'[b] = value[b] + 1
      BY <1>7, <2>1 DEF Waiting, Release, GoTo, IInv, Control, TypeOK, Waking, WakerAt, InFlight
    <3>. QED
      BY <2>0, <2>t, <3>1, <3>2, InFlightSet, Grow
  <2>2. CASE b # a
    <3>1. InFlight(b)' = InFlight(b) /\ Waiting(b) /\ value'[b] = value[b]
      BY <1>7, <2>2 DEF Waiting, Release, GoTo, IInv, Control, TypeOK, Waking, WakerAt, InFlight
    <3>. QED
      BY <2>0, <3>1
  <2>. QED
    BY <2>1, <2>2
<1>8. ASSUME NEW p \in Proc,
            ReadySucceeds(p)
     PROVE  Offered'
  <2> SUFFICES ASSUME NEW b \in Addr, Waiting(b)'
               PROVE  value'[b] <= Cardinality(InFlight(b)')
    BY DEF Offered
  <2>0. Waiting(b) => value[b] <= Cardinality(InFlight(b))
    BY DEF IInv, Offered
  <2>t. value[b] \in Nat /\ Cardinality(InFlight(b)) \in Nat /\ Cardinality(InFlight(b)') \in Nat
    BY InFlightSet, Finite DEF IInv, Control, TypeOK, InFlight
  <2>1. CASE b = addr[p]
    <3>1. InFlight(b)' = InFlight(b) \ {p} /\ p \in InFlight(b)
      BY <1>8, <2>1 DEF ReadySucceeds, cansemacquire, GoTo, Acquired, IInv, Control, TypeOK,
        Waking, WakerAt, InFlight
    <3>2. Waiting(b) /\ value'[b] = value[b] - 1
      BY <1>8, <2>1 DEF Waiting, ReadySucceeds, cansemacquire, GoTo, Acquired, IInv, Control,
        TypeOK, Waking, WakerAt, InFlight
    <3>. QED
      BY <2>0, <2>t, <3>1, <3>2, InFlightSet, Shrink
  <2>2. CASE b # addr[p]
    <3>1. InFlight(b)' = InFlight(b) /\ Waiting(b) /\ value'[b] = value[b]
      BY <1>8, <2>2 DEF Waiting, ReadySucceeds, cansemacquire, GoTo, Acquired, IInv, Control,
        TypeOK, Waking, WakerAt, InFlight
    <3>. QED
      BY <2>0, <3>1
  <2>. QED
    BY <2>1, <2>2
<1>9. ASSUME NEW p \in Proc,
            ReadyFails(p)
     PROVE  Offered'
  <2> SUFFICES ASSUME NEW b \in Addr, Waiting(b)'
               PROVE  value'[b] <= Cardinality(InFlight(b)')
    BY DEF Offered
  <2>0. Waiting(b) => value[b] <= Cardinality(InFlight(b))
    BY DEF IInv, Offered
  <2>t. value[b] \in Nat /\ Cardinality(InFlight(b)) \in Nat /\ Cardinality(InFlight(b)') \in Nat
    BY InFlightSet, Finite DEF IInv, Control, TypeOK, InFlight
  <2>1. CASE b = addr[p]
    <3>1. value'[b] = 0
      BY <1>9, <2>1 DEF ReadyFails, GoTo, IInv, Control, TypeOK, Waking, WakerAt, InFlight
    <3>. QED
      BY <2>t, <3>1
  <2>2. CASE b # addr[p]
    <3>1. InFlight(b)' = InFlight(b) /\ Waiting(b) /\ value'[b] = value[b]
      BY <1>9, <2>2 DEF Waiting, ReadyFails, GoTo, IInv, Control, TypeOK, Waking, WakerAt, InFlight
    <3>. QED
      BY <2>0, <3>1
  <2>. QED
    BY <2>1, <2>2
<1>10. ASSUME NEW p \in Proc,
            \/ NobodyWaits(p)
            \/ AlreadyConsumed(p)
     PROVE  Offered'
  <2> SUFFICES ASSUME NEW b \in Addr
               PROVE  ~ Waiting(b)'
    BY DEF Offered
  <2>1. nwait = 0 /\ (Waiting(b)' => Waiting(b))
    BY <1>10 DEF Waiting, NobodyWaits, AlreadyConsumed, GoTo, IInv, Control, TypeOK, Waking,
      WakerAt, InFlight
  <2>2. Counted = {}
    BY <2>1, CountedSet, Empty DEF IInv, NwaitExact
  <2>3. ~ Waiting(b)
    BY <2>2 DEF Counted, Waiting
  <2>. QED
    BY <2>1, <2>3
<1>11. ASSUME NEW p \in Proc,
            NobodyOnAddr(p)
     PROVE  Offered'
  <2> SUFFICES ASSUME NEW b \in Addr, Waiting(b)'
               PROVE  value'[b] <= Cardinality(InFlight(b)')
    BY DEF Offered
  <2>0. Waiting(b) => value[b] <= Cardinality(InFlight(b))
    BY DEF IInv, Offered
  <2>t. value[b] \in Nat /\ Cardinality(InFlight(b)) \in Nat /\ Cardinality(InFlight(b)') \in Nat
    BY InFlightSet, Finite DEF IInv, Control, TypeOK, InFlight
  <2>1. CASE b = addr[p]
    <3>1. lock = p
      BY <1>11 DEF Locking, Locked, NobodyOnAddr, GoTo, Parked, IInv, Control, TypeOK, Waking,
        WakerAt, InFlight
    <3>2. \A q \in Proc : pc[q] # "queue"
      BY <1>11, <3>1 DEF Locking, Locked, NobodyOnAddr, GoTo, Parked, IInv, Control, TypeOK,
        Waking, WakerAt, InFlight
    <3>3. ~ Waiting(b)'
      BY <1>11, <2>1, <3>2 DEF Waiting, NobodyOnAddr, GoTo, Parked, IInv, Control, TypeOK, Waking,
        WakerAt, InFlight
    <3>. QED
      BY <3>3
  <2>2. CASE b # addr[p]
    <3>1. InFlight(b)' = InFlight(b) /\ Waiting(b) /\ value'[b] = value[b]
      BY <1>11, <2>2 DEF Waiting, NobodyOnAddr, GoTo, Parked, IInv, Control, TypeOK, Waking,
        WakerAt, InFlight
    <3>. QED
      BY <2>0, <3>1
  <2>. QED
    BY <2>1, <2>2
<1>12. ASSUME NEW p \in Proc, NEW w \in Proc,
            Dequeue(p, w)
     PROVE  Offered'
  <2> SUFFICES ASSUME NEW b \in Addr, Waiting(b)'
               PROVE  value'[b] <= Cardinality(InFlight(b)')
    BY DEF Offered
  <2>0. Waiting(b) => value[b] <= Cardinality(InFlight(b))
    BY DEF IInv, Offered
  <2>t. value[b] \in Nat /\ Cardinality(InFlight(b)) \in Nat /\ Cardinality(InFlight(b)') \in Nat
    BY InFlightSet, Finite DEF IInv, Control, TypeOK, InFlight
  <2>1. CASE b = addr[p]
    <3>1. InFlight(b)' = (InFlight(b) \ {p}) \cup {w} /\ w \in Proc \ InFlight(b) /\ p \in InFlight(b)
      BY <1>12, <2>1 DEF Dequeue, Parked, IInv, Control, TypeOK, Waking, WakerAt, InFlight
    <3>2. Waiting(b) /\ value'[b] = value[b]
      BY <1>12, <2>1 DEF Waiting, Dequeue, Parked, IInv, Control, TypeOK, Waking, WakerAt, InFlight
    <3>. QED
      BY <2>0, <2>t, <3>1, <3>2, InFlightSet, Swap
  <2>2. CASE b # addr[p]
    <3>1. InFlight(b)' = InFlight(b) /\ Waiting(b) /\ value'[b] = value[b]
      BY <1>12, <2>2 DEF Waiting, Dequeue, Parked, IInv, Control, TypeOK, Waking, WakerAt, InFlight
    <3>. QED
      BY <2>0, <3>1
  <2>. QED
    BY <2>1, <2>2
<1>13. ASSUME NEW p \in Proc,
            Handoff(p)
     PROVE  Offered'
  <2> SUFFICES ASSUME NEW b \in Addr, Waiting(b)'
               PROVE  value'[b] <= Cardinality(InFlight(b)')
    BY DEF Offered
  <2>0. Waiting(b) => value[b] <= Cardinality(InFlight(b))
    BY DEF IInv, Offered
  <2>t. value[b] \in Nat /\ Cardinality(InFlight(b)) \in Nat /\ Cardinality(InFlight(b)') \in Nat
    BY InFlightSet, Finite DEF IInv, Control, TypeOK, InFlight
  <2>1. CASE b = addr[p]
    <3>1. InFlight(b)' = InFlight(b) \ {wakes[p]} /\ wakes[p] \in InFlight(b)
      BY <1>13, <2>1 DEF Handoff, cansemacquire, GoTo, IInv, Control, TypeOK, Waking, WakerAt,
        InFlight
    <3>2. Waiting(b) /\ value'[b] = value[b] - 1
      BY <1>13, <2>1 DEF Waiting, Handoff, cansemacquire, GoTo, IInv, Control, TypeOK, Waking,
        WakerAt, InFlight
    <3>. QED
      BY <2>0, <2>t, <3>1, <3>2, InFlightSet, Shrink
  <2>2. CASE b # addr[p]
    <3>1. InFlight(b)' = InFlight(b) /\ Waiting(b) /\ value'[b] = value[b]
      BY <1>13, <2>2 DEF Waiting, Handoff, cansemacquire, GoTo, IInv, Control, TypeOK, Waking,
        WakerAt, InFlight
    <3>. QED
      BY <2>0, <3>1
  <2>. QED
    BY <2>1, <2>2
<1>14. ASSUME NEW a \in Addr,
            Reuse(a)
     PROVE  Offered'
  <2> SUFFICES ASSUME NEW b \in Addr, Waiting(b)'
               PROVE  value'[b] <= Cardinality(InFlight(b)')
    BY DEF Offered
  <2>0. Waiting(b) => value[b] <= Cardinality(InFlight(b))
    BY DEF IInv, Offered
  <2>t. value[b] \in Nat /\ Cardinality(InFlight(b)) \in Nat /\ Cardinality(InFlight(b)') \in Nat
    BY InFlightSet, Finite DEF IInv, Control, TypeOK, InFlight
  <2>1. CASE b = a
    <3>1. value'[b] = 0
      BY <1>14, <2>1 DEF Reuse, Parked, IInv, Control, TypeOK, Waking, WakerAt, InFlight
    <3>. QED
      BY <2>t, <3>1
  <2>2. CASE b # a
    <3>1. InFlight(b)' = InFlight(b) /\ Waiting(b) /\ value'[b] = value[b]
      BY <1>14, <2>2 DEF Waiting, Reuse, Parked, IInv, Control, TypeOK, Waking, WakerAt, InFlight
    <3>. QED
      BY <2>0, <3>1
  <2>. QED
    BY <2>1, <2>2
<1>15. CASE UNCHANGED vars
  BY <1>15 DEF vars, Offered, Waiting, IInv, Control, TypeOK, Waking, WakerAt, InFlight
<1>. QED
  BY <1>1, <1>2, <1>3, <1>4, <1>5, <1>6, <1>7, <1>8, <1>9, <1>10, <1>11, <1>12, <1>13, <1>14,
    <1>15, Steps

(* The lock excludes, every dequeued waiter has one waker, nobody works on a doomed semaphore. *)
LEMMA ControlStep ==
  ASSUME IInv, [Next]_vars
  PROVE  Control'
<1>1. ASSUME NEW p \in Proc,
            \/ AddWaiter(p)
            \/ RecheckSucceeds(p)
            \/ Undo(p)
     PROVE  Control'
  <2>1. nwait' \in Nat
    BY CountStep, CountedSet, Finite DEF NwaitExact, Counted
  <2>2. TypeOK'
    BY <1>1, <2>1, BoundsAssumption DEF AddWaiter, RecheckSucceeds, Undo, cansemacquire, GoTo,
      Acquired, IInv, Control, TypeOK, Acquiring, Releasing
  <2>3. Locking'
    BY <1>1, ProcAssumption DEF AddWaiter, RecheckSucceeds, Undo, cansemacquire, GoTo, Acquired,
      Locking, Locked, Waking, WakerAt, IInv, Control, TypeOK
  <2>4. Waking'
    BY <1>1 DEF AddWaiter, RecheckSucceeds, Undo, cansemacquire, GoTo, Acquired, Locking, Locked,
      Waking, WakerAt, DoomedQuiet, IInv, Control, TypeOK, Acquiring, Releasing
  <2>5. DoomedQuiet'
    BY <1>1 DEF AddWaiter, RecheckSucceeds, Undo, cansemacquire, GoTo, Acquired, Locking, Locked,
      Waking, WakerAt, DoomedQuiet, IInv, Control, TypeOK, Acquiring, Releasing
  <2>. QED
    BY <2>2, <2>3, <2>4, <2>5 DEF Control
<1>2. ASSUME NEW p \in Proc,
            \/ RecheckFails(p)
            \/ Queue(p)
            \/ HandedOff(p)
     PROVE  Control'
  <2>1. nwait' \in Nat
    BY CountStep, CountedSet, Finite DEF NwaitExact, Counted
  <2>2. TypeOK'
    BY <1>2, <2>1, BoundsAssumption DEF RecheckFails, Queue, HandedOff, GoTo, Acquired, IInv,
      Control, TypeOK, Acquiring, Releasing
  <2>3. Locking'
    BY <1>2, ProcAssumption DEF RecheckFails, Queue, HandedOff, GoTo, Acquired, Locking, Locked,
      Waking, WakerAt, IInv, Control, TypeOK
  <2>4. Waking'
    BY <1>2 DEF RecheckFails, Queue, HandedOff, GoTo, Acquired, Locking, Locked, Waking, WakerAt,
      DoomedQuiet, IInv, Control, TypeOK, Acquiring, Releasing
  <2>5. DoomedQuiet'
    BY <1>2 DEF RecheckFails, Queue, HandedOff, GoTo, Acquired, Locking, Locked, Waking, WakerAt,
      DoomedQuiet, IInv, Control, TypeOK, Acquiring, Releasing
  <2>. QED
    BY <2>2, <2>3, <2>4, <2>5 DEF Control
<1>3. ASSUME NEW p \in Proc,
            \/ ReadySucceeds(p)
            \/ ReadyFails(p)
            \/ NobodyWaits(p)
     PROVE  Control'
  <2>1. nwait' \in Nat
    BY CountStep, CountedSet, Finite DEF NwaitExact, Counted
  <2>2. TypeOK'
    BY <1>3, <2>1, BoundsAssumption DEF ReadySucceeds, ReadyFails, NobodyWaits, cansemacquire,
      GoTo, Acquired, IInv, Control, TypeOK, Acquiring, Releasing
  <2>3. Locking'
    BY <1>3, ProcAssumption DEF ReadySucceeds, ReadyFails, NobodyWaits, cansemacquire, GoTo,
      Acquired, Locking, Locked, Waking, WakerAt, IInv, Control, TypeOK
  <2>4. Waking'
    BY <1>3 DEF ReadySucceeds, ReadyFails, NobodyWaits, cansemacquire, GoTo, Acquired, Locking,
      Locked, Waking, WakerAt, DoomedQuiet, IInv, Control, TypeOK, Acquiring, Releasing
  <2>5. DoomedQuiet'
    BY <1>3 DEF ReadySucceeds, ReadyFails, NobodyWaits, cansemacquire, GoTo, Acquired, Locking,
      Locked, Waking, WakerAt, DoomedQuiet, IInv, Control, TypeOK, Acquiring, Releasing
  <2>. QED
    BY <2>2, <2>3, <2>4, <2>5 DEF Control
<1>4. ASSUME NEW p \in Proc,
            \/ SomebodyWaits(p)
            \/ LockRoot(p)
            \/ AlreadyConsumed(p)
     PROVE  Control'
  <2>1. nwait' \in Nat
    BY CountStep, CountedSet, Finite DEF NwaitExact, Counted
  <2>2. TypeOK'
    BY <1>4, <2>1, BoundsAssumption DEF SomebodyWaits, LockRoot, AlreadyConsumed, GoTo, IInv,
      Control, TypeOK, Acquiring, Releasing
  <2>3. Locking'
    BY <1>4, ProcAssumption DEF SomebodyWaits, LockRoot, AlreadyConsumed, GoTo, Locking, Locked,
      Waking, WakerAt, IInv, Control, TypeOK
  <2>4. Waking'
    BY <1>4 DEF SomebodyWaits, LockRoot, AlreadyConsumed, GoTo, Locking, Locked, Waking, WakerAt,
      DoomedQuiet, IInv, Control, TypeOK, Acquiring, Releasing
  <2>5. DoomedQuiet'
    BY <1>4 DEF SomebodyWaits, LockRoot, AlreadyConsumed, GoTo, Locking, Locked, Waking, WakerAt,
      DoomedQuiet, IInv, Control, TypeOK, Acquiring, Releasing
  <2>. QED
    BY <2>2, <2>3, <2>4, <2>5 DEF Control
<1>5. ASSUME NEW p \in Proc,
            \/ NobodyOnAddr(p)
            \/ Unlock(p)
            \/ Handoff(p)
     PROVE  Control'
  <2>1. nwait' \in Nat
    BY CountStep, CountedSet, Finite DEF NwaitExact, Counted
  <2>2. TypeOK'
    BY <1>5, <2>1, BoundsAssumption DEF NobodyOnAddr, Unlock, Handoff, cansemacquire, GoTo,
      Parked, IInv, Control, TypeOK, Acquiring, Releasing
  <2>3. Locking'
    BY <1>5, ProcAssumption DEF NobodyOnAddr, Unlock, Handoff, cansemacquire, GoTo, Parked,
      Locking, Locked, Waking, WakerAt, IInv, Control, TypeOK
  <2>4. Waking'
    BY <1>5 DEF NobodyOnAddr, Unlock, Handoff, cansemacquire, GoTo, Parked, Locking, Locked,
      Waking, WakerAt, DoomedQuiet, IInv, Control, TypeOK, Acquiring, Releasing
  <2>5. DoomedQuiet'
    BY <1>5 DEF NobodyOnAddr, Unlock, Handoff, cansemacquire, GoTo, Parked, Locking, Locked,
      Waking, WakerAt, DoomedQuiet, IInv, Control, TypeOK, Acquiring, Releasing
  <2>. QED
    BY <2>2, <2>3, <2>4, <2>5 DEF Control
<1>6. ASSUME NEW p \in Proc,
            \/ NoHandoff(p)
            \/ readyWithTime(p)
            \/ GcDequeue(p)
     PROVE  Control'
  <2>1. nwait' \in Nat
    BY CountStep, CountedSet, Finite DEF NwaitExact, Counted
  <2>2. TypeOK'
    BY <1>6, <2>1, BoundsAssumption DEF NoHandoff, readyWithTime, GcDequeue, GoTo, IInv, Control,
      TypeOK, Acquiring, Releasing
  <2>3. Locking'
    BY <1>6, ProcAssumption DEF NoHandoff, readyWithTime, GcDequeue, GoTo, Locking, Locked,
      Waking, WakerAt, IInv, Control, TypeOK
  <2>4. Waking'
    BY <1>6 DEF NoHandoff, readyWithTime, GcDequeue, GoTo, Locking, Locked, Waking, WakerAt,
      DoomedQuiet, IInv, Control, TypeOK, Acquiring, Releasing
  <2>5. DoomedQuiet'
    BY <1>6 DEF NoHandoff, readyWithTime, GcDequeue, GoTo, Locking, Locked, Waking, WakerAt,
      DoomedQuiet, IInv, Control, TypeOK, Acquiring, Releasing
  <2>. QED
    BY <2>2, <2>3, <2>4, <2>5 DEF Control
<1>7. ASSUME NEW p \in Proc, NEW a \in Addr,
            \/ AcquireEasy(p, a)
            \/ AcquireHard(p, a)
            \/ Release(p, a)
     PROVE  Control'
  <2>1. nwait' \in Nat
    BY CountStep, CountedSet, Finite DEF NwaitExact, Counted
  <2>2. TypeOK'
    BY <1>7, <2>1, BoundsAssumption DEF AcquireEasy, AcquireHard, Release, cansemacquire, GoTo,
      Acquired, IInv, Control, TypeOK, Acquiring, Releasing
  <2>3. Locking'
    BY <1>7, ProcAssumption DEF AcquireEasy, AcquireHard, Release, cansemacquire, GoTo, Acquired,
      Locking, Locked, Waking, WakerAt, IInv, Control, TypeOK
  <2>4. Waking'
    BY <1>7 DEF AcquireEasy, AcquireHard, Release, cansemacquire, GoTo, Acquired, Locking, Locked,
      Waking, WakerAt, DoomedQuiet, IInv, Control, TypeOK, Acquiring, Releasing
  <2>5. DoomedQuiet'
    BY <1>7 DEF AcquireEasy, AcquireHard, Release, cansemacquire, GoTo, Acquired, Locking, Locked,
      Waking, WakerAt, DoomedQuiet, IInv, Control, TypeOK, Acquiring, Releasing
  <2>. QED
    BY <2>2, <2>3, <2>4, <2>5 DEF Control
<1>8. ASSUME NEW p \in Proc, NEW w \in Proc,
            Dequeue(p, w)
     PROVE  Control'
  <2>1. nwait' \in Nat
    BY CountStep, CountedSet, Finite DEF NwaitExact, Counted
  <2>2. TypeOK'
    BY <1>8, <2>1, BoundsAssumption DEF Dequeue, Parked, IInv, Control, TypeOK, Acquiring, Releasing
  <2>3. Locking'
    BY <1>8, ProcAssumption DEF Dequeue, Parked, Locking, Locked, Waking, WakerAt, IInv, Control,
      TypeOK
  <2>4. Waking'
    BY <1>8 DEF Dequeue, Parked, Locking, Locked, Waking, WakerAt, DoomedQuiet, IInv, Control,
      TypeOK, Acquiring, Releasing
  <2>5. DoomedQuiet'
    BY <1>8 DEF Dequeue, Parked, Locking, Locked, Waking, WakerAt, DoomedQuiet, IInv, Control,
      TypeOK, Acquiring, Releasing
  <2>. QED
    BY <2>2, <2>3, <2>4, <2>5 DEF Control
<1>9. ASSUME NEW a \in Addr,
            \/ Report(a)
            \/ Reuse(a)
     PROVE  Control'
  <2>1. nwait' \in Nat
    BY CountStep, CountedSet, Finite DEF NwaitExact, Counted
  <2>2. TypeOK'
    BY <1>9, <2>1, BoundsAssumption DEF Report, Reuse, Parked, IInv, Control, TypeOK, Acquiring,
      Releasing
  <2>3. Locking'
    BY <1>9, ProcAssumption DEF Report, Reuse, Parked, Locking, Locked, Waking, WakerAt, IInv,
      Control, TypeOK
  <2>4. Waking'
    BY <1>9 DEF Report, Reuse, Parked, Locking, Locked, Waking, WakerAt, DoomedQuiet, IInv,
      Control, TypeOK, Acquiring, Releasing
  <2>5. DoomedQuiet'
    BY <1>9 DEF Report, Reuse, Parked, Locking, Locked, Waking, WakerAt, DoomedQuiet, IInv,
      Control, TypeOK, Acquiring, Releasing
  <2>. QED
    BY <2>2, <2>3, <2>4, <2>5 DEF Control
<1>10. CASE UNCHANGED vars
  BY <1>10 DEF vars, Locking, Locked, Waking, WakerAt, DoomedQuiet, IInv, Control, TypeOK,
    Acquiring, Releasing
<1>. QED
  BY <1>1, <1>2, <1>3, <1>4, <1>5, <1>6, <1>7, <1>8, <1>9, <1>10, Steps

(* The initial states: nobody is anywhere. *)
LEMMA InitIInv == Init => IInv
<1> SUFFICES ASSUME Init
             PROVE  IInv
  OBVIOUS
<1>1. Control
  BY ProcAssumption, BoundsAssumption DEF Init, Control, TypeOK, Locking, Locked, Waking, WakerAt,
    DoomedQuiet
<1>2. Counted = {}
  BY DEF Init, Counted
<1>3. \A a \in Addr : Granted(a) = {} /\ ~ Waiting(a)
  BY DEF Init, Granted, Waiting
<1>4. \A a \in Addr : permits[a] = value[a] /\ value[a] \in Int
  BY DEF Init
<1>5. NwaitExact
  BY <1>2, Empty DEF NwaitExact, Init
<1>6. Conserved
  BY <1>3, <1>4, Empty DEF Conserved
<1>7. Offered
  BY <1>3 DEF Offered
<1>. QED
  BY <1>1, <1>5, <1>6, <1>7 DEF IInv

LEMMA NextIInv == IInv /\ [Next]_vars => IInv'
  BY CountStep, ConserveStep, OfferStep, ControlStep DEF IInv

(* IInv is an invariant.                                                   *)
THEOREM Invariance == Spec => []IInv
  BY InitIInv, NextIInv, PTL DEF Spec

(* The type invariant of semacquire1 and semrelease1, nwait and the        *)
(* semaphores' counters never wrapping below zero.                         *)
THEOREM TypeCorrect == Spec => []TypeOK
<1>1. IInv => TypeOK
  BY DEF IInv, Control
<1>. QED
  BY <1>1, Invariance, PTL

(* root.nwait is exactly the number of goroutines queued on the root, give *)
(* or take the one that is changing it: the fast path of semrelease1 never *)
(* overlooks a waiter, whatever gcDequeue removes in between.              *)
THEOREM NwaitIsExact == Spec => []NwaitExact
<1>1. IInv => NwaitExact
  BY DEF IInv
<1>. QED
  BY <1>1, Invariance, PTL

(* While somebody is parked on a semaphore, each of its permits has a      *)
(* goroutine on its way to it.                                             *)
THEOREM WakeupsNotMissed == Spec => []NoMissedWakeup
<1>1. IInv => NoMissedWakeup
  BY DEF IInv, Offered, Waiting, NoMissedWakeup, Parked
<1>. QED
  BY <1>1, Invariance, PTL

-----------------------------------------------------------------------------
(* sema.go implements a semaphore: permits change by the abstract actions  *)
(* alone, and an acquisition finds one.                                    *)
LEMMA AbstractStep ==
  ASSUME IInv, [Next]_vars
  PROVE  [Abstract!Next]_permits
<1>1. ASSUME NEW p \in Proc, NEW a \in Addr,
            AcquireEasy(p, a)
     PROVE  [Abstract!Next]_permits
  <2>1. permits[a] > 0
    <3>1. Cardinality(Granted(a)) \in Nat
      BY GrantedSet, Finite
    <3>. QED
      BY <1>1, <3>1 DEF AcquireEasy, cansemacquire, Acquired, IInv, Control, TypeOK, Conserved
  <2>. QED
    BY <1>1, <2>1 DEF Abstract!Next, Abstract!Acquire, AcquireEasy, cansemacquire, Acquired, IInv,
      Control, TypeOK, Conserved
<1>2. ASSUME NEW p \in Proc,
            ReadySucceeds(p)
     PROVE  [Abstract!Next]_permits
  <2>1. permits[addr[p]] > 0 /\ addr[p] \in Addr
    <3>1. Cardinality(Granted(addr[p])) \in Nat
      BY GrantedSet, Finite
    <3>. QED
      BY <1>2, <3>1 DEF ReadySucceeds, cansemacquire, GoTo, Acquired, IInv, Control, TypeOK,
        Conserved
  <2>. QED
    BY <1>2, <2>1 DEF Abstract!Next, Abstract!Acquire, ReadySucceeds, cansemacquire, GoTo,
      Acquired, IInv, Control, TypeOK, Conserved
<1>3. ASSUME NEW p \in Proc,
            \/ Undo(p)
            \/ HandedOff(p)
     PROVE  [Abstract!Next]_permits
  <2>1. permits[addr[p]] > 0 /\ addr[p] \in Addr
    <3>1. p \in Granted(addr[p])
      BY <1>3 DEF Granted, Undo, HandedOff, GoTo, Acquired, IInv, Control, TypeOK, Conserved
    <3>2. Cardinality(Granted(addr[p])) > 0 /\ Cardinality(Granted(addr[p])) \in Nat
      BY <3>1, GrantedSet, Shrink, Finite
    <3>. QED
      BY <3>2 DEF Undo, HandedOff, GoTo, Acquired, IInv, Control, TypeOK, Conserved
  <2>. QED
    BY <1>3, <2>1 DEF Abstract!Next, Abstract!Acquire, Undo, HandedOff, GoTo, Acquired, IInv,
      Control, TypeOK, Conserved
<1>4. ASSUME NEW p \in Proc, NEW a \in Addr,
            Release(p, a)
     PROVE  [Abstract!Next]_permits
  BY <1>4 DEF Abstract!Next, Abstract!Release, Release, GoTo, IInv, Control, TypeOK, Conserved
<1>5. ASSUME NEW a \in Addr,
            Reuse(a)
     PROVE  [Abstract!Next]_permits
  BY <1>5 DEF Abstract!Next, Abstract!Reuse, Reuse, Parked, IInv, Control, TypeOK, Conserved
<1>6. ASSUME NEW p \in Proc,
            \/ AddWaiter(p)
            \/ RecheckSucceeds(p)
            \/ RecheckFails(p)
            \/ Queue(p)
            \/ ReadyFails(p)
            \/ NobodyWaits(p)
            \/ SomebodyWaits(p)
            \/ LockRoot(p)
     PROVE  [Abstract!Next]_permits
  BY <1>6 DEF AddWaiter, RecheckSucceeds, RecheckFails, Queue, ReadyFails, NobodyWaits,
    SomebodyWaits, LockRoot, cansemacquire, GoTo, IInv, Control, TypeOK, Conserved
<1>7. ASSUME NEW p \in Proc,
            \/ AlreadyConsumed(p)
            \/ NobodyOnAddr(p)
            \/ Unlock(p)
            \/ Handoff(p)
            \/ NoHandoff(p)
            \/ readyWithTime(p)
            \/ GcDequeue(p)
     PROVE  [Abstract!Next]_permits
  BY <1>7 DEF AlreadyConsumed, NobodyOnAddr, Unlock, Handoff, NoHandoff, readyWithTime, GcDequeue,
    cansemacquire, GoTo, Parked, IInv, Control, TypeOK, Conserved
<1>8. ASSUME NEW p \in Proc, NEW a \in Addr,
            AcquireHard(p, a)
     PROVE  [Abstract!Next]_permits
  BY <1>8 DEF AcquireHard, GoTo, IInv, Control, TypeOK, Conserved
<1>9. ASSUME NEW p \in Proc, NEW w \in Proc,
            Dequeue(p, w)
     PROVE  [Abstract!Next]_permits
  BY <1>9 DEF Dequeue, Parked, IInv, Control, TypeOK, Conserved
<1>10. ASSUME NEW a \in Addr,
            Report(a)
     PROVE  [Abstract!Next]_permits
  BY <1>10 DEF Report, Parked, IInv, Control, TypeOK, Conserved
<1>11. CASE UNCHANGED vars
  BY <1>11 DEF vars
<1>. QED
  BY <1>1, <1>2, <1>3, <1>4, <1>5, <1>6, <1>7, <1>8, <1>9, <1>10, <1>11, Steps

THEOREM Implementation == Spec => ImplementsSemaphore
<1>1. Init => Abstract!Init
  BY DEF Init, Abstract!Init
<1>2. IInv /\ [Next]_vars => [Abstract!Next]_permits
  BY AbstractStep
<1>. QED
  BY <1>1, <1>2, Invariance, PTL DEF Spec, ImplementsSemaphore, Abstract!Spec
=============================================================================
