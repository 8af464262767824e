----------------------------- MODULE NotifyList -----------------------------
(***************************************************************************)
(* The notify list behind a sync.Cond: waiters take a ticket without the   *)
(* lock, park later, and are notified in the order of their tickets, which *)
(* wrap around.  The collector unlinks waiters it has reported.  What      *)
(* happens under l.lock is one step; a step outside it is one access.      *)
(***************************************************************************)
EXTENDS Integers, FiniteSets, Sequences, SequencesExt

CONSTANTS
  Proc,             \* goroutines, each with the sudog it parks on
  Nil,
  Half              \* half the number of tickets, 2^31 in the code

ASSUME NilAssumption == Nil \notin Proc
ASSUME TicketAssumption == Half \in Nat \ {0}
ASSUME ProcAssumption == IsFiniteSet(Proc)

VARIABLES
  wait, notify,     \* the next ticket to be taken, the next to be notified
  head, tail,       \* the list of parked waiters
  next,             \* goroutine -> s.next of its sudog
  pc,               \* goroutine -> where it is
  ticket,           \* goroutine -> the ticket it took last
  call,             \* goroutine -> the notification it is making, see NoCall
  cursor,           \* goroutine -> the waiter it readies next
  doomed            \* the waiters have been reported

list == <<head, tail, next>>
vars == <<wait, notify, list, pc, ticket, call, cursor, doomed>>

\* A call is NotifyAll or NotifyOne and has loaded seen from l.wait.  History: who
\* was waiting, with which ticket, when it was called (before).  What a call leaves
\* behind is cleared.
NoCall == [all |-> FALSE, seen |-> 0, before |-> {}]

Ticket == 0 .. 2 * Half - 1
Plus(a, b) == (a + b) % (2 * Half)
Minus(a, b) == (a - b) % (2 * Half)

\* mutant: the tickets are compared as they are
lessUnsigned(a, b) == a < b

\* int32(a - b) < 0
less(a, b) == Minus(a, b) >= Half

\* Whoever has a ticket that has not been notified yet, in the order of the tickets.
Owed ==
  {p \in Proc : pc[p] \in {"added", "parked"} /\ Minus(ticket[p], notify) < Minus(wait, notify)}
InOrder(W, key) ==
  [i \in 1 .. Cardinality(W) |-> CHOOSE p \in W : Cardinality({q \in W : key[q] <= key[p]}) = i]
Waiters == InOrder(Owed, [p \in Owed |-> Minus(ticket[p], notify)])
Claims == {<<p, ticket[p]>> : p \in Owed}
InWait == {p \in Proc : pc[p] \in {"added", "parked", "woken"}}

Init ==
  /\ wait \in Ticket /\ notify = wait
  /\ head = Nil /\ tail = Nil /\ next = [p \in Proc |-> Nil]
  /\ pc = [p \in Proc |-> "idle"] /\ ticket = [p \in Proc |-> 0]
  /\ call = [p \in Proc |-> NoCall] /\ cursor = [p \in Proc |-> Nil]
  /\ doomed = FALSE

GoTo(p, l) == pc' = [pc EXCEPT ![p] = l]
EndWait(p) == GoTo(p, "idle") /\ ticket' = [ticket EXCEPT ![p] = 0]
EndCall(p) == GoTo(p, "idle") /\ call' = [call EXCEPT ![p] = NoCall]

\* The sudogs from s on: on the list, or on what notifyListNotifyAll has cut off it.
ChainFrom(s) ==
  {q \in Proc : \A S \in SUBSET Proc :
     (s # Nil => s \in S) /\ (\A p \in S : next[p] # Nil => next[p] \in S) => q \in S}
Listed == ChainFrom(head)

\* mutant: l.tail keeps pointing to the sudog that is gone
UnlinkKeepsTail(s) ==
  LET preds == {p \in Proc : next[p] = s} IN
  /\ head' = IF preds = {} THEN next[s] ELSE head
  /\ next' = [p \in Proc |-> IF p = s THEN Nil ELSE IF p \in preds THEN next[s] ELSE next[p]]
  /\ UNCHANGED tail

Unlink(s) ==
  LET preds == {p \in Proc : next[p] = s} IN
  /\ head' = IF preds = {} THEN next[s] ELSE head
  /\ next' = [p \in Proc |-> IF p = s THEN Nil ELSE IF p \in preds THEN next[s] ELSE next[p]]
  /\ tail' = IF next[s] # Nil THEN tail ELSE IF preds = {} THEN Nil ELSE CHOOSE p \in preds : TRUE
-----------------------------------------------------------------------------
(* sync.Cond.Wait *)
\* The bound, less's own: the "unwrapped" difference of any two counts is less than
\* 2^31.  Nobody holds a ticket, or what it has loaded from l.wait, any longer.
NoneLags ==
  \A q \in Proc :
    /\ pc[q] \in {"added", "parked"} => Minus(wait, ticket[q]) < Half
    /\ pc[q] = "load" => Minus(wait, call[q].seen) < Half

notifyListAdd(p) ==
  /\ pc[p] = "idle" /\ ~ doomed /\ NoneLags
  /\ ticket' = [ticket EXCEPT ![p] = wait] /\ wait' = Plus(wait, 1) /\ GoTo(p, "added")
  /\ UNCHANGED <<notify, list, call, cursor, doomed>>

AlreadyNotified(p) ==
  /\ pc[p] = "added" /\ less(ticket[p], notify) /\ EndWait(p)
  /\ UNCHANGED <<wait, notify, list, call, cursor, doomed>>

Park(p) ==
  /\ pc[p] = "added" /\ ~ less(ticket[p], notify) /\ GoTo(p, "parked")
  /\ head' = IF tail = Nil THEN p ELSE head
  /\ next' = IF tail = Nil THEN next ELSE [next EXCEPT ![tail] = p]
  /\ tail' = p
  /\ UNCHANGED <<wait, notify, ticket, call, cursor, doomed>>

Resume(p) ==
  /\ pc[p] = "woken" /\ EndWait(p)
  /\ UNCHANGED <<wait, notify, list, call, cursor, doomed>>
-----------------------------------------------------------------------------
(* notifyListNotifyOne and notifyListNotifyAll *)
LoadWait(p, a) ==
  /\ pc[p] = "idle" /\ ~ doomed
  /\ call' = [call EXCEPT ![p] = [all |-> a, seen |-> wait, before |-> Claims]]
  /\ GoTo(p, "load")
  /\ UNCHANGED <<wait, notify, list, ticket, cursor, doomed>>

\* mutant: the two counters are compared in the order of tickets, before wrapping
FastPathUnwrapped(p) ==
  /\ pc[p] = "load" /\ call[p].seen <= notify /\ EndCall(p)
  /\ UNCHANGED <<wait, notify, list, ticket, cursor, doomed>>

FastPath(p) ==
  /\ pc[p] = "load" /\ call[p].seen = notify /\ EndCall(p)
  /\ UNCHANGED <<wait, notify, list, ticket, cursor, doomed>>

SlowPath(p) ==
  /\ pc[p] = "load" /\ call[p].seen # notify /\ GoTo(p, "lock")
  /\ call' = [call EXCEPT ![p] = [NoCall EXCEPT !.all = call[p].all]]
  /\ UNCHANGED <<wait, notify, list, ticket, cursor, doomed>>

NotifyNobody(p) ==
  /\ pc[p] = "lock" /\ ~ call[p].all /\ notify = wait /\ EndCall(p)
  /\ UNCHANGED <<wait, notify, list, ticket, cursor, doomed>>

\* Whoever has the ticket has not parked yet and will see the new notify.
NotifyAbsent(p) ==
  /\ pc[p] = "lock" /\ ~ call[p].all /\ notify # wait
  /\ \A s \in Listed : ticket[s] # notify
  /\ notify' = Plus(notify, 1) /\ EndCall(p)
  /\ UNCHANGED <<wait, list, ticket, cursor, doomed>>

\* mutant: the first of the list is taken, not the one whose turn it is
NotifyHead(p) ==
  /\ pc[p] = "lock" /\ ~ call[p].all /\ notify # wait /\ head # Nil
  /\ Unlink(head) /\ cursor' = [cursor EXCEPT ![p] = head]
  /\ notify' = Plus(notify, 1) /\ GoTo(p, "ready")
  /\ UNCHANGED <<wait, ticket, call, doomed>>

NotifyFound(p) ==
  /\ pc[p] = "lock" /\ ~ call[p].all /\ notify # wait
  /\ \E s \in Listed :
       ticket[s] = notify /\ Unlink(s) /\ cursor' = [cursor EXCEPT ![p] = s]
  /\ notify' = Plus(notify, 1) /\ GoTo(p, "ready")
  /\ UNCHANGED <<wait, ticket, call, doomed>>

NotifyAll(p) ==
  /\ pc[p] = "lock" /\ call[p].all
  /\ cursor' = [cursor EXCEPT ![p] = head] /\ head' = Nil /\ tail' = Nil
  /\ notify' = wait /\ GoTo(p, "ready")
  /\ UNCHANGED <<wait, next, ticket, call, doomed>>

\* mutant: s.next is not cleared before the goroutine may park again
ReadyNextKeepsLink(p) ==
  /\ pc[p] = "ready" /\ cursor[p] # Nil
  /\ GoTo(cursor[p], "woken")
  /\ cursor' = [cursor EXCEPT ![p] = next[cursor[p]]]
  /\ UNCHANGED <<wait, notify, list, ticket, call, doomed>>

\* s.next is read and cleared first: once readied, s is its owner's again.
ReadyNext(p) ==
  /\ pc[p] = "ready" /\ cursor[p] # Nil
  /\ GoTo(cursor[p], "woken")
  /\ next' = [next EXCEPT ![cursor[p]] = Nil]
  /\ cursor' = [cursor EXCEPT ![p] = next[cursor[p]]]
  /\ UNCHANGED <<wait, notify, head, tail, ticket, call, doomed>>

ReadyDone(p) ==
  /\ pc[p] = "ready" /\ cursor[p] = Nil /\ EndCall(p)
  /\ UNCHANGED <<wait, notify, list, ticket, cursor, doomed>>
-----------------------------------------------------------------------------
(* The collector: it reports the waiters of a condition variable that all   *)
(* other goroutines have lost (GolfMark says when), unlinks them one by one *)
(* and frees the memory, which holds zeroes when it is allocated again.     *)
Report ==
  /\ ~ doomed /\ head # Nil /\ \A p \in Proc : pc[p] \in {"idle", "parked"}
  /\ doomed' = TRUE
  /\ UNCHANGED <<wait, notify, list, pc, ticket, call, cursor>>

gcNotifyListNotifyOne(p) ==
  /\ doomed /\ pc[p] = "parked" /\ Unlink(p) /\ EndWait(p)
  /\ UNCHANGED <<wait, notify, call, cursor, doomed>>

Reuse ==
  /\ doomed /\ \A p \in Proc : pc[p] # "parked"
  /\ doomed' = FALSE /\ wait' = 0 /\ notify' = 0 /\ head' = Nil /\ tail' = Nil
  /\ UNCHANGED <<next, pc, ticket, call, cursor>>

Continue(p) ==
  \/ AlreadyNotified(p) \/ Park(p) \/ Resume(p)
  \/ FastPath(p) \/ SlowPath(p) \/ NotifyNobody(p) \/ NotifyAbsent(p) \/ NotifyFound(p) \/ NotifyAll(p)
  \/ ReadyNext(p) \/ ReadyDone(p)

Next ==
  \/ \E p \in Proc : notifyListAdd(p) \/ (\E a \in BOOLEAN : LoadWait(p, a)) \/ Continue(p)
  \/ Report \/ (\E p \in Proc : gcNotifyListNotifyOne(p)) \/ Reuse

Spec == Init /\ [][Next]_vars

\* A goroutine that is not parked goes on: runnable goroutines get to run.
FairSpec == Spec /\ \A p \in Proc : WF_vars(Continue(p))
-----------------------------------------------------------------------------
(* Properties. *)

TypeOK ==
  /\ wait \in Ticket /\ notify \in Ticket /\ ticket \in [Proc -> Ticket]
  /\ {head, tail} \subseteq Proc \cup {Nil}
  /\ next \in [Proc -> Proc \cup {Nil}] /\ cursor \in [Proc -> Proc \cup {Nil}]
  /\ pc \in [Proc -> {"idle", "added", "parked", "woken", "load", "lock", "ready"}]
  /\ call \in [Proc -> [all : BOOLEAN, seen : Ticket, before : SUBSET (Proc \X Ticket)]]
  /\ doomed \in BOOLEAN

\* Every parked goroutine is on the list or in exactly one notifier's hands, and
\* l.tail ends the list, whoever unlinks whom from the middle of it.
Batches == [p \in Proc |-> ChainFrom(cursor[p])]
NobodyLost ==
  /\ TypeOK
  /\ IF head = Nil THEN tail = Nil ELSE tail \in Listed /\ next[tail] = Nil
  /\ \A p \in Proc : cursor[p] # Nil => \E q \in Batches[p] : next[q] = Nil
  /\ \A q \in Proc :
       LET places == {p \in Proc : q \in Batches[p]} IN
       pc[q] = "parked" <=> IF q \in Listed THEN places = {} ELSE Cardinality(places) = 1

\* Whoever is on the list has a ticket that has not been notified: "it won't park
\* itself once it sees the new notify number" (notifyListNotifyOne), although the
\* numbers wrap around.
NoMissedNotification == Listed \subseteq Owed

\* A notifier that returns without the lock leaves nobody behind who was waiting
\* when it was called, although it compares two loads of different instants.
SilentNotifyOwesNothing ==
  [][\A p \in Proc : FastPath(p) => call[p].before \cap Claims = {}]_vars

\* Waiters are notified in the order of their tickets and nobody returns from Wait
\* unnotified, whoever parks late, wraps around or is reclaimed.
Abstract == INSTANCE Cond WITH waiting <- InWait, pending <- Waiters
ImplementsCond == Abstract!Spec

\* Whoever has been notified returns from Wait.
NotifiedReturn == \A p \in Proc : (p \in InWait /\ p \notin Owed) ~> (p \notin InWait)
=============================================================================
