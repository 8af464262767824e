-------------------------- MODULE NotifyList_proof --------------------------
(***************************************************************************)
(* What Cond promises sync.Cond, the notify list keeps, for every number   *)
(* of goroutines, calls and collections and every width of the tickets:    *)
(* nobody is lost between a ticket and the list, a waiter unlinked from    *)
(* the middle included, and the waiters are notified in ticket order.      *)
(*                                                                         *)
(* Tickets are compared by how far wait has run ahead of them (Age): on    *)
(* that scale the wrap-around disappears and less is the order of Nat.     *)
(* The list and the batches the notifiers hold are chains through next;    *)
(* which chain a goroutine hangs on, and in which place, is no part of the *)
(* program's state, so the invariant says only that it can be given.       *)
(***************************************************************************)
EXTENDS NotifyList, FiniteSetTheorems, WellFoundedInduction, SequenceTheorems, TLAPS

\* How many tickets were taken since t was next.
Age(t) == Minus(wait, t)
Waits(p) == pc[p] \in {"added", "parked"}

\* Nobody runs on a notify list that was found unreachable, and only a
\* notifier that is readying a batch has one.
Quiet ==
  /\ doomed => \A p \in Proc : pc[p] \in {"idle", "parked"}
  /\ \A p \in Proc : cursor[p] # Nil => pc[p] = "ready"

\* What less compares lies within half the tickets behind wait, the tickets
\* taken before a notifier loaded wait within half behind what it loaded.
Recent ==
  /\ Age(notify) <= Half
  /\ \A p \in Proc : Waits(p) => Age(ticket[p]) \in 1 .. Half
  /\ \A p \in Proc : pc[p] = "load" =>
       /\ Age(call[p].seen) <= Half
       /\ \A c \in call[p].before : Minus(call[p].seen, c[2]) \in 1 .. Half

\* A waiter whose ticket nobody has notified.
Due(p) == Waits(p) /\ Age(ticket[p]) <= Age(notify)

\* Until the collector reclaims the waiters, each ticket from notify up to
\* wait belongs to one of them.
OneEach ==
  /\ \A p, q \in Proc : Due(p) /\ Due(q) /\ ticket[p] = ticket[q] => p = q
  /\ ~ doomed => \A i \in 1 .. Age(notify) : \E p \in Proc : Due(p) /\ Age(ticket[p]) = i

\* Where the list (Nil) or the batch of the notifier x begins.
First(x) == IF x = Nil THEN head ELSE cursor[x]

\* Each parked goroutine is on exactly one chain, that of place: the list
\* when its ticket is due, else the batch of the notifier that took it.  Along
\* next the rank grows, so that a chain ends; tail is the end of the list.
Chained(place, rank, top) ==
  /\ \A q \in Proc : rank[q] <= top
  /\ \A q \in Proc : pc[q] # "parked" => next[q] = Nil
  /\ \A q \in Proc : next[q] # Nil =>
       /\ pc[next[q]] = "parked"
       /\ place[next[q]] = place[q]
       /\ rank[q] < rank[next[q]]
  /\ \A q, r \in Proc : next[q] = next[r] /\ next[q] # Nil => q = r
  /\ \A x \in Proc \cup {Nil} : First(x) # Nil =>
       /\ pc[First(x)] = "parked"
       /\ place[First(x)] = x
       /\ \A q \in Proc : next[q] # First(x)
  /\ \A q \in Proc : pc[q] = "parked" => First(place[q]) = q \/ \E r \in Proc : next[r] = q
  /\ head = Nil <=> tail = Nil
  /\ \A q \in Proc : q = tail <=> pc[q] = "parked" /\ place[q] = Nil /\ next[q] = Nil
  /\ \A q \in Proc : pc[q] = "parked" => (place[q] = Nil <=> Due(q))

IInv ==
  /\ TypeOK /\ Quiet /\ Recent /\ OneEach
  /\ \E place \in [Proc -> Proc \cup {Nil}], rank \in [Proc -> Nat], top \in Nat :
       Chained(place, rank, top)
-----------------------------------------------------------------------------
(* Tickets wrap around; what counts is how far they are apart.             *)
LEMMA Division ==
  ASSUME NEW M \in Nat \ {0}
  PROVE  /\ \A x \in 0 .. M - 1 : x % M = x
         /\ \A x \in Int : x < 0 /\ 0 <= x + M => x % M = x + M
         /\ M % M = 0
<1>1. ASSUME NEW x \in 0 .. M - 1 PROVE x % M = x
  BY SMT
<1>2. ASSUME NEW x \in Int, x < 0, 0 <= x + M PROVE x % M = x + M
  BY <1>2, SMT
<1>3. M % M = 0
  BY SMT
<1> QED
  BY <1>1, <1>2, <1>3

LEMMA Wrapped ==
  ASSUME NEW a \in Ticket, NEW b \in Ticket
  PROVE  /\ Minus(a, b) = IF a >= b THEN a - b ELSE a - b + 2 * Half
         /\ Plus(a, 1) = IF a = 2 * Half - 1 THEN 0 ELSE a + 1
         /\ Minus(a, b) \in Ticket /\ Plus(a, 1) \in Ticket
<1>1. PICK M \in Nat \ {0} : M = 2 * Half
  BY TicketAssumption
<1>2. a \in 0 .. M - 1 /\ b \in 0 .. M - 1
  BY <1>1 DEF Ticket
<1>3. a >= b => a - b \in 0 .. M - 1
  BY <1>2
<1>4. ~(a >= b) => a - b \in Int /\ a - b < 0 /\ 0 <= (a - b) + M /\ (a - b) + M \in 0 .. M - 1
  BY <1>2
<1>5. (a - b) % M = IF a >= b THEN a - b ELSE a - b + M
  BY <1>3, <1>4, Division
<1>6. a # M - 1 => a + 1 \in 0 .. M - 1
  BY <1>2
<1>7. (a + 1) % M = IF a = M - 1 THEN 0 ELSE a + 1
  <2>1. CASE a = M - 1
    <3>1. a + 1 = M
      BY <2>1
    <3> QED
      BY <3>1, <2>1, Division
  <2>2. CASE a # M - 1
    BY <2>2, <1>6, Division
  <2> QED
    BY <2>1, <2>2
<1>8. Minus(a, b) = (a - b) % M /\ Plus(a, 1) = (a + 1) % M /\ Ticket = 0 .. M - 1
  BY <1>1 DEF Minus, Plus, Ticket
<1> QED
  BY <1>1, <1>3, <1>4, <1>5, <1>6, <1>7, <1>8, <1>2

LEMMA Counting ==
  ASSUME NEW w \in Ticket, NEW t \in Ticket
  PROVE  /\ Minus(Plus(w, 1), t) = IF Minus(w, t) = 2 * Half - 1 THEN 0 ELSE Minus(w, t) + 1
         /\ w # t => Minus(w, Plus(t, 1)) = Minus(w, t) - 1
         /\ Minus(w, t) = 0 <=> w = t
         /\ \A s \in Ticket : Minus(w, s) = Minus(w, t) => s = t
<1>1. w \in Int /\ t \in Int /\ 0 <= w /\ w < 2 * Half /\ 0 <= t /\ t < 2 * Half /\ Half \in Nat
  BY TicketAssumption DEF Ticket
<1>2. Plus(w, 1) = (IF w = 2 * Half - 1 THEN 0 ELSE w + 1) /\ Plus(w, 1) \in Ticket
  BY Wrapped
<1>3. Plus(t, 1) = (IF t = 2 * Half - 1 THEN 0 ELSE t + 1) /\ Plus(t, 1) \in Ticket
  BY Wrapped
<1>4. Minus(w, t) = IF w >= t THEN w - t ELSE w - t + 2 * Half
  BY Wrapped
<1>5. Minus(Plus(w, 1), t) = IF Plus(w, 1) >= t THEN Plus(w, 1) - t ELSE Plus(w, 1) - t + 2 * Half
  BY <1>2, Wrapped
<1>6. Minus(w, Plus(t, 1)) = IF w >= Plus(t, 1) THEN w - Plus(t, 1) ELSE w - Plus(t, 1) + 2 * Half
  BY <1>3, Wrapped
<1>7. ASSUME NEW s \in Ticket, Minus(w, s) = Minus(w, t) PROVE s = t
  <2>1. Minus(w, s) = IF w >= s THEN w - s ELSE w - s + 2 * Half
    BY Wrapped
  <2>2. s \in Int /\ 0 <= s /\ s < 2 * Half
    BY TicketAssumption DEF Ticket
  <2> QED
    BY <1>1, <1>4, <1>7, <2>1, <2>2
<1>8. Minus(Plus(w, 1), t) = IF Minus(w, t) = 2 * Half - 1 THEN 0 ELSE Minus(w, t) + 1
  BY <1>1, <1>2, <1>4, <1>5
<1>9. w # t => Minus(w, Plus(t, 1)) = Minus(w, t) - 1
  BY <1>1, <1>3, <1>4, <1>6
<1>10. Minus(w, t) = 0 <=> w = t
  BY <1>1, <1>4
<1> QED
  BY <1>7, <1>8, <1>9, <1>10

(* Seen from wait, t lies before notify if and only if it is less.         *)
LEMMA Distances ==
  ASSUME NEW w \in Ticket, NEW n \in Ticket, NEW t \in Ticket,
         Minus(w, n) <= Half, Minus(w, t) \in 1 .. Half
  PROVE  /\ less(t, n) <=> Minus(w, t) > Minus(w, n)
         /\ Minus(t, n) < Minus(w, n) <=> Minus(w, t) <= Minus(w, n)
         /\ Minus(w, t) <= Minus(w, n) => Minus(t, n) = Minus(w, n) - Minus(w, t)
<1>1. /\ w \in Int /\ 0 <= w /\ w < 2 * Half /\ n \in Int /\ 0 <= n /\ n < 2 * Half
      /\ t \in Int /\ 0 <= t /\ t < 2 * Half /\ Half \in Nat
  BY TicketAssumption DEF Ticket
<1>2. Minus(w, t) = IF w >= t THEN w - t ELSE w - t + 2 * Half
  BY Wrapped
<1>3. Minus(w, n) = IF w >= n THEN w - n ELSE w - n + 2 * Half
  BY Wrapped
<1>4. Minus(t, n) = IF t >= n THEN t - n ELSE t - n + 2 * Half
  BY Wrapped
<1>5. less(t, n) <=> Minus(t, n) >= Half
  BY DEF less
<1>6. Minus(w, t) <= Minus(w, n) => Minus(t, n) = Minus(w, n) - Minus(w, t)
  BY <1>1, <1>2, <1>3, <1>4
<1>7. Minus(w, t) > Minus(w, n) => Minus(t, n) = 2 * Half + Minus(w, n) - Minus(w, t)
  BY <1>1, <1>2, <1>3, <1>4
<1>8. /\ Minus(w, t) \in Int /\ 1 <= Minus(w, t) /\ Minus(w, t) <= Half
      /\ Minus(w, n) \in Int /\ 0 <= Minus(w, n)
  BY <1>1, <1>2, <1>3
<1> QED
  BY <1>1, <1>5, <1>6, <1>7, <1>8
-----------------------------------------------------------------------------
LEMMA InitIInv == Init => IInv
<1> SUFFICES ASSUME Init PROVE IInv
  OBVIOUS
<1>1. 0 \in Ticket /\ wait \in Ticket /\ notify = wait /\ Half \in Nat
  BY TicketAssumption DEF Init, Ticket
<1>2. TypeOK
  BY <1>1 DEF Init, TypeOK, NoCall
<1>3. Quiet
  BY DEF Init, Quiet
<1>4. Age(notify) = 0
  BY <1>1, Counting DEF Age
<1>5. Recent /\ OneEach
  BY <1>1, <1>4 DEF Init, Recent, OneEach, Due, Waits
<1>6. PICK place \in [Proc -> Proc \cup {Nil}], rank \in [Proc -> Nat] :
        place = [p \in Proc |-> Nil] /\ rank = [p \in Proc |-> 0]
  OBVIOUS
<1>7. Chained(place, rank, 0)
  BY <1>6, NilAssumption DEF Init, Chained, First
<1> QED
  BY <1>2, <1>3, <1>5, <1>6, <1>7 DEF IInv

LEMMA TypesKept == TypeOK /\ [Next]_vars => TypeOK'
<1> SUFFICES ASSUME TypeOK, [Next]_vars PROVE TypeOK'
  OBVIOUS
<1> USE NilAssumption DEF TypeOK, GoTo, EndWait, EndCall
<1>0. 0 \in Ticket /\ Plus(wait, 1) \in Ticket /\ Plus(notify, 1) \in Ticket
  <2>1. 0 \in Ticket
    BY TicketAssumption DEF Ticket
  <2> QED
    BY <2>1, Wrapped
<1>a. Claims \in SUBSET (Proc \X Ticket)
  BY DEF Claims, Owed
<1>b. NoCall \in [all : BOOLEAN, seen : Ticket, before : SUBSET (Proc \X Ticket)]
  BY <1>0 DEF NoCall
<1>c. ASSUME NEW s \in Proc, Unlink(s)
      PROVE  {head', tail'} \subseteq Proc \cup {Nil} /\ next' \in [Proc -> Proc \cup {Nil}]
  BY <1>c DEF Unlink
<1>1. ASSUME NEW p \in Proc, notifyListAdd(p) PROVE TypeOK'
  BY <1>0, <1>1 DEF notifyListAdd, list
<1>2. ASSUME NEW p \in Proc, NEW a \in BOOLEAN, LoadWait(p, a) PROVE TypeOK'
  BY <1>a, <1>2 DEF LoadWait, list
<1>3. ASSUME NEW p \in Proc, AlreadyNotified(p) \/ Resume(p) PROVE TypeOK'
  BY <1>0, <1>3 DEF AlreadyNotified, Resume, list
<1>4. ASSUME NEW p \in Proc, Park(p) PROVE TypeOK'
  BY <1>4 DEF Park
<1>5. ASSUME NEW p \in Proc, FastPath(p) \/ NotifyNobody(p) \/ ReadyDone(p) PROVE TypeOK'
  <2>1. EndCall(p) /\ UNCHANGED <<wait, notify, list, ticket, cursor, doomed>>
    BY <1>5 DEF FastPath, NotifyNobody, ReadyDone
  <2> QED
    BY <1>b, <2>1 DEF list
<1>6. ASSUME NEW p \in Proc, SlowPath(p) PROVE TypeOK'
  <2>1. [NoCall EXCEPT !.all = call[p].all] \in
          [all : BOOLEAN, seen : Ticket, before : SUBSET (Proc \X Ticket)]
    BY <1>0 DEF NoCall
  <2> QED
    BY <2>1, <1>6 DEF SlowPath, list
<1>7. ASSUME NEW p \in Proc, NotifyAbsent(p) PROVE TypeOK'
  BY <1>0, <1>b, <1>7 DEF NotifyAbsent, list
<1>8. ASSUME NEW p \in Proc, NotifyFound(p) PROVE TypeOK'
  <2>1. PICK s \in Proc : Unlink(s) /\ cursor' = [cursor EXCEPT ![p] = s]
    BY <1>8 DEF NotifyFound, Listed, ChainFrom
  <2> QED
    BY <1>0, <1>8, <2>1, <1>c DEF NotifyFound
<1>9. ASSUME NEW p \in Proc, NotifyAll(p) PROVE TypeOK'
  BY <1>9 DEF NotifyAll
<1>10. ASSUME NEW p \in Proc, ReadyNext(p) PROVE TypeOK'
  BY <1>10 DEF ReadyNext
<1>11. ASSUME Report PROVE TypeOK'
  BY <1>11 DEF Report, list
<1>12. ASSUME NEW p \in Proc, gcNotifyListNotifyOne(p) PROVE TypeOK'
  BY <1>0, <1>12, <1>c DEF gcNotifyListNotifyOne
<1>13. ASSUME Reuse PROVE TypeOK'
  BY <1>0, <1>13 DEF Reuse
<1>14. CASE UNCHANGED vars
  BY <1>14 DEF vars, list
<1> QED
  BY <1>1, <1>2, <1>3, <1>4, <1>5, <1>6, <1>7, <1>8, <1>9, <1>10, <1>11, <1>12, <1>13, <1>14
     DEF Next, Continue

(* Whoever is about to be readied is parked.                               *)
LEMMA CursorParked == IInv => \A p \in Proc : cursor[p] # Nil => pc[cursor[p]] = "parked"
<1> SUFFICES ASSUME IInv, NEW p \in Proc, cursor[p] # Nil PROVE pc[cursor[p]] = "parked"
  OBVIOUS
<1>1. PICK place \in [Proc -> Proc \cup {Nil}], rank \in [Proc -> Nat], top \in Nat :
        Chained(place, rank, top)
  BY DEF IInv
<1>2. First(p) = cursor[p]
  BY NilAssumption DEF First
<1> QED
  BY <1>1, <1>2 DEF Chained

(* While the waiters are being reclaimed nothing else happens; only who    *)
(* notifies has somebody to ready.                                         *)
LEMMA QuietKept == IInv /\ [Next]_vars => Quiet'
<1> SUFFICES ASSUME TypeOK, Quiet, [Next]_vars,
                    \A p \in Proc : cursor[p] # Nil => pc[cursor[p]] = "parked"
             PROVE  Quiet'
  BY CursorParked DEF IInv
<1> USE NilAssumption DEF TypeOK, Quiet, GoTo, EndWait, EndCall
<1>1. ASSUME NEW p \in Proc, notifyListAdd(p) PROVE Quiet'
  BY <1>1 DEF notifyListAdd
<1>2. ASSUME NEW p \in Proc, NEW a \in BOOLEAN, LoadWait(p, a) PROVE Quiet'
  BY <1>2 DEF LoadWait
<1>3. ASSUME NEW p \in Proc, AlreadyNotified(p) \/ Resume(p) \/ Park(p) PROVE Quiet'
  BY <1>3 DEF AlreadyNotified, Resume, Park
<1>5. ASSUME NEW p \in Proc, FastPath(p) \/ NotifyNobody(p) \/ ReadyDone(p) \/ SlowPath(p)
      PROVE  Quiet'
  BY <1>5 DEF FastPath, NotifyNobody, ReadyDone, SlowPath
<1>7. ASSUME NEW p \in Proc, NotifyAbsent(p) PROVE Quiet'
  BY <1>7 DEF NotifyAbsent
<1>8. ASSUME NEW p \in Proc, NotifyFound(p) PROVE Quiet'
  BY <1>8 DEF NotifyFound
<1>9. ASSUME NEW p \in Proc, NotifyAll(p) PROVE Quiet'
  BY <1>9 DEF NotifyAll
<1>10. ASSUME NEW p \in Proc, ReadyNext(p) PROVE Quiet'
  BY <1>10 DEF ReadyNext
<1>11. ASSUME Report PROVE Quiet'
  BY <1>11 DEF Report
<1>12. ASSUME NEW p \in Proc, gcNotifyListNotifyOne(p) PROVE Quiet'
  BY <1>12 DEF gcNotifyListNotifyOne
<1>13. ASSUME Reuse PROVE Quiet'
  BY <1>13 DEF Reuse
<1>14. CASE UNCHANGED vars
  BY <1>14 DEF vars
<1> QED
  BY <1>1, <1>2, <1>3, <1>5, <1>7, <1>8, <1>9, <1>10, <1>11, <1>12, <1>13, <1>14
     DEF Next, Continue
-----------------------------------------------------------------------------
(* The tickets.                                                            *)
LEMMA OwedIsDue ==
  ASSUME TypeOK, Recent
  PROVE  /\ Owed = {p \in Proc : Due(p)}
         /\ \A p \in Proc : Waits(p) => (less(ticket[p], notify) <=> ~ Due(p))
         /\ \A p \in Proc : Due(p) => Minus(ticket[p], notify) = Age(notify) - Age(ticket[p])
<1>1. ASSUME NEW p \in Proc, Waits(p)
      PROVE  /\ less(ticket[p], notify) <=> Age(ticket[p]) > Age(notify)
             /\ Minus(ticket[p], notify) < Minus(wait, notify) <=> Age(ticket[p]) <= Age(notify)
             /\ Age(ticket[p]) <= Age(notify) =>
                  Minus(ticket[p], notify) = Age(notify) - Age(ticket[p])
  <2>1. wait \in Ticket /\ notify \in Ticket /\ ticket[p] \in Ticket
    BY DEF TypeOK
  <2>2. Minus(wait, notify) <= Half /\ Minus(wait, ticket[p]) \in 1 .. Half
    BY <1>1 DEF Recent, Age
  <2> QED
    BY <2>1, <2>2, Distances DEF Age
<1>2. \A p \in Proc : Age(ticket[p]) \in Ticket /\ Age(notify) \in Ticket
  BY Wrapped DEF TypeOK, Age
<1>3. \A p \in Proc : Age(ticket[p]) > Age(notify) <=> ~ (Age(ticket[p]) <= Age(notify))
  BY <1>2, TicketAssumption DEF Ticket
<1> QED
  BY <1>1, <1>3 DEF Owed, Due, Waits

(* A step that leaves the counts and the tickets of those who wait alone.  *)
LEMMA SameTickets ==
  ASSUME TypeOK, TypeOK', Recent, OneEach, wait' = wait, notify' = notify,
         \A p \in Proc : Waits(p)' => Waits(p) /\ ticket'[p] = ticket[p],
         ~ doomed' => ~ doomed /\ \A p \in Proc : Due(p) => Waits(p)' /\ ticket'[p] = ticket[p],
         \A p \in Proc : pc'[p] = "load" => pc[p] = "load" /\ call'[p] = call[p]
  PROVE  Recent' /\ OneEach'
<1>1. /\ Age(notify)' = Age(notify)
      /\ \A p \in Proc : Waits(p)' => Age(ticket[p])' = Age(ticket[p])
      /\ \A p \in Proc : pc'[p] = "load" => Age(call[p].seen)' = Age(call[p].seen)
  BY DEF Age
<1>2. Recent'
  BY <1>1 DEF Recent
<1>3. \A p \in Proc : Due(p)' => Due(p) /\ ticket'[p] = ticket[p]
  BY <1>1 DEF Due
<1>4. ~ doomed' => \A p \in Proc : Due(p) => Due(p)' /\ Age(ticket[p])' = Age(ticket[p])
  BY <1>1 DEF Due
<1>5. OneEach'
  BY <1>1, <1>3, <1>4 DEF OneEach
<1> QED
  BY <1>2, <1>5

LEMMA AddKeepsTickets ==
  ASSUME TypeOK, TypeOK', Recent, OneEach, NEW p \in Proc, notifyListAdd(p)
  PROVE  Recent' /\ OneEach' /\ \A q \in Proc : Due(q)' <=> q = p \/ Due(q)
<1>1. /\ wait' = Plus(wait, 1) /\ notify' = notify /\ ~ doomed /\ NoneLags /\ pc[p] = "idle"
      /\ ticket' = [ticket EXCEPT ![p] = wait] /\ pc' = [pc EXCEPT ![p] = "added"]
      /\ call' = call /\ doomed' = doomed
  BY DEF notifyListAdd, GoTo
<1>2. /\ wait \in Ticket /\ notify \in Ticket /\ ticket \in [Proc -> Ticket] /\ wait' \in Ticket
      /\ Half \in Nat \ {0} /\ pc \in [Proc -> {"idle", "added", "parked", "woken", "load", "lock", "ready"}]
      /\ \A q \in Proc : call[q].seen \in Ticket
  BY TicketAssumption DEF TypeOK
<1>3. ASSUME NEW t \in Ticket
      PROVE  /\ Minus(wait', t) = IF Minus(wait, t) = 2 * Half - 1 THEN 0 ELSE Minus(wait, t) + 1
             /\ Minus(wait, t) \in Nat
             /\ Minus(wait, t) < Half => Minus(wait', t) = Minus(wait, t) + 1
  <2>1. Minus(wait', t) = IF Minus(wait, t) = 2 * Half - 1 THEN 0 ELSE Minus(wait, t) + 1
    BY <1>1, <1>2, Counting
  <2>2. Minus(wait, t) \in 0 .. 2 * Half - 1
    BY <1>2, Wrapped DEF Ticket
  <2> QED
    BY <2>1, <2>2, <1>2
<1>4. Age(notify) < Half
  <2>1. CASE Age(notify) = Half
    <3>1. PICK q \in Proc : Due(q) /\ Age(ticket[q]) = Half
      BY <1>1, <1>2, <2>1 DEF OneEach
    <3> QED
      BY <3>1, <1>1, <1>2 DEF NoneLags, Due, Waits, Age
  <2> QED
    BY <2>1, <1>2, <1>3 DEF Recent, Age
<1>5. Age(notify)' = Age(notify) + 1 /\ Age(notify) \in Nat
  BY <1>1, <1>2, <1>3, <1>4 DEF Age
<1>6. ASSUME NEW q \in Proc, q # p, Waits(q)
      PROVE  Age(ticket[q])' = Age(ticket[q]) + 1 /\ Age(ticket[q]) < Half /\ Age(ticket[q]) \in Nat
  BY <1>1, <1>2, <1>3, <1>6 DEF NoneLags, Waits, Age
<1>7. Age(ticket[p])' = 1
  <2>1. Minus(wait, wait) = 0
    BY <1>2, Counting
  <2> QED
    BY <1>1, <1>2, <1>3, <2>1 DEF Age
<1>8. \A q \in Proc : q # p => (Waits(q)' <=> Waits(q)) /\ (pc'[q] = "load" <=> pc[q] = "load")
  BY <1>1, <1>2 DEF Waits
<1>9. Recent'
  <2>1. Age(notify)' <= Half
    BY <1>2, <1>4, <1>5
  <2>2. ASSUME NEW q \in Proc, Waits(q)' PROVE Age(ticket[q])' \in 1 .. Half
    BY <2>2, <1>2, <1>6, <1>7, <1>8 DEF Recent
  <2>3. ASSUME NEW q \in Proc, pc'[q] = "load"
        PROVE  /\ Age(call[q].seen)' <= Half
               /\ \A c \in call'[q].before : Minus(call'[q].seen, c[2]) \in 1 .. Half
    <3>1. q # p /\ pc[q] = "load"
      BY <1>1, <1>2, <1>8, <2>3
    <3>2. Minus(wait, call[q].seen) < Half
      BY <3>1, <1>1 DEF NoneLags
    <3>3. Minus(wait', call[q].seen) <= Half
      BY <3>2, <1>2, <1>3
    <3> QED
      BY <3>1, <3>3, <1>1 DEF Age, Recent
  <2> QED
    BY <2>1, <2>2, <2>3 DEF Recent
<1>10. \A q \in Proc : Due(q)' <=> q = p \/ Due(q)
  <2>1. Due(p)'
    BY <1>1, <1>2, <1>5, <1>7 DEF Due, Waits
  <2>2. ASSUME NEW q \in Proc, q # p PROVE Due(q)' <=> Due(q)
    <3>1. Waits(q)' <=> Waits(q)
      BY <1>8, <2>2
    <3>2. CASE Waits(q)
      <4>1. Age(ticket[q])' <= Age(notify)' <=> Age(ticket[q]) <= Age(notify)
        BY <1>5, <1>6, <2>2, <3>2
      <4> QED
        BY <3>1, <4>1 DEF Due
    <3> QED
      BY <3>1, <3>2 DEF Due
  <2> QED
    BY <2>1, <2>2
<1>11. ASSUME NEW q \in Proc, NEW r \in Proc, Due(q)', Due(r)', ticket'[q] = ticket'[r]
       PROVE  q = r
  <2>1. \A u \in Proc : u # p /\ Due(u) => Age(ticket[u])' # 1
    BY <1>2, <1>6 DEF Due, Recent
  <2>2. Age(ticket[q])' = Age(ticket[r])'
    BY <1>11 DEF Age
  <2>3. q = p <=> r = p
    BY <1>7, <1>10, <1>11, <2>1, <2>2
  <2>4. q # p /\ r # p => ticket[q] = ticket[r] /\ Due(q) /\ Due(r)
    BY <1>1, <1>2, <1>10, <1>11
  <2> QED
    BY <2>3, <2>4 DEF OneEach
<1>12. ASSUME NEW i \in 1 .. (Age(notify) + 1)
       PROVE  \E q \in Proc : Due(q)' /\ Age(ticket[q])' = i
  <2>1. CASE i = 1
    BY <2>1, <1>7, <1>10
  <2>2. CASE i # 1
    <3>1. i - 1 \in 1 .. Age(notify)
      BY <2>2, <1>5
    <3>2. PICK q \in Proc : Due(q) /\ Age(ticket[q]) = i - 1
      BY <3>1, <1>1 DEF OneEach
    <3>3. q # p
      BY <3>2, <1>1 DEF Due, Waits
    <3>4. Age(ticket[q])' = i
      BY <3>2, <3>3, <1>6, <1>5 DEF Due
    <3> QED
      BY <3>2, <3>4, <1>10
  <2> QED
    BY <2>1, <2>2
<1> QED
  BY <1>9, <1>10, <1>11, <1>12, <1>5 DEF OneEach

LEMMA NotifyKeepsTickets ==
  ASSUME TypeOK, TypeOK', Recent, OneEach,
         (notify # wait /\ notify' = Plus(notify, 1)) \/ notify' = wait,
         wait' = wait, ticket' = ticket, doomed' = doomed,
         \A p \in Proc : Waits(p)' <=> Waits(p),
         \A p \in Proc : pc'[p] = "load" => pc[p] = "load" /\ call'[p] = call[p]
  PROVE  Recent' /\ OneEach' /\ \A p \in Proc : Due(p)' => Due(p)
<1>1. /\ wait \in Ticket /\ notify \in Ticket /\ ticket \in [Proc -> Ticket]
      /\ Half \in Nat \ {0} /\ Age(notify) \in 0 .. Half
  <2>1. wait \in Ticket /\ notify \in Ticket /\ ticket \in [Proc -> Ticket]
    BY DEF TypeOK
  <2>2. Age(notify) \in Ticket
    BY <2>1, Wrapped DEF Age
  <2> QED
    BY <2>1, <2>2, TicketAssumption DEF Recent, Ticket
<1>2. /\ Age(notify)' \in 0 .. Age(notify)
      /\ notify' = wait \/ Age(notify)' = Age(notify) - 1
  <2>1. CASE notify # wait /\ notify' = Plus(notify, 1)
    <3>1. Age(notify)' = Age(notify) - 1 /\ Age(notify) # 0
      BY <1>1, <2>1, Counting DEF Age
    <3> QED
      BY <3>1, <1>1
  <2>2. CASE notify' = wait
    <3>1. Age(notify)' = 0
      BY <1>1, <2>2, Counting DEF Age
    <3> QED
      BY <3>1, <1>1, <2>2
  <2> QED
    BY <2>1, <2>2
<1>3. \A p \in Proc : Age(ticket[p])' = Age(ticket[p]) /\ Age(ticket[p]) \in Nat
  BY <1>1, Wrapped DEF Age, Ticket
<1>4. Recent'
  <2>1. \A p \in Proc : pc'[p] = "load" => Age(call[p].seen)' = Age(call[p].seen)
    BY DEF Age
  <2> QED
    BY <1>1, <1>2, <1>3, <2>1 DEF Recent
<1>5. \A p \in Proc : Due(p)' <=> Waits(p) /\ Age(ticket[p]) <= Age(notify)'
  BY <1>3 DEF Due
<1>6. \A p \in Proc : Due(p)' => Due(p)
  BY <1>1, <1>2, <1>3, <1>5 DEF Due
<1>7. \A i \in 1 .. Age(notify)' : i \in 1 .. Age(notify)
  BY <1>1, <1>2
<1>8. ASSUME ~ doomed', NEW i \in 1 .. Age(notify)'
      PROVE  \E p \in Proc : Due(p)' /\ Age(ticket[p])' = i
  <2>1. PICK p \in Proc : Due(p) /\ Age(ticket[p]) = i
    BY <1>7, <1>8 DEF OneEach
  <2> QED
    BY <2>1, <1>1, <1>2, <1>3, <1>5 DEF Due
<1> QED
  BY <1>4, <1>6, <1>8 DEF OneEach

(* Tickets stay apart, the notified ones are those before notify, and what *)
(* a notifier has seen of wait is not older than half the tickets.         *)
LEMMA TicketsKept == IInv /\ TypeOK' /\ [Next]_vars => Recent' /\ OneEach'
<1> SUFFICES ASSUME TypeOK, TypeOK', Quiet, Recent, OneEach, [Next]_vars,
                    \A p \in Proc : cursor[p] # Nil =>
                      pc[cursor[p]] = "parked" /\ ~ Due(cursor[p])
             PROVE  Recent' /\ OneEach'
  <2>1. ASSUME IInv, NEW p \in Proc, cursor[p] # Nil PROVE ~ Due(cursor[p])
    <3>1. PICK place \in [Proc -> Proc \cup {Nil}], rank \in [Proc -> Nat], top \in Nat :
            Chained(place, rank, top)
      BY <2>1 DEF IInv
    <3>2. First(p) = cursor[p]
      BY NilAssumption DEF First
    <3>3. cursor[p] \in Proc /\ pc[cursor[p]] = "parked" /\ place[cursor[p]] = p
      BY <2>1, <3>1, <3>2 DEF Chained, IInv, TypeOK
    <3> QED
      BY <3>1, <3>3, NilAssumption DEF Chained
  <2> QED
    BY <2>1, CursorParked DEF IInv
<1>t. /\ pc \in [Proc -> {"idle", "added", "parked", "woken", "load", "lock", "ready"}]
      /\ ticket \in [Proc -> Ticket] /\ cursor \in [Proc -> Proc \cup {Nil}]
      /\ DOMAIN call = Proc
  BY DEF TypeOK
<1> USE NilAssumption DEF GoTo, EndWait, EndCall
<1>1. ASSUME NEW p \in Proc, notifyListAdd(p) PROVE Recent' /\ OneEach'
  BY <1>1, AddKeepsTickets
<1>2. ASSUME NEW p \in Proc, NEW a \in BOOLEAN, LoadWait(p, a) PROVE Recent' /\ OneEach'
  <2>1. /\ pc' = [pc EXCEPT ![p] = "load"] /\ pc[p] = "idle"
        /\ call' = [call EXCEPT ![p] = [all |-> a, seen |-> wait, before |-> Claims]]
        /\ UNCHANGED <<wait, notify, ticket, doomed>>
    BY <1>2 DEF LoadWait
  <2>2. /\ \A q \in Proc : Waits(q)' <=> Waits(q)
        /\ \A t : Age(t)' = Minus(wait, t')
    BY <2>1, <1>t DEF Waits, Age
  <2>3. \A q \in Proc : Due(q)' <=> Due(q)
    BY <2>1, <2>2 DEF Due, Age
  <2>4. OneEach'
    BY <2>1, <2>3 DEF OneEach, Age
  <2>5. call'[p].seen = wait /\ call'[p].before = Claims
    BY <2>1, <1>t
  <2>6. Age(call[p].seen)' = 0
    BY <2>1, <2>5, Counting DEF Age, TypeOK
  <2>7. \A c \in Claims : Minus(wait, c[2]) \in 1 .. Half
    BY OwedIsDue DEF Claims, Due, Recent, Age
  <2>8. Recent'
    <3>1. Age(notify)' <= Half
      BY <2>1 DEF Recent, Age
    <3>2. \A q \in Proc : Waits(q)' => Age(ticket[q])' \in 1 .. Half
      BY <2>1, <2>2 DEF Recent, Age
    <3>3. ASSUME NEW q \in Proc, pc'[q] = "load"
          PROVE  /\ Age(call[q].seen)' <= Half
                 /\ \A c \in call'[q].before : Minus(call'[q].seen, c[2]) \in 1 .. Half
      <4>1. CASE q = p
        BY <4>1, <2>5, <2>6, <2>7, TicketAssumption
      <4>2. CASE q # p
        BY <4>2, <3>3, <2>1, <1>t DEF Recent, Age
      <4> QED
        BY <4>1, <4>2
    <3> QED
      BY <3>1, <3>2, <3>3 DEF Recent
  <2> QED
    BY <2>4, <2>8
<1>3. ASSUME NEW p \in Proc, AlreadyNotified(p) PROVE Recent' /\ OneEach'
  <2>1. /\ pc[p] = "added" /\ pc' = [pc EXCEPT ![p] = "idle"] /\ ticket' = [ticket EXCEPT ![p] = 0]
        /\ UNCHANGED <<wait, notify, call, doomed>>
    BY <1>3 DEF AlreadyNotified
  <2>2. ~ Due(p)
    BY <1>3, OwedIsDue DEF AlreadyNotified, Waits
  <2> QED
    BY <1>t, <2>1, <2>2, SameTickets DEF Waits, Due
<1>4. ASSUME NEW p \in Proc, Park(p) PROVE Recent' /\ OneEach'
  <2>1. /\ pc[p] = "added" /\ pc' = [pc EXCEPT ![p] = "parked"]
        /\ UNCHANGED <<wait, notify, ticket, call, doomed>>
    BY <1>4 DEF Park
  <2> QED
    BY <1>t, <2>1, SameTickets DEF Waits, Due
<1>5. ASSUME NEW p \in Proc, Resume(p) PROVE Recent' /\ OneEach'
  <2>1. /\ pc[p] = "woken" /\ pc' = [pc EXCEPT ![p] = "idle"] /\ ticket' = [ticket EXCEPT ![p] = 0]
        /\ UNCHANGED <<wait, notify, call, doomed>>
    BY <1>5 DEF Resume
  <2> QED
    BY <1>t, <2>1, SameTickets DEF Waits, Due
<1>6. ASSUME NEW p \in Proc, FastPath(p) \/ NotifyNobody(p) \/ ReadyDone(p) \/ SlowPath(p)
      PROVE  Recent' /\ OneEach'
  <2>1. /\ pc[p] \in {"load", "lock", "ready"}
        /\ pc' = [pc EXCEPT ![p] = "idle"] \/ pc' = [pc EXCEPT ![p] = "lock"]
        /\ \A q \in Proc : q # p => call'[q] = call[q]
        /\ UNCHANGED <<wait, notify, ticket, doomed>>
    BY <1>6, <1>t DEF FastPath, NotifyNobody, ReadyDone, SlowPath
  <2> QED
    BY <1>t, <2>1, SameTickets DEF Waits, Due
<1>7. ASSUME NEW p \in Proc, NotifyAbsent(p) \/ NotifyFound(p) \/ NotifyAll(p)
      PROVE  Recent' /\ OneEach'
  <2>1. /\ pc[p] = "lock"
        /\ pc' = [pc EXCEPT ![p] = "idle"] \/ pc' = [pc EXCEPT ![p] = "ready"]
        /\ \A q \in Proc : q # p => call'[q] = call[q]
        /\ (notify # wait /\ notify' = Plus(notify, 1)) \/ notify' = wait
        /\ UNCHANGED <<wait, ticket, doomed>>
    BY <1>7, <1>t DEF NotifyAbsent, NotifyFound, NotifyAll
  <2>2. /\ \A q \in Proc : Waits(q)' <=> Waits(q)
        /\ \A q \in Proc : pc'[q] = "load" => pc[q] = "load" /\ call'[q] = call[q]
    BY <1>t, <2>1 DEF Waits
  <2> QED
    BY <2>1, <2>2, NotifyKeepsTickets
<1>10. ASSUME NEW p \in Proc, ReadyNext(p) PROVE Recent' /\ OneEach'
  <2>1. /\ cursor[p] \in Proc /\ pc' = [pc EXCEPT ![cursor[p]] = "woken"]
        /\ pc[cursor[p]] = "parked" /\ ~ Due(cursor[p])
        /\ UNCHANGED <<wait, notify, ticket, call, doomed>>
    BY <1>10, <1>t DEF ReadyNext
  <2> QED
    BY <1>t, <2>1, SameTickets DEF Waits, Due
<1>11. ASSUME Report PROVE Recent' /\ OneEach'
  BY <1>11, SameTickets DEF Report, Waits
<1>12. ASSUME NEW p \in Proc, gcNotifyListNotifyOne(p) PROVE Recent' /\ OneEach'
  <2>1. /\ pc' = [pc EXCEPT ![p] = "idle"] /\ ticket' = [ticket EXCEPT ![p] = 0]
        /\ doomed' /\ UNCHANGED <<wait, notify, call>>
    BY <1>12 DEF gcNotifyListNotifyOne
  <2> QED
    BY <1>t, <2>1, SameTickets DEF Waits
<1>13. ASSUME Reuse PROVE Recent' /\ OneEach'
  <2>1. wait' = 0 /\ notify' = 0 /\ pc' = pc /\ \A q \in Proc : pc[q] = "idle"
    BY <1>13 DEF Reuse, Quiet
  <2>2. 0 \in Ticket /\ Half \in Nat
    BY TicketAssumption DEF Ticket
  <2>3. Age(notify)' = 0
    BY <2>1, <2>2, Counting DEF Age
  <2>4. \A q \in Proc : ~ Waits(q)' /\ pc'[q] # "load"
    BY <2>1 DEF Waits
  <2> QED
    BY <2>2, <2>3, <2>4 DEF Recent, OneEach, Due
<1>14. CASE UNCHANGED vars
  BY <1>14, SameTickets DEF vars, Waits, Due
<1> QED
  BY <1>1, <1>2, <1>3, <1>4, <1>5, <1>6, <1>7, <1>10, <1>11, <1>12, <1>13, <1>14
     DEF Next, Continue
-----------------------------------------------------------------------------
(* The chains.  Ranks grow along them, so they end, and whoever is parked  *)
(* is found from their beginning.                                          *)
Less == {p \in Nat \X Nat : p[1] < p[2]}

LEMMA Least ==
  ASSUME NEW S \in SUBSET Nat, S # {}
  PROVE  \E j \in S : \A k \in S : j <= k
<1>1. OpToRel(<, Nat) = Less
  BY DEF OpToRel, Less
<1>2. PICK j \in S : \A k \in S : <<k, j>> \notin Less
  BY <1>1, NatLessThanWellFounded, WFMin
<1>3. \A k \in S : ~ (k < j)
  BY <1>2 DEF Less
<1> QED
  BY <1>3

(* The chain that starts at First(x) holds those whose place is x.         *)
LEMMA Members ==
  ASSUME TypeOK, NEW place \in [Proc -> Proc \cup {Nil}], NEW rank \in [Proc -> Nat],
         NEW top \in Nat, Chained(place, rank, top), NEW x \in Proc \cup {Nil}
  PROVE  ChainFrom(First(x)) = {q \in Proc : pc[q] = "parked" /\ place[q] = x}
<1> DEFINE M == {q \in Proc : pc[q] = "parked" /\ place[q] = x}
<1>t. First(x) \in Proc \cup {Nil} /\ next \in [Proc -> Proc \cup {Nil}]
  BY DEF First, TypeOK
<1>1. (First(x) # Nil => First(x) \in M) /\ \A p \in M : next[p] # Nil => next[p] \in M
  BY <1>t DEF Chained
<1>2. ASSUME NEW q \in ChainFrom(First(x)) PROVE q \in M
  <2>1. M \in SUBSET Proc
    OBVIOUS
  <2> HIDE DEF M
  <2> QED
    BY <1>1, <2>1 DEF ChainFrom
<1>3. ASSUME NEW S \in SUBSET Proc, First(x) # Nil => First(x) \in S,
             \A p \in S : next[p] # Nil => next[p] \in S
      PROVE  M \subseteq S
  <2> SUFFICES ASSUME M \ S # {} PROVE FALSE
    OBVIOUS
  <2>1. {rank[q] : q \in M \ S} # {} /\ {rank[q] : q \in M \ S} \in SUBSET Nat
    OBVIOUS
  <2>2. PICK q \in M \ S : \A r \in M \ S : rank[q] <= rank[r]
    <3> DEFINE R == {rank[q] : q \in M \ S}
    <3>1. R \in SUBSET Nat /\ R # {}
      BY <2>1
    <3> HIDE DEF R
    <3>2. PICK j \in R : \A k \in R : j <= k
      BY <3>1, Least
    <3> USE DEF R
    <3>3. PICK q \in M \ S : j = rank[q]
      BY <3>2
    <3> QED
      BY <3>2, <3>3
  <2>3. First(x) # q
    BY <1>3, <2>2, NilAssumption
  <2>4. PICK r \in Proc : next[r] = q
    BY <2>2, <2>3 DEF Chained
  <2>5. next[r] # Nil
    BY <2>2, <2>4, NilAssumption
  <2>6. r \in M
    BY <2>2, <2>4, <2>5 DEF Chained
  <2>7. rank[r] < rank[q] /\ rank[r] \in Nat /\ rank[q] \in Nat
    BY <2>2, <2>4, <2>5 DEF Chained
  <2>8. r \in S
    BY <2>2, <2>6, <2>7
  <2> QED
    BY <1>3, <2>2, <2>4, <2>5, <2>8
<1>4. ASSUME NEW q \in M PROVE q \in ChainFrom(First(x))
  <2>1. q \in Proc
    OBVIOUS
  <2> HIDE DEF M
  <2> QED
    BY <1>3, <2>1 DEF ChainFrom
<1> QED
  BY <1>2, <1>4 DEF ChainFrom

(* Every chain has an end: the member with the greatest rank.              *)
LEMMA Ends ==
  ASSUME TypeOK, NEW place \in [Proc -> Proc \cup {Nil}], NEW rank \in [Proc -> Nat],
         NEW top \in Nat, Chained(place, rank, top), NEW x \in Proc \cup {Nil}, First(x) # Nil
  PROVE  \E q \in Proc : pc[q] = "parked" /\ place[q] = x /\ next[q] = Nil
<1> DEFINE M == {q \in Proc : pc[q] = "parked" /\ place[q] = x}
<1>t. First(x) \in Proc \cup {Nil} /\ next \in [Proc -> Proc \cup {Nil}]
  BY DEF First, TypeOK
<1>1. First(x) \in M
  BY <1>t DEF Chained
<1>2. \A q \in Proc : rank[q] \in Nat /\ top - rank[q] \in Nat
  BY DEF Chained
<1>3. {top - rank[q] : q \in M} # {} /\ {top - rank[q] : q \in M} \in SUBSET Nat
  BY <1>1, <1>2
<1>4. PICK q \in M : \A r \in M : top - rank[q] <= top - rank[r]
  <2> DEFINE R == {top - rank[q] : q \in M}
  <2>1. R \in SUBSET Nat /\ R # {}
    BY <1>3
  <2> HIDE DEF R
  <2>2. PICK j \in R : \A k \in R : j <= k
    BY <2>1, Least
  <2> USE DEF R
  <2>3. PICK q \in M : j = top - rank[q]
    BY <2>2
  <2> QED
    BY <2>2, <2>3
<1>5. ASSUME next[q] # Nil PROVE FALSE
  <2>1. next[q] \in M /\ rank[q] < rank[next[q]]
    BY <1>4, <1>5, <1>t DEF Chained
  <2> QED
    BY <1>2, <1>4, <2>1
<1> QED
  BY <1>4, <1>5

(* What Unlink does to the list depends on who precedes s.                 *)
LEMMA Unlinked ==
  ASSUME TypeOK, NEW place \in [Proc -> Proc \cup {Nil}], NEW rank \in [Proc -> Nat],
         NEW top \in Nat, Chained(place, rank, top),
         NEW s \in Proc, pc[s] = "parked", place[s] = Nil, Unlink(s)
  PROVE  \/ /\ \A q \in Proc : next[q] # s
            /\ head = s /\ head' = next[s]
            /\ \A q \in Proc : next'[q] = IF q = s THEN Nil ELSE next[q]
            /\ tail' = IF next[s] = Nil THEN Nil ELSE tail
         \/ \E r \in Proc :
            /\ r # s /\ \A q \in Proc : next[q] = s <=> q = r
            /\ head' = head
            /\ \A q \in Proc : next'[q] = IF q = s THEN Nil ELSE IF q = r THEN next[s] ELSE next[q]
            /\ tail' = IF next[s] = Nil THEN r ELSE tail
<1> DEFINE preds == {p \in Proc : next[p] = s}
<1>1. /\ head' = IF preds = {} THEN next[s] ELSE head
      /\ next' = [p \in Proc |-> IF p = s THEN Nil ELSE IF p \in preds THEN next[s] ELSE next[p]]
      /\ tail' = IF next[s] # Nil THEN tail ELSE IF preds = {} THEN Nil ELSE CHOOSE p \in preds : TRUE
  BY DEF Unlink
<1>2. First(Nil) = head /\ s # Nil
  BY NilAssumption DEF First
<1>3. CASE preds = {}
  <2>1. head = s
    BY <1>2, <1>3 DEF Chained
  <2> QED
    BY <1>1, <1>3, <2>1
<1>4. CASE preds # {}
  <2>1. PICK r \in Proc : r = (CHOOSE p \in preds : TRUE) /\ next[r] = s
    BY <1>4
  <2>2. \A q \in Proc : next[q] = s <=> q = r
    BY <1>2, <2>1 DEF Chained
  <2>3. r # s
    BY <1>2, <2>1 DEF Chained
  <2>4. \A q \in Proc : q \in preds <=> q = r
    BY <2>2
  <2>5. next[s] = Nil => tail' = r
    BY <1>1, <1>4, <2>1
  <2> HIDE DEF preds
  <2> QED
    BY <1>1, <1>4, <2>2, <2>3, <2>4, <2>5
<1> QED
  BY <1>3, <1>4

(* A step that parks and readies nobody and notifies nobody on the list.   *)
LEMMA SameChains ==
  ASSUME NEW place \in [Proc -> Proc \cup {Nil}], NEW rank \in [Proc -> Nat], NEW top \in Nat,
         Chained(place, rank, top), TypeOK,
         UNCHANGED <<head, tail, next, cursor>>,
         \A q \in Proc : pc'[q] = "parked" <=> pc[q] = "parked",
         \A q \in Proc : pc[q] = "parked" => (Due(q)' <=> Due(q))
  PROVE  Chained(place, rank, top)'
<1>1. \A x \in Proc \cup {Nil} : First(x)' = First(x) /\ First(x) \in Proc \cup {Nil}
  BY DEF First, TypeOK
<1>2. \A q \in Proc : next[q] \in Proc \cup {Nil}
  BY DEF TypeOK
<1> QED
  BY <1>1, <1>2 DEF Chained

LEMMA DueAfterNotify ==
  ASSUME TypeOK, Recent, wait' = wait, ticket' = ticket,
         NEW q \in Proc, Waits(q)' <=> Waits(q)
  PROVE  /\ notify # wait /\ notify' = Plus(notify, 1) =>
              (Due(q)' <=> Due(q) /\ ticket[q] # notify)
         /\ notify' = wait => ~ Due(q)'
<1>1. wait \in Ticket /\ notify \in Ticket /\ ticket[q] \in Ticket
  BY DEF TypeOK
<1>2. /\ Age(ticket[q])' = Age(ticket[q])
      /\ Age(ticket[q]) \in Int /\ Age(notify) \in Int
      /\ Age(ticket[q]) = Age(notify) <=> ticket[q] = notify
      /\ Waits(q) => Age(ticket[q]) >= 1
  <2>1. Age(ticket[q])' = Age(ticket[q])
    BY DEF Age
  <2>2. Age(ticket[q]) \in Int /\ Age(notify) \in Int
    <3>1. Minus(wait, ticket[q]) \in Ticket /\ Minus(wait, notify) \in Ticket
      BY <1>1, Wrapped
    <3> QED
      BY <3>1, TicketAssumption DEF Age, Ticket
  <2>3. Age(ticket[q]) = Age(notify) <=> ticket[q] = notify
    BY <1>1, Counting DEF Age
  <2>4. Waits(q) => Age(ticket[q]) >= 1
    BY DEF Recent
  <2> QED
    BY <2>1, <2>2, <2>3, <2>4
<1>3. notify # wait /\ notify' = Plus(notify, 1) => Age(notify)' = Age(notify) - 1
  BY <1>1, Counting DEF Age
<1>4. notify' = wait => Age(notify)' = 0
  BY <1>1, Counting DEF Age
<1> QED
  BY <1>2, <1>3, <1>4 DEF Due

LEMMA ParkKeepsChains ==
  ASSUME TypeOK, TypeOK', Recent,
         NEW place \in [Proc -> Proc \cup {Nil}], NEW rank \in [Proc -> Nat], NEW top \in Nat,
         Chained(place, rank, top), NEW p \in Proc, Park(p)
  PROVE  Chained([place EXCEPT ![p] = Nil], [rank EXCEPT ![p] = top + 1], top + 1)'
<1> DEFINE nplace == [place EXCEPT ![p] = Nil]
           nrank == [rank EXCEPT ![p] = top + 1]
<1>1. /\ pc[p] = "added" /\ ~ less(ticket[p], notify)
      /\ \A q \in Proc : pc'[q] = IF q = p THEN "parked" ELSE pc[q]
      /\ head' = IF tail = Nil THEN p ELSE head
      /\ \A q \in Proc : next'[q] = IF q = tail THEN p ELSE next[q]
      /\ tail' = p
      /\ UNCHANGED <<wait, notify, ticket, cursor>>
  BY NilAssumption DEF Park, GoTo, TypeOK
<1>2. /\ \A q \in Proc : next[q] \in Proc \cup {Nil} /\ rank[q] \in Nat
      /\ head \in Proc \cup {Nil} /\ tail \in Proc \cup {Nil} /\ p # Nil /\ top \in Nat
  BY NilAssumption DEF TypeOK
<1>3. Due(p) /\ \A q \in Proc : Due(q)' <=> Due(q)
  BY <1>1, OwedIsDue DEF Due, Waits, Age
<1>4. \A x \in Proc \cup {Nil} :
        /\ First(x)' = IF x = Nil /\ tail = Nil THEN p ELSE First(x)
        /\ First(x) \in Proc \cup {Nil} /\ First(x) # p
  <2> SUFFICES ASSUME NEW x \in Proc \cup {Nil}
               PROVE  /\ First(x)' = IF x = Nil /\ tail = Nil THEN p ELSE First(x)
                      /\ First(x) \in Proc \cup {Nil} /\ First(x) # p
    OBVIOUS
  <2>1. First(x) \in Proc \cup {Nil}
    BY DEF First, TypeOK
  <2>2. First(x) # p
    BY <1>1, <1>2 DEF Chained
  <2>3. First(x)' = IF x = Nil THEN head' ELSE cursor[x]
    BY <1>1 DEF First
  <2>4. First(x) = IF x = Nil THEN head ELSE cursor[x]
    BY DEF First
  <2> QED
    BY <2>1, <2>2, <2>3, <2>4, <1>1
<1>5. next[p] = Nil /\ p # tail /\ \A q \in Proc : next[q] # p
  BY <1>1, <1>2 DEF Chained
<1>6. \A q \in Proc : nplace[q] = (IF q = p THEN Nil ELSE place[q])
                      /\ nrank[q] = (IF q = p THEN top + 1 ELSE rank[q])
  OBVIOUS
<1>7. tail # Nil => pc[tail] = "parked" /\ place[tail] = Nil /\ next[tail] = Nil
  BY <1>2 DEF Chained
<1> HIDE DEF nplace, nrank
<1>8. \A q \in Proc : nrank[q] <= top + 1
  BY <1>2, <1>6 DEF Chained
<1>9. \A q \in Proc : pc'[q] # "parked" => next'[q] = Nil
  BY <1>1, <1>2, <1>7 DEF Chained
<1>10. ASSUME NEW q \in Proc, next'[q] # Nil
       PROVE  pc'[next'[q]] = "parked" /\ nplace[next'[q]] = nplace[q] /\ nrank[q] < nrank[next'[q]]
  <2>1. CASE q = tail
    <3>1. rank[q] <= top /\ q # p
      BY <2>1, <1>5 DEF Chained
    <3>2. tail # Nil /\ next'[q] = p
      BY <2>1, <1>1, NilAssumption
    <3>3. pc'[p] = "parked" /\ nplace[p] = Nil /\ nplace[q] = Nil
      BY <2>1, <3>1, <3>2, <1>1, <1>6, <1>7
    <3>4. nrank[q] < nrank[p]
      BY <3>1, <1>2, <1>6
    <3> QED
      BY <3>2, <3>3, <3>4
  <2>2. CASE q # tail
    BY <2>2, <1>10, <1>1, <1>2, <1>5, <1>6 DEF Chained
  <2> QED
    BY <2>1, <2>2
<1>11. \A q, r \in Proc : next'[q] = next'[r] /\ next'[q] # Nil => q = r
  BY <1>1, <1>2, <1>5 DEF Chained
<1>12. ASSUME NEW x \in Proc \cup {Nil}, First(x)' # Nil
       PROVE  pc'[First(x)'] = "parked" /\ nplace[First(x)'] = x /\ \A q \in Proc : next'[q] # First(x)'
  <2>1. CASE x = Nil /\ tail = Nil
    BY <2>1, <1>1, <1>2, <1>4, <1>5, <1>6, NilAssumption
  <2>2. CASE ~ (x = Nil /\ tail = Nil)
    BY <2>2, <1>12, <1>1, <1>2, <1>4, <1>6 DEF Chained
  <2> QED
    BY <2>1, <2>2
<1>13. ASSUME NEW q \in Proc, pc'[q] = "parked"
       PROVE  First(nplace[q])' = q \/ \E r \in Proc : next'[r] = q
  <2>1. CASE q = p
    BY <2>1, <1>1, <1>2, <1>4, <1>6
  <2>2. CASE q # p
    <3>1. First(place[q]) = q \/ \E r \in Proc : next[r] = q /\ r # tail
      BY <2>2, <1>13, <1>1, <1>2, <1>7, NilAssumption DEF Chained
    <3>2. CASE First(place[q]) = q
      <4>1. ~ (place[q] = Nil /\ tail = Nil)
        BY <3>2, <1>2, NilAssumption DEF Chained, First
      <4> QED
        BY <4>1, <3>2, <2>2, <1>4, <1>6
    <3> QED
      BY <3>1, <3>2, <1>1
  <2> QED
    BY <2>1, <2>2
<1>14. head' = Nil <=> tail' = Nil
  BY <1>1, <1>2 DEF Chained
<1>15. \A q \in Proc : q = tail' <=> pc'[q] = "parked" /\ nplace[q] = Nil /\ next'[q] = Nil
  BY <1>1, <1>2, <1>5, <1>6, <1>7 DEF Chained
<1>16. \A q \in Proc : pc'[q] = "parked" => (nplace[q] = Nil <=> Due(q)')
  BY <1>1, <1>3, <1>6 DEF Chained
<1> QED
  BY <1>8, <1>9, <1>10, <1>11, <1>12, <1>13, <1>14, <1>15, <1>16 DEF Chained, nplace, nrank

LEMMA NotifyAllKeepsChains ==
  ASSUME TypeOK, Quiet, Recent,
         NEW place \in [Proc -> Proc \cup {Nil}], NEW rank \in [Proc -> Nat], NEW top \in Nat,
         Chained(place, rank, top), NEW p \in Proc, NotifyAll(p)
  PROVE  Chained([q \in Proc |-> IF place[q] = Nil THEN p ELSE place[q]], rank, top)'
<1> DEFINE nplace == [q \in Proc |-> IF place[q] = Nil THEN p ELSE place[q]]
<1>1. /\ pc[p] = "lock" /\ \A q \in Proc : pc'[q] = IF q = p THEN "ready" ELSE pc[q]
      /\ cursor' = [cursor EXCEPT ![p] = head] /\ head' = Nil /\ tail' = Nil
      /\ notify' = wait /\ UNCHANGED <<wait, next, ticket>>
  BY DEF NotifyAll, GoTo, TypeOK
<1>2. /\ \A q \in Proc : next[q] \in Proc \cup {Nil} /\ q # Nil
      /\ head \in Proc \cup {Nil} /\ cursor[p] = Nil
  BY <1>1, NilAssumption DEF TypeOK, Quiet
<1>3. \A x \in Proc \cup {Nil} :
        First(x) \in Proc \cup {Nil} /\ First(x)' = IF x = Nil THEN Nil ELSE IF x = p THEN head ELSE First(x)
  <2> SUFFICES ASSUME NEW x \in Proc \cup {Nil}
               PROVE  /\ First(x) \in Proc \cup {Nil}
                      /\ First(x)' = IF x = Nil THEN Nil ELSE IF x = p THEN head ELSE First(x)
    OBVIOUS
  <2> QED
    BY <1>1, <1>2 DEF First, TypeOK
<1>4. First(p) = Nil /\ First(Nil) = head
  BY <1>2 DEF First
<1>5. \A q \in Proc : pc'[q] = "parked" <=> pc[q] = "parked"
  BY <1>1
<1>6. \A q \in Proc : pc[q] = "parked" => ~ Due(q)'
  BY <1>1, <1>5, DueAfterNotify DEF Waits, Due
<1>7. \A q \in Proc : nplace[q] = (IF place[q] = Nil THEN p ELSE place[q]) /\ nplace[q] # Nil
  BY <1>2
<1> HIDE DEF nplace
<1>8. /\ \A q \in Proc : rank[q] <= top
      /\ \A q \in Proc : pc'[q] # "parked" => next'[q] = Nil
      /\ \A q, r \in Proc : next'[q] = next'[r] /\ next'[q] # Nil => q = r
  BY <1>1 DEF Chained
<1>9. ASSUME NEW q \in Proc, next'[q] # Nil
      PROVE  pc'[next'[q]] = "parked" /\ nplace[next'[q]] = nplace[q] /\ rank[q] < rank[next'[q]]
  BY <1>1, <1>2, <1>7, <1>9 DEF Chained
<1>10. ASSUME NEW x \in Proc \cup {Nil}, First(x)' # Nil
       PROVE  pc'[First(x)'] = "parked" /\ nplace[First(x)'] = x /\ \A q \in Proc : next'[q] # First(x)'
  <2>1. PICK y \in Proc \cup {Nil} : First(x)' = First(y) /\ x = (IF y = Nil THEN p ELSE y)
    BY <1>3, <1>4, <1>10
  <2>2. pc[First(y)] = "parked" /\ place[First(y)] = y /\ \A q \in Proc : next[q] # First(y)
    BY <1>10, <2>1 DEF Chained
  <2>3. First(y) \in Proc
    BY <1>3, <1>10, <2>1
  <2>4. pc'[First(y)] = "parked" /\ nplace[First(y)] = x /\ \A q \in Proc : next'[q] # First(y)
    BY <1>1, <1>7, <2>1, <2>2, <2>3
  <2> QED
    BY <2>1, <2>4
<1>11. ASSUME NEW q \in Proc, pc'[q] = "parked"
       PROVE  First(nplace[q])' = q \/ \E r \in Proc : next'[r] = q
  <2>1. First(place[q]) = q \/ \E r \in Proc : next[r] = q
    BY <1>1, <1>11 DEF Chained
  <2>2. place[q] \in Proc \cup {Nil} /\ nplace[q] \in Proc
    BY <1>7
  <2>3. First(place[q]) = q => First(nplace[q])' = q
    BY <1>2, <1>3, <1>4, <1>7, <2>2
  <2> QED
    BY <2>1, <2>3, <1>1
<1>12. /\ head' = Nil <=> tail' = Nil
       /\ \A q \in Proc : q = tail' <=> pc'[q] = "parked" /\ nplace[q] = Nil /\ next'[q] = Nil
       /\ \A q \in Proc : pc'[q] = "parked" => (nplace[q] = Nil <=> Due(q)')
  BY <1>1, <1>2, <1>5, <1>6, <1>7
<1> QED
  BY <1>8, <1>9, <1>10, <1>11, <1>12 DEF Chained, nplace

LEMMA ReadyKeepsChains ==
  ASSUME TypeOK, Quiet,
         NEW place \in [Proc -> Proc \cup {Nil}], NEW rank \in [Proc -> Nat], NEW top \in Nat,
         Chained(place, rank, top), NEW p \in Proc, ReadyNext(p)
  PROVE  Chained(place, rank, top)'
<1>1. PICK s \in Proc : s = cursor[p] /\ pc[p] = "ready"
  BY NilAssumption DEF ReadyNext, TypeOK
<1>2. /\ \A q \in Proc : pc'[q] = IF q = s THEN "woken" ELSE pc[q]
      /\ \A q \in Proc : next'[q] = IF q = s THEN Nil ELSE next[q]
      /\ \A q \in Proc : cursor'[q] = IF q = p THEN next[s] ELSE cursor[q]
      /\ UNCHANGED <<head, tail, wait, notify, ticket>>
  BY <1>1 DEF ReadyNext, GoTo, TypeOK
<1>3. /\ \A q \in Proc : next[q] \in Proc \cup {Nil} /\ q # Nil
      /\ head \in Proc \cup {Nil}
  BY NilAssumption DEF TypeOK
<1>4. \A x \in Proc \cup {Nil} :
        First(x) \in Proc \cup {Nil} /\ First(x)' = IF x = p THEN next[s] ELSE First(x)
  <2> SUFFICES ASSUME NEW x \in Proc \cup {Nil}
               PROVE  First(x) \in Proc \cup {Nil} /\ First(x)' = IF x = p THEN next[s] ELSE First(x)
    OBVIOUS
  <2> QED
    BY <1>2, <1>3 DEF First, TypeOK
<1>5. First(p) = s /\ pc[s] = "parked" /\ place[s] = p /\ \A q \in Proc : next[q] # s
  <2>1. First(p) = s
    BY <1>1, <1>3 DEF First
  <2> QED
    BY <2>1, <1>3 DEF Chained
<1>6. \A q \in Proc : q # s => (Due(q)' <=> Due(q))
  BY <1>2 DEF Due, Waits, Age
<1>7. /\ \A q \in Proc : rank[q] <= top
      /\ \A q \in Proc : pc'[q] # "parked" => next'[q] = Nil
      /\ \A q, r \in Proc : next'[q] = next'[r] /\ next'[q] # Nil => q = r
  BY <1>2 DEF Chained
<1>8. ASSUME NEW q \in Proc, next'[q] # Nil
      PROVE  pc'[next'[q]] = "parked" /\ place[next'[q]] = place[q] /\ rank[q] < rank[next'[q]]
  BY <1>2, <1>3, <1>5, <1>8 DEF Chained
<1>9. ASSUME NEW x \in Proc \cup {Nil}, First(x)' # Nil
      PROVE  pc'[First(x)'] = "parked" /\ place[First(x)'] = x /\ \A q \in Proc : next'[q] # First(x)'
  <2>1. CASE x = p
    <3>1. First(x)' = next[s] /\ next[s] \in Proc /\ next[s] # s
      BY <2>1, <1>3, <1>4, <1>5, <1>9
    <3>2. pc[next[s]] = "parked" /\ place[next[s]] = p
      BY <3>1, <1>3, <1>5 DEF Chained
    <3>3. \A q \in Proc : q # s => next[q] # next[s]
      BY <3>1, <1>3 DEF Chained
    <3>4. pc'[next[s]] = "parked" /\ \A q \in Proc : next'[q] # next[s]
      BY <3>1, <3>2, <3>3, <1>2, <1>3
    <3> QED
      BY <2>1, <3>1, <3>2, <3>4
  <2>2. CASE x # p
    <3>1. First(x)' = First(x) /\ First(x) \in Proc
      BY <2>2, <1>4, <1>9
    <3>2. pc[First(x)] = "parked" /\ place[First(x)] = x /\ \A q \in Proc : next[q] # First(x)
      BY <3>1, <1>3 DEF Chained
    <3>3. First(x) # s
      BY <3>2, <2>2, <1>5
    <3>4. pc'[First(x)] = "parked" /\ \A q \in Proc : next'[q] # First(x)
      BY <3>1, <3>2, <3>3, <1>2, <1>3
    <3> QED
      BY <3>1, <3>2, <3>4
  <2> QED
    BY <2>1, <2>2
<1>10. ASSUME NEW q \in Proc, pc'[q] = "parked"
       PROVE  First(place[q])' = q \/ \E r \in Proc : next'[r] = q
  <2>1. q # s /\ pc[q] = "parked"
    BY <1>2, <1>10
  <2>2. First(place[q]) = q \/ \E r \in Proc : next[r] = q
    BY <2>1 DEF Chained
  <2>3. CASE First(place[q]) = q
    BY <2>1, <2>3, <1>4, <1>5
  <2>4. ASSUME NEW r \in Proc, next[r] = q PROVE First(place[q])' = q \/ \E u \in Proc : next'[u] = q
    <3>1. CASE r = s
      <4>1. place[q] = p
        BY <2>4, <3>1, <1>3, <1>5 DEF Chained
      <4> QED
        BY <2>4, <3>1, <4>1, <1>4
    <3>2. CASE r # s
      BY <2>4, <3>2, <1>2
    <3> QED
      BY <3>1, <3>2
  <2> QED
    BY <2>2, <2>3, <2>4
<1>11. head' = Nil <=> tail' = Nil
  BY <1>2 DEF Chained
<1>12. ASSUME NEW q \in Proc
       PROVE  q = tail' <=> pc'[q] = "parked" /\ place[q] = Nil /\ next'[q] = Nil
  <2>1. q = tail <=> pc[q] = "parked" /\ place[q] = Nil /\ next[q] = Nil
    BY DEF Chained
  <2> QED
    BY <2>1, <1>2, <1>3, <1>5
<1>13. \A q \in Proc : pc'[q] = "parked" => (place[q] = Nil <=> Due(q)')
  BY <1>2, <1>6 DEF Chained
<1> QED
  BY <1>7, <1>8, <1>9, <1>10, <1>11, <1>12, <1>13 DEF Chained

(* Unlink takes s, and only s, out of the list.                            *)
LEMMA ListWithout ==
  ASSUME TypeOK, NEW place \in [Proc -> Proc \cup {Nil}], NEW rank \in [Proc -> Nat],
         NEW top \in Nat, Chained(place, rank, top),
         NEW s \in Proc, pc[s] = "parked", place[s] = Nil, Unlink(s)
  PROVE  /\ next'[s] = Nil /\ \A q \in Proc : next'[q] \in Proc \cup {Nil} /\ next'[q] # s
         /\ \A q \in Proc : next'[q] # Nil =>
              /\ pc[next'[q]] = "parked"
              /\ place[next'[q]] = place[q]
              /\ rank[q] < rank[next'[q]]
         /\ \A q, u \in Proc : next'[q] = next'[u] /\ next'[q] # Nil => q = u
         /\ head' # Nil => /\ head' \in Proc /\ head' # s /\ pc[head'] = "parked"
                           /\ place[head'] = Nil /\ \A q \in Proc : next'[q] # head'
         /\ \A x \in Proc : cursor[x] # Nil => cursor[x] # s /\ \A q \in Proc : next'[q] # cursor[x]
         /\ \A q \in Proc : pc[q] = "parked" /\ q # s =>
              \/ place[q] = Nil /\ head' = q
              \/ place[q] # Nil /\ cursor[place[q]] = q
              \/ \E u \in Proc : next'[u] = q
         /\ \A q \in Proc : pc[q] # "parked" => next'[q] = Nil
         /\ head' = Nil <=> tail' = Nil
         /\ \A q \in Proc :
              q = tail' <=> q # s /\ pc[q] = "parked" /\ place[q] = Nil /\ next'[q] = Nil
<1>1. /\ \A q \in Proc : next[q] \in Proc \cup {Nil} /\ q # Nil
      /\ head \in Proc \cup {Nil} /\ tail \in Proc \cup {Nil} /\ Nil \notin Proc
      /\ \A x \in Proc : cursor[x] \in Proc \cup {Nil}
  BY NilAssumption DEF TypeOK
<1>2. First(Nil) = head /\ \A x \in Proc : First(x) = cursor[x]
  BY <1>1 DEF First
<1>3. /\ \A q \in Proc : pc[q] # "parked" => next[q] = Nil
      /\ \A q \in Proc : next[q] # Nil =>
           pc[next[q]] = "parked" /\ place[next[q]] = place[q] /\ rank[q] < rank[next[q]]
      /\ \A q, r \in Proc : next[q] = next[r] /\ next[q] # Nil => q = r
      /\ head = Nil <=> tail = Nil
      /\ \A q \in Proc : q = tail <=> pc[q] = "parked" /\ place[q] = Nil /\ next[q] = Nil
  BY DEF Chained
<1>4. /\ head # Nil => pc[head] = "parked" /\ place[head] = Nil /\ \A q \in Proc : next[q] # head
      /\ \A x \in Proc : cursor[x] # Nil =>
           pc[cursor[x]] = "parked" /\ place[cursor[x]] = x /\ \A q \in Proc : next[q] # cursor[x]
  BY <1>1, <1>2 DEF Chained
<1>5. \A q \in Proc : pc[q] = "parked" =>
        \/ place[q] = Nil /\ head = q
        \/ place[q] # Nil /\ cursor[place[q]] = q
        \/ \E u \in Proc : next[u] = q
  <2> SUFFICES ASSUME NEW q \in Proc, pc[q] = "parked"
               PROVE  \/ place[q] = Nil /\ head = q
                      \/ place[q] # Nil /\ cursor[place[q]] = q
                      \/ \E u \in Proc : next[u] = q
    OBVIOUS
  <2>1. First(place[q]) = q \/ \E u \in Proc : next[u] = q
    BY DEF Chained
  <2> QED
    BY <2>1, <1>2
<1>6. \A q \in Proc : rank[q] \in Nat
  OBVIOUS
<1>7. CASE /\ \A q \in Proc : next[q] # s
           /\ head = s /\ head' = next[s]
           /\ \A q \in Proc : next'[q] = IF q = s THEN Nil ELSE next[q]
           /\ tail' = IF next[s] = Nil THEN Nil ELSE tail
  <2>1. next'[s] = Nil /\ \A q \in Proc : next'[q] \in Proc \cup {Nil} /\ next'[q] # s
    BY <1>1, <1>7
  <2>2. \A q \in Proc : next'[q] # Nil =>
          pc[next'[q]] = "parked" /\ place[next'[q]] = place[q] /\ rank[q] < rank[next'[q]]
    BY <1>3, <1>7
  <2>3. \A q, u \in Proc : next'[q] = next'[u] /\ next'[q] # Nil => q = u
    BY <1>3, <1>7
  <2>4. head' # Nil => /\ head' \in Proc /\ head' # s /\ pc[head'] = "parked"
                       /\ place[head'] = Nil /\ \A q \in Proc : next'[q] # head'
    BY <1>1, <1>3, <1>7
  <2>5. \A x \in Proc : cursor[x] # Nil => cursor[x] # s /\ \A q \in Proc : next'[q] # cursor[x]
    BY <1>1, <1>4, <1>7
  <2>6. \A q \in Proc : pc[q] = "parked" /\ q # s =>
          \/ place[q] = Nil /\ head' = q
          \/ place[q] # Nil /\ cursor[place[q]] = q
          \/ \E u \in Proc : next'[u] = q
    BY <1>1, <1>3, <1>5, <1>7
  <2>7. (\A q \in Proc : pc[q] # "parked" => next'[q] = Nil) /\ (head' = Nil <=> tail' = Nil)
    BY <1>1, <1>3, <1>7
  <2>8. \A q \in Proc :
          q = tail' <=> q # s /\ pc[q] = "parked" /\ place[q] = Nil /\ next'[q] = Nil
    BY <1>1, <1>3, <1>7
  <2> QED
    BY <2>1, <2>2, <2>3, <2>4, <2>5, <2>6, <2>7, <2>8
<1>8. ASSUME NEW r \in Proc, r # s, \A q \in Proc : next[q] = s <=> q = r,
             head' = head,
             \A q \in Proc : next'[q] = IF q = s THEN Nil ELSE IF q = r THEN next[s] ELSE next[q],
             tail' = IF next[s] = Nil THEN r ELSE tail
      PROVE  /\ next'[s] = Nil /\ \A q \in Proc : next'[q] \in Proc \cup {Nil} /\ next'[q] # s
             /\ \A q \in Proc : next'[q] # Nil =>
                  /\ pc[next'[q]] = "parked"
                  /\ place[next'[q]] = place[q]
                  /\ rank[q] < rank[next'[q]]
             /\ \A q, u \in Proc : next'[q] = next'[u] /\ next'[q] # Nil => q = u
             /\ head' # Nil => /\ head' \in Proc /\ head' # s /\ pc[head'] = "parked"
                               /\ place[head'] = Nil /\ \A q \in Proc : next'[q] # head'
             /\ \A x \in Proc : cursor[x] # Nil => cursor[x] # s /\ \A q \in Proc : next'[q] # cursor[x]
             /\ \A q \in Proc : pc[q] = "parked" /\ q # s =>
                  \/ place[q] = Nil /\ head' = q
                  \/ place[q] # Nil /\ cursor[place[q]] = q
                  \/ \E u \in Proc : next'[u] = q
             /\ \A q \in Proc : pc[q] # "parked" => next'[q] = Nil
             /\ head' = Nil <=> tail' = Nil
             /\ \A q \in Proc :
                  q = tail' <=> q # s /\ pc[q] = "parked" /\ place[q] = Nil /\ next'[q] = Nil
  <2>0. /\ next[s] # s /\ next[r] = s /\ pc[r] = "parked" /\ place[r] = Nil
        /\ next[s] # Nil => rank[r] < rank[next[s]]
    BY <1>1, <1>3, <1>6, <1>8
  <2>1. next'[s] = Nil /\ \A q \in Proc : next'[q] \in Proc \cup {Nil} /\ next'[q] # s
    BY <1>1, <1>8
  <2>2. \A q \in Proc : next'[q] # Nil =>
          pc[next'[q]] = "parked" /\ place[next'[q]] = place[q] /\ rank[q] < rank[next'[q]]
    BY <1>1, <1>3, <1>8, <2>0
  <2>3. \A q, u \in Proc : next'[q] = next'[u] /\ next'[q] # Nil => q = u
    BY <1>3, <1>8
  <2>4. head' # Nil => /\ head' \in Proc /\ head' # s /\ pc[head'] = "parked"
                       /\ place[head'] = Nil /\ \A q \in Proc : next'[q] # head'
    BY <1>1, <1>4, <1>8, <2>0
  <2>5. \A x \in Proc : cursor[x] # Nil => cursor[x] # s /\ \A q \in Proc : next'[q] # cursor[x]
    BY <1>1, <1>4, <1>8
  <2>6. \A q \in Proc : pc[q] = "parked" /\ q # s =>
          \/ place[q] = Nil /\ head' = q
          \/ place[q] # Nil /\ cursor[place[q]] = q
          \/ \E u \in Proc : next'[u] = q
    BY <1>1, <1>3, <1>5, <1>8
  <2>7. (\A q \in Proc : pc[q] # "parked" => next'[q] = Nil) /\ (head' = Nil <=> tail' = Nil)
    BY <1>1, <1>3, <1>8
  <2>8. \A q \in Proc :
          q = tail' <=> q # s /\ pc[q] = "parked" /\ place[q] = Nil /\ next'[q] = Nil
    BY <1>1, <1>3, <1>8
  <2> QED
    BY <2>1, <2>2, <2>3, <2>4, <2>5, <2>6, <2>7, <2>8
<1> QED
  BY <1>7, <1>8, Unlinked

LEMMA UnlinkKeepsChains ==
  ASSUME TypeOK, NEW place \in [Proc -> Proc \cup {Nil}], NEW rank \in [Proc -> Nat],
         NEW top \in Nat, Chained(place, rank, top),
         NEW s \in Proc, pc[s] = "parked", place[s] = Nil, Unlink(s),
         NEW nplace \in [Proc -> Proc \cup {Nil}], \A q \in Proc : q # s => nplace[q] = place[q],
         \A q \in Proc : q # s => (pc'[q] = "parked" <=> pc[q] = "parked"),
         \/ pc'[s] # "parked" /\ cursor' = cursor
         \/ \E p \in Proc : /\ pc'[s] = "parked" /\ nplace[s] = p /\ cursor[p] = Nil
                            /\ cursor' = [cursor EXCEPT ![p] = s],
         \A q \in Proc : pc'[q] = "parked" => (nplace[q] = Nil <=> Due(q)')
  PROVE  Chained(nplace, rank, top)'
<1>1. /\ next'[s] = Nil /\ \A q \in Proc : next'[q] \in Proc \cup {Nil} /\ next'[q] # s
      /\ \A q \in Proc : next'[q] # Nil =>
           /\ pc[next'[q]] = "parked"
           /\ place[next'[q]] = place[q]
           /\ rank[q] < rank[next'[q]]
      /\ \A q, u \in Proc : next'[q] = next'[u] /\ next'[q] # Nil => q = u
      /\ head' # Nil => /\ head' \in Proc /\ head' # s /\ pc[head'] = "parked"
                        /\ place[head'] = Nil /\ \A q \in Proc : next'[q] # head'
      /\ \A x \in Proc : cursor[x] # Nil => cursor[x] # s /\ \A q \in Proc : next'[q] # cursor[x]
      /\ \A q \in Proc : pc[q] = "parked" /\ q # s =>
           \/ place[q] = Nil /\ head' = q
           \/ place[q] # Nil /\ cursor[place[q]] = q
           \/ \E u \in Proc : next'[u] = q
      /\ \A q \in Proc : pc[q] # "parked" => next'[q] = Nil
      /\ head' = Nil <=> tail' = Nil
      /\ \A q \in Proc :
           q = tail' <=> q # s /\ pc[q] = "parked" /\ place[q] = Nil /\ next'[q] = Nil
  BY ListWithout
<1>2. /\ Nil \notin Proc /\ \A x \in Proc : cursor[x] \in Proc \cup {Nil}
      /\ cursor \in [Proc -> Proc \cup {Nil}]
  BY NilAssumption DEF TypeOK
<1>3. First(Nil)' = head' /\ \A x \in Proc : First(x)' = cursor'[x]
  BY <1>2 DEF First
<1>4. \A x \in Proc : cursor[x] # Nil => pc[cursor[x]] = "parked" /\ place[cursor[x]] = x
  <2>1. \A x \in Proc : First(x) = cursor[x]
    BY <1>2 DEF First
  <2> QED
    BY <2>1 DEF Chained
<1>5. \A x \in Proc :
        \/ cursor'[x] = cursor[x] /\ (x # nplace[s] \/ pc'[s] # "parked")
        \/ cursor'[x] = s /\ pc'[s] = "parked" /\ nplace[s] = x /\ cursor[x] = Nil
  BY <1>2
<1>6. pc'[s] = "parked" => nplace[s] \in Proc
  BY <1>2
<1>7. /\ \A q \in Proc : rank[q] <= top
      /\ \A q \in Proc : pc'[q] # "parked" => next'[q] = Nil
      /\ \A q, u \in Proc : next'[q] = next'[u] /\ next'[q] # Nil => q = u
  BY <1>1 DEF Chained
<1>8. \A q \in Proc : next'[q] # Nil =>
        pc'[next'[q]] = "parked" /\ nplace[next'[q]] = nplace[q] /\ rank[q] < rank[next'[q]]
  BY <1>1
<1>9. ASSUME NEW x \in Proc \cup {Nil}, First(x)' # Nil
      PROVE  pc'[First(x)'] = "parked" /\ nplace[First(x)'] = x /\ \A q \in Proc : next'[q] # First(x)'
  <2>1. CASE x = Nil
    BY <2>1, <1>1, <1>3, <1>9
  <2>2. CASE x \in Proc /\ cursor'[x] = s
    <3>1. pc'[s] = "parked" /\ nplace[s] = x
      BY <2>2, <1>1, <1>2, <1>5
    <3> QED
      BY <2>2, <3>1, <1>1, <1>3
  <2>3. CASE x \in Proc /\ cursor'[x] # s
    <3>1. cursor'[x] = cursor[x] /\ First(x)' = cursor[x] /\ cursor[x] \in Proc /\ cursor[x] # s
      BY <2>3, <1>2, <1>3, <1>5, <1>9
    <3> QED
      BY <3>1, <2>3, <1>1, <1>2, <1>4
  <2> QED
    BY <2>1, <2>2, <2>3
<1>10. ASSUME NEW q \in Proc, pc'[q] = "parked"
       PROVE  First(nplace[q])' = q \/ \E u \in Proc : next'[u] = q
  <2>1. CASE q = s
    BY <2>1, <1>2, <1>3, <1>5, <1>6, <1>10
  <2>2. CASE q # s
    <3>1. /\ pc[q] = "parked" /\ nplace[q] = place[q]
          /\ \/ place[q] = Nil /\ head' = q
             \/ place[q] # Nil /\ cursor[place[q]] = q
             \/ \E u \in Proc : next'[u] = q
      BY <2>2, <1>1, <1>10
    <3>2. CASE place[q] # Nil /\ cursor[place[q]] = q
      <4>1. place[q] \in Proc /\ cursor'[place[q]] = q
        BY <3>2, <1>2, <1>5
      <4> QED
        BY <4>1, <3>1, <1>3
    <3> QED
      BY <3>1, <3>2, <1>3
  <2> QED
    BY <2>1, <2>2
<1>11. head' = Nil <=> tail' = Nil
  BY <1>1
<1>12. \A q \in Proc : q = tail' <=> pc'[q] = "parked" /\ nplace[q] = Nil /\ next'[q] = Nil
  BY <1>1, <1>2, <1>6
<1> QED
  BY <1>7, <1>8, <1>9, <1>10, <1>11, <1>12 DEF Chained

LEMMA FoundKeepsChains ==
  ASSUME TypeOK, Quiet, Recent, OneEach,
         NEW place \in [Proc -> Proc \cup {Nil}], NEW rank \in [Proc -> Nat], NEW top \in Nat,
         Chained(place, rank, top), NEW p \in Proc, NotifyFound(p)
  PROVE  \E nplace \in [Proc -> Proc \cup {Nil}] : Chained(nplace, rank, top)'
<1>1. First(Nil) = head
  BY DEF First
<1>2. PICK s \in Listed : ticket[s] = notify /\ Unlink(s) /\ cursor' = [cursor EXCEPT ![p] = s]
  BY DEF NotifyFound
<1>3. s \in Proc /\ pc[s] = "parked" /\ place[s] = Nil
  BY <1>1, <1>2, Members DEF Listed
<1>4. PICK nplace \in [Proc -> Proc \cup {Nil}] : nplace = [place EXCEPT ![s] = p]
  OBVIOUS
<1>5. /\ \A q \in Proc : q # s => nplace[q] = place[q]
      /\ nplace[s] = p
  BY <1>3, <1>4
<1>6. /\ pc[p] = "lock" /\ cursor[p] = Nil /\ notify # wait /\ notify' = Plus(notify, 1)
      /\ \A q \in Proc : pc'[q] = IF q = p THEN "ready" ELSE pc[q]
      /\ UNCHANGED <<wait, ticket>>
  BY DEF NotifyFound, Quiet, GoTo, TypeOK
<1>7. \A q \in Proc : pc'[q] = "parked" <=> pc[q] = "parked"
  BY <1>6
<1>8. \A q \in Proc : Waits(q)' <=> Waits(q)
  BY <1>6 DEF Waits
<1>9. \A q \in Proc : Due(q)' <=> Due(q) /\ ticket[q] # notify
  BY <1>6, <1>8, DueAfterNotify
<1>10. ASSUME NEW q \in Proc, pc'[q] = "parked" PROVE nplace[q] = Nil <=> Due(q)'
  <2>1. pc[q] = "parked" /\ (place[q] = Nil <=> Due(q)) /\ Due(s)
    BY <1>3, <1>7, <1>10 DEF Chained
  <2>2. CASE q = s
    BY <2>2, <1>2, <1>5, <1>9, NilAssumption
  <2>3. CASE q # s
    <3>1. Due(q) => ticket[q] # notify
      BY <2>1, <2>3, <1>2, <1>3 DEF OneEach
    <3> QED
      BY <3>1, <2>1, <2>3, <1>5, <1>9
  <2> QED
    BY <2>2, <2>3
<1>11. \/ pc'[s] # "parked" /\ cursor' = cursor
       \/ \E r \in Proc : /\ pc'[s] = "parked" /\ nplace[s] = r /\ cursor[r] = Nil
                          /\ cursor' = [cursor EXCEPT ![r] = s]
  BY <1>2, <1>3, <1>5, <1>6, <1>7
<1>12. Unlink(s) /\ \A q \in Proc : q # s => nplace[q] = place[q]
  BY <1>2, <1>5
<1>13. \A q \in Proc : q # s => (pc'[q] = "parked" <=> pc[q] = "parked")
  BY <1>7
<1>14. \A q \in Proc : pc'[q] = "parked" => (nplace[q] = Nil <=> Due(q)')
  BY <1>10
<1>15. Chained(nplace, rank, top)'
  BY <1>3, <1>13, <1>14, <1>11, <1>12, UnlinkKeepsChains
<1> QED
  BY <1>15

LEMMA ReclaimKeepsChains ==
  ASSUME TypeOK, Quiet,
         NEW place \in [Proc -> Proc \cup {Nil}], NEW rank \in [Proc -> Nat], NEW top \in Nat,
         Chained(place, rank, top), NEW s \in Proc, gcNotifyListNotifyOne(s)
  PROVE  Chained(place, rank, top)'
<1>1. /\ doomed /\ pc[s] = "parked" /\ Unlink(s) /\ cursor' = cursor
      /\ \A q \in Proc : pc'[q] = IF q = s THEN "idle" ELSE pc[q]
      /\ \A q \in Proc : ticket'[q] = IF q = s THEN 0 ELSE ticket[q]
      /\ UNCHANGED <<wait, notify>>
  BY DEF gcNotifyListNotifyOne, EndWait, GoTo, TypeOK
<1>2. ASSUME place[s] # Nil PROVE FALSE
  <2>1. place[s] \in Proc /\ First(place[s]) = cursor[place[s]]
    BY <1>2 DEF First
  <2>2. First(place[s]) = Nil
    BY <2>1, <1>1 DEF Quiet
  <2>3. s \in ChainFrom(Nil)
    BY <2>1, <2>2, <1>1, Members
  <2>4. {} \in SUBSET Proc
    OBVIOUS
  <2> QED
    BY <2>3, <2>4 DEF ChainFrom
<1>3. \A q \in Proc : q # s => (pc'[q] = "parked" <=> pc[q] = "parked")
  BY <1>1
<1>4. \A q \in Proc : pc'[q] = "parked" => (place[q] = Nil <=> Due(q)')
  BY <1>1 DEF Chained, Due, Waits, Age
<1>5. pc'[s] # "parked" /\ cursor' = cursor
  BY <1>1
<1>6. place[s] = Nil
  BY <1>2
<1> QED
  BY <1>1, <1>3, <1>4, <1>5, <1>6, UnlinkKeepsChains

LEMMA ReuseKeepsChains ==
  ASSUME TypeOK, Quiet,
         NEW place \in [Proc -> Proc \cup {Nil}], NEW rank \in [Proc -> Nat], NEW top \in Nat,
         Chained(place, rank, top), Reuse
  PROVE  Chained(place, rank, top)'
<1>1. /\ \A q \in Proc : pc[q] = "idle" /\ cursor[q] = Nil
      /\ UNCHANGED <<pc, cursor, next>> /\ head' = Nil /\ tail' = Nil
  BY DEF Reuse, Quiet
<1>2. \A q \in Proc : next[q] = Nil /\ q # Nil
  BY <1>1, NilAssumption DEF Chained
<1>3. \A x \in Proc \cup {Nil} : First(x)' = Nil
  BY <1>1 DEF First
<1> QED
  BY <1>1, <1>2, <1>3 DEF Chained

(* No step breaks a chain, loses a member or puts anybody on two.          *)
LEMMA ChainsKept ==
  ASSUME TypeOK, TypeOK', Quiet, Recent, OneEach, [Next]_vars,
         NEW place \in [Proc -> Proc \cup {Nil}], NEW rank \in [Proc -> Nat], NEW top \in Nat,
         Chained(place, rank, top)
  PROVE  \E nplace \in [Proc -> Proc \cup {Nil}], nrank \in [Proc -> Nat], ntop \in Nat :
           Chained(nplace, nrank, ntop)'
<1> DEFINE Kept == \E nplace \in [Proc -> Proc \cup {Nil}], nrank \in [Proc -> Nat], ntop \in Nat :
                     Chained(nplace, nrank, ntop)'
<1>s. Chained(place, rank, top)' => Kept
  OBVIOUS
<1>t. pc \in [Proc -> {"idle", "added", "parked", "woken", "load", "lock", "ready"}]
  BY DEF TypeOK
<1> HIDE DEF Kept
<1> USE DEF GoTo, EndWait, EndCall, list
<1>1. ASSUME NEW p \in Proc, notifyListAdd(p) PROVE Kept
  <2>1. /\ \A q \in Proc : Due(q)' <=> q = p \/ Due(q)
        /\ UNCHANGED <<head, tail, next, cursor>>
        /\ pc[p] = "idle" /\ pc' = [pc EXCEPT ![p] = "added"]
    BY <1>1, AddKeepsTickets DEF notifyListAdd
  <2> QED
    BY <2>1, <1>s, <1>t, SameChains
<1>2. ASSUME NEW p \in Proc, NEW a \in BOOLEAN, LoadWait(p, a) PROVE Kept
  <2>1. /\ UNCHANGED <<head, tail, next, cursor, wait, notify, ticket>>
        /\ pc[p] = "idle" /\ pc' = [pc EXCEPT ![p] = "load"]
    BY <1>2 DEF LoadWait
  <2> QED
    BY <2>1, <1>s, <1>t, SameChains DEF Due, Waits, Age
<1>3. ASSUME NEW p \in Proc, AlreadyNotified(p) \/ Resume(p) PROVE Kept
  <2>1. /\ UNCHANGED <<head, tail, next, cursor, wait, notify>>
        /\ ticket' = [ticket EXCEPT ![p] = 0]
        /\ pc[p] # "parked" /\ pc' = [pc EXCEPT ![p] = "idle"]
    BY <1>3 DEF AlreadyNotified, Resume
  <2>2. \A q \in Proc : pc[q] = "parked" => ticket'[q] = ticket[q]
    BY <2>1 DEF TypeOK
  <2> QED
    BY <2>1, <2>2, <1>s, <1>t, SameChains DEF Due, Waits, Age
<1>4. ASSUME NEW p \in Proc, Park(p) PROVE Kept
  <2>1. Chained([place EXCEPT ![p] = Nil], [rank EXCEPT ![p] = top + 1], top + 1)'
    BY <1>4, ParkKeepsChains
  <2>2. /\ [place EXCEPT ![p] = Nil] \in [Proc -> Proc \cup {Nil}]
        /\ [rank EXCEPT ![p] = top + 1] \in [Proc -> Nat] /\ top + 1 \in Nat
    OBVIOUS
  <2> QED
    BY <2>1, <2>2 DEF Kept
<1>5. ASSUME NEW p \in Proc, FastPath(p) \/ NotifyNobody(p) \/ ReadyDone(p) \/ SlowPath(p)
      PROVE  Kept
  <2>1. /\ UNCHANGED <<head, tail, next, cursor, wait, notify, ticket>>
        /\ pc[p] \in {"load", "lock", "ready"}
        /\ pc' = [pc EXCEPT ![p] = "idle"] \/ pc' = [pc EXCEPT ![p] = "lock"]
    BY <1>5 DEF FastPath, NotifyNobody, ReadyDone, SlowPath
  <2> QED
    BY <2>1, <1>s, <1>t, SameChains DEF Due, Waits, Age
<1>6. ASSUME NEW p \in Proc, NotifyAbsent(p) PROVE Kept
  <2>1. /\ UNCHANGED <<head, tail, next, cursor, wait, ticket>>
        /\ notify # wait /\ notify' = Plus(notify, 1)
        /\ \A s \in Listed : ticket[s] # notify
        /\ pc[p] = "lock" /\ pc' = [pc EXCEPT ![p] = "idle"]
    BY <1>6 DEF NotifyAbsent
  <2>2. \A q \in Proc : Waits(q)' <=> Waits(q)
    BY <2>1, <1>t DEF Waits
  <2>3. \A q \in Proc : Due(q)' <=> Due(q) /\ ticket[q] # notify
    BY <2>1, <2>2, DueAfterNotify
  <2>4. First(Nil) = head
    BY DEF First
  <2>5. \A q \in Proc : pc[q] = "parked" /\ Due(q) => q \in Listed
    BY <2>4, Members DEF Listed, Chained
  <2>6. \A q \in Proc : pc[q] = "parked" => (Due(q)' <=> Due(q))
    BY <2>1, <2>3, <2>5
  <2> QED
    BY <2>1, <2>6, <1>s, <1>t, SameChains
<1>7. ASSUME NEW p \in Proc, NotifyFound(p) PROVE Kept
  BY <1>7, FoundKeepsChains DEF Kept
<1>8. ASSUME NEW p \in Proc, NotifyAll(p) PROVE Kept
  <2>1. Chained([q \in Proc |-> IF place[q] = Nil THEN p ELSE place[q]], rank, top)'
    BY <1>8, NotifyAllKeepsChains
  <2>2. [q \in Proc |-> IF place[q] = Nil THEN p ELSE place[q]] \in [Proc -> Proc \cup {Nil}]
    OBVIOUS
  <2> QED
    BY <2>1, <2>2 DEF Kept
<1>9. ASSUME NEW p \in Proc, ReadyNext(p) PROVE Kept
  BY <1>9, <1>s, ReadyKeepsChains
<1>10. ASSUME Report PROVE Kept
  BY <1>10, <1>s, SameChains DEF Report, Due, Waits, Age
<1>11. ASSUME NEW p \in Proc, gcNotifyListNotifyOne(p) PROVE Kept
  BY <1>11, <1>s, ReclaimKeepsChains
<1>12. ASSUME Reuse PROVE Kept
  BY <1>12, <1>s, ReuseKeepsChains
<1>13. ASSUME UNCHANGED vars PROVE Kept
  BY <1>13, <1>s, SameChains DEF vars, Due, Waits, Age
<1> HIDE DEF GoTo, EndWait, EndCall, list
<1>14. ASSUME NEW p \in Proc, Continue(p) PROVE Kept
  BY <1>14, <1>3, <1>4, <1>5, <1>6, <1>7, <1>8, <1>9 DEF Continue
<1>15. ASSUME Next PROVE Kept
  BY <1>15, <1>1, <1>2, <1>10, <1>11, <1>12, <1>14 DEF Next
<1>16. Kept
  BY <1>13, <1>15
<1> QED
  BY <1>16 DEF Kept

LEMMA NextIInv == IInv /\ [Next]_vars => IInv'
<1> SUFFICES ASSUME IInv, [Next]_vars PROVE IInv'
  OBVIOUS
<1>1. TypeOK' /\ Quiet'
  BY TypesKept, QuietKept DEF IInv
<1>2. Recent' /\ OneEach'
  BY <1>1, TicketsKept
<1>3. PICK place \in [Proc -> Proc \cup {Nil}], rank \in [Proc -> Nat], top \in Nat :
        Chained(place, rank, top)
  BY DEF IInv
<1>4. \E nplace \in [Proc -> Proc \cup {Nil}], nrank \in [Proc -> Nat], ntop \in Nat :
        Chained(nplace, nrank, ntop)'
  BY <1>1, <1>3, ChainsKept DEF IInv
<1> QED
  BY <1>1, <1>2, <1>4 DEF IInv

LEMMA Inductive == Spec => []IInv
  BY InitIInv, NextIInv, PTL DEF Spec
-----------------------------------------------------------------------------
(* What it means for the properties.                                       *)
LEMMA ChainsMeet ==
  ASSUME IInv
  PROVE  NobodyLost /\ NoMissedNotification
<1>1. PICK place \in [Proc -> Proc \cup {Nil}], rank \in [Proc -> Nat], top \in Nat :
        Chained(place, rank, top)
  BY DEF IInv
<1>2. TypeOK /\ Recent
  BY DEF IInv
<1>3. First(Nil) = head /\ \A p \in Proc : First(p) = cursor[p]
  BY NilAssumption DEF First
<1>4. Listed = {q \in Proc : pc[q] = "parked" /\ place[q] = Nil}
  BY <1>1, <1>2, <1>3, Members DEF Listed
<1>5. \A p \in Proc : Batches[p] = {q \in Proc : pc[q] = "parked" /\ place[q] = p}
  BY <1>1, <1>2, <1>3, Members DEF Batches
<1>6. IF head = Nil THEN tail = Nil ELSE tail \in Listed /\ next[tail] = Nil
  BY <1>1, <1>2, <1>4 DEF Chained, TypeOK
<1>7. ASSUME NEW p \in Proc, cursor[p] # Nil PROVE \E q \in Batches[p] : next[q] = Nil
  BY <1>1, <1>2, <1>3, <1>5, <1>7, Ends
<1>8. ASSUME NEW q \in Proc
      PROVE  LET places == {p \in Proc : q \in Batches[p]} IN
             pc[q] = "parked" <=> IF q \in Listed THEN places = {} ELSE Cardinality(places) = 1
  <2> DEFINE places == {p \in Proc : q \in Batches[p]}
  <2>1. pc[q] # "parked" => places = {} /\ q \notin Listed
    BY <1>4, <1>5
  <2>2. pc[q] = "parked" /\ place[q] = Nil => places = {} /\ q \in Listed
    BY <1>4, <1>5, NilAssumption
  <2>3. pc[q] = "parked" /\ place[q] # Nil => places = {place[q]} /\ q \notin Listed
    BY <1>4, <1>5
  <2>4. Cardinality({}) = 0 /\ Cardinality({place[q]}) = 1
    BY FS_EmptySet, FS_Singleton
  <2> HIDE DEF places
  <2>5. pc[q] = "parked" <=> IF q \in Listed THEN places = {} ELSE Cardinality(places) = 1
    BY <2>1, <2>2, <2>3, <2>4
  <2> QED
    BY <2>5 DEF places
<1>9. NobodyLost
  BY <1>2, <1>6, <1>7, <1>8 DEF NobodyLost
<1>10. NoMissedNotification
  BY <1>1, <1>2, <1>4, OwedIsDue DEF NoMissedNotification, Chained
<1> QED
  BY <1>9, <1>10

(* Every parked goroutine is on l's list or in exactly one notifier's      *)
(* batch, every batch ends and l.tail ends the list, whoever parks, is     *)
(* unlinked from the middle or is readied at the same time.                *)
THEOREM NobodyIsLost == Spec => []NobodyLost
<1>1. IInv => NobodyLost
  BY ChainsMeet
<1> QED
  BY Inductive, <1>1, PTL

(* Whoever is on the list has not been notified: the tickets wrap around   *)
(* and notify overtakes goroutines that have not parked yet, but less      *)
(* tells the two apart as long as counts are less than 2^31 apart.         *)
THEOREM NotificationsNotMissed == Spec => []NoMissedNotification
<1>1. IInv => NoMissedNotification
  BY ChainsMeet
<1> QED
  BY Inductive, <1>1, PTL

LEMMA SilentOwesNothing ==
  ASSUME IInv, NEW p \in Proc, FastPath(p)
  PROVE  call[p].before \cap Claims = {}
<1>1. pc[p] = "load" /\ call[p].seen = notify /\ TypeOK /\ Recent
  BY DEF FastPath, IInv
<1>2. SUFFICES ASSUME NEW c \in call[p].before, c \in Claims PROVE FALSE
  OBVIOUS
<1>3. PICK q \in Owed : c = <<q, ticket[q]>>
  BY <1>2 DEF Claims
<1>4. q \in Proc /\ Waits(q) /\ Age(ticket[q]) \in 1 .. Half /\ Age(ticket[q]) <= Age(notify)
  BY <1>1, <1>3, OwedIsDue DEF Recent, Due
<1>5. Minus(notify, ticket[q]) \in 1 .. Half /\ Age(notify) <= Half
  BY <1>1, <1>2, <1>3 DEF Recent
<1>6. /\ wait \in Int /\ 0 <= wait /\ wait < 2 * Half /\ notify \in Int /\ 0 <= notify /\ notify < 2 * Half
      /\ ticket[q] \in Int /\ 0 <= ticket[q] /\ ticket[q] < 2 * Half /\ Half \in Nat
  BY <1>1, <1>4, TicketAssumption DEF TypeOK, Ticket
<1>7. /\ Age(ticket[q]) = IF wait >= ticket[q] THEN wait - ticket[q] ELSE wait - ticket[q] + 2 * Half
      /\ Age(notify) = IF wait >= notify THEN wait - notify ELSE wait - notify + 2 * Half
      /\ Minus(notify, ticket[q]) =
           IF notify >= ticket[q] THEN notify - ticket[q] ELSE notify - ticket[q] + 2 * Half
  BY <1>1, <1>4, Wrapped DEF TypeOK, Age
<1> QED
  BY <1>4, <1>5, <1>6, <1>7

(* A notifier that returns without the lock owes nobody a notification who *)
(* was waiting when it was called: it compares the loads of two instants,  *)
(* between which others notify and tickets wrap around.                    *)
THEOREM SilentNotifiersOweNothing == Spec => SilentNotifyOwesNothing
<1>1. IInv /\ [Next]_vars =>
        [ \A p \in Proc : FastPath(p) => call[p].before \cap Claims = {} ]_vars
  BY SilentOwesNothing
<1> QED
  BY Inductive, <1>1, PTL DEF Spec, SilentNotifyOwesNothing
-----------------------------------------------------------------------------
(* The refinement of Cond: who waits and has not been notified, first come *)
(* first.                                                                  *)
LEMMA Ranked ==
  ASSUME NEW W \in SUBSET Proc, NEW key \in [W -> Int], NEW n \in Nat, NEW s \in [1 .. n -> W],
         \A w \in W : \E i \in 1 .. n : s[i] = w,
         \A i, j \in 1 .. n : i < j => key[s[i]] < key[s[j]]
  PROVE  InOrder(W, key) = s
<1> DEFINE R(w) == {q \in W : key[q] <= key[w]}
<1>1. \A i, j \in 1 .. n : (key[s[i]] <= key[s[j]] <=> i <= j) /\ (s[i] = s[j] => i = j)
  <2> SUFFICES ASSUME NEW i \in 1 .. n, NEW j \in 1 .. n
               PROVE  (key[s[i]] <= key[s[j]] <=> i <= j) /\ (s[i] = s[j] => i = j)
    OBVIOUS
  <2>1. key[s[i]] \in Int /\ key[s[j]] \in Int
    OBVIOUS
  <2>2. i < j => key[s[i]] < key[s[j]]
    OBVIOUS
  <2>3. j < i => key[s[j]] < key[s[i]]
    OBVIOUS
  <2> QED
    BY <2>1, <2>2, <2>3
<1>2. Cardinality(W) = n
  <2>1. s \in Bijection(1 .. n, W)
    BY <1>1 DEF Bijection, Injection, Surjection, IsInjective
  <2> QED
    BY <2>1, FS_CountingElements DEF ExistsBijection
<1>3. ASSUME NEW i \in 1 .. n PROVE Cardinality(R(s[i])) = i
  <2>1. PICK f : f = [j \in 1 .. i |-> s[j]]
    OBVIOUS
  <2>2. \A j \in 1 .. i : j \in 1 .. n /\ f[j] = s[j] /\ s[j] \in R(s[i])
    BY <2>1, <1>1
  <2>3. \A q \in R(s[i]) : \E j \in 1 .. i : f[j] = q
    <3> TAKE q \in R(s[i])
    <3>1. PICK j \in 1 .. n : s[j] = q
      OBVIOUS
    <3>2. j <= i
      BY <3>1, <1>1
    <3> QED
      BY <3>1, <3>2, <2>1
  <2>4. \A j, k \in 1 .. i : f[j] = f[k] => j = k
    BY <2>2, <1>1
  <2> HIDE DEF R
  <2>5. f \in Bijection(1 .. i, R(s[i]))
    BY <2>1, <2>2, <2>3, <2>4 DEF Bijection, Injection, Surjection, IsInjective
  <2> QED
    BY <2>5, FS_CountingElements DEF ExistsBijection
<1>4. ASSUME NEW i \in 1 .. n PROVE (CHOOSE p \in W : Cardinality(R(p)) = i) = s[i]
  <2>1. \A p \in W : Cardinality(R(p)) = i <=> p = s[i]
    <3> TAKE p \in W
    <3>1. PICK j \in 1 .. n : s[j] = p
      OBVIOUS
    <3>2. Cardinality(R(p)) = j
      BY <3>1, <1>3
    <3> HIDE DEF R
    <3> QED
      BY <3>1, <3>2, <1>3
  <2>2. s[i] \in W
    OBVIOUS
  <2> HIDE DEF R
  <2> QED
    BY <2>1, <2>2
<1>5. InOrder(W, key) = [i \in 1 .. n |-> CHOOSE p \in W : Cardinality(R(p)) = i]
  BY <1>2 DEF InOrder
<1> HIDE DEF R
<1> QED
  BY <1>4, <1>5

Line(s) ==
  /\ s \in Seq(Proc)
  /\ \A p \in Proc : Due(p) <=> \E i \in 1 .. Len(s) : s[i] = p
  /\ \A i, j \in 1 .. Len(s) : i < j => Age(ticket[s[i]]) > Age(ticket[s[j]])

LEMMA LineIsWaiters ==
  ASSUME TypeOK, Recent, NEW s, Line(s)
  PROVE  Waiters = s
<1> DEFINE W == {p \in Proc : Due(p)}
           key == [p \in W |-> Minus(ticket[p], notify)]
<1>1. Waiters = InOrder(W, key)
  BY OwedIsDue DEF Waiters
<1>2. \A p \in W : Age(ticket[p]) \in Int /\ Age(notify) \in Int
                   /\ Minus(ticket[p], notify) = Age(notify) - Age(ticket[p])
  <2>1. \A p \in Proc : Minus(wait, ticket[p]) \in Ticket /\ Minus(wait, notify) \in Ticket
    BY Wrapped DEF TypeOK
  <2>2. Ticket \subseteq Int
    BY TicketAssumption DEF Ticket
  <2> QED
    BY <2>1, <2>2, OwedIsDue DEF Age
<1>3. Len(s) \in Nat /\ s \in [1 .. Len(s) -> W]
  <2>1. Len(s) \in Nat /\ s \in [1 .. Len(s) -> Proc]
    BY LenProperties DEF Line
  <2>2. \A i \in 1 .. Len(s) : s[i] \in W
    BY <2>1 DEF Line
  <2> HIDE DEF W
  <2> QED
    BY <2>1, <2>2
<1>4. key \in [W -> Int] /\ \A p \in W : key[p] = Age(notify) - Age(ticket[p])
  BY <1>2
<1>5. \A w \in W : \E i \in 1 .. Len(s) : s[i] = w
  BY DEF Line
<1>6. \A i, j \in 1 .. Len(s) : i < j => key[s[i]] < key[s[j]]
  <2> SUFFICES ASSUME NEW i \in 1 .. Len(s), NEW j \in 1 .. Len(s), i < j
               PROVE  key[s[i]] < key[s[j]]
    OBVIOUS
  <2>1. Age(ticket[s[i]]) > Age(ticket[s[j]]) /\ s[i] \in W /\ s[j] \in W
    BY <1>3 DEF Line
  <2> HIDE DEF W, key
  <2> QED
    BY <2>1, <1>2, <1>4
<1>7. W \in SUBSET Proc
  OBVIOUS
<1> HIDE DEF W, key
<1> QED
  BY <1>1, <1>3, <1>4, <1>5, <1>6, <1>7, Ranked

LEMMA WaitersInLine == \A s \in Seq(Proc) : IInv /\ Line(s) => Waiters = s
  BY LineIsWaiters DEF IInv

LEMMA NextWaiters == \A s \in Seq(Proc) : IInv' /\ Line(s)' => Waiters' = s
<1>1. (\A s \in Seq(Proc) : IInv /\ Line(s) => Waiters = s)'
  BY WaitersInLine, PTL
<1> QED
  BY <1>1

(* A step that neither gives out tickets nor uses any up.                  *)
LEMMA SameLine ==
  ASSUME NEW s, Line(s), UNCHANGED wait,
         \A p \in Proc : Due(p)' <=> Due(p),
         \A p \in Proc : Due(p) => ticket'[p] = ticket[p]
  PROVE  Line(s)'
<1>1. \A i \in 1 .. Len(s) : Due(s[i]) /\ s[i] \in Proc
  BY LenProperties DEF Line
<1>2. \A i \in 1 .. Len(s) : Age(ticket[s[i]])' = Age(ticket[s[i]])
  BY <1>1 DEF Age
<1> QED
  BY <1>2 DEF Line

LEMMA AddedLast ==
  ASSUME IInv, TypeOK', NEW s, Line(s), NEW p \in Proc, notifyListAdd(p)
  PROVE  Line(Append(s, p))'
<1>1. /\ TypeOK /\ Recent /\ OneEach
      /\ wait' = Plus(wait, 1) /\ notify' = notify /\ NoneLags /\ pc[p] = "idle"
      /\ ticket' = [ticket EXCEPT ![p] = wait] /\ pc' = [pc EXCEPT ![p] = "added"]
  BY DEF notifyListAdd, GoTo, IInv
<1>2. \A q \in Proc : Due(q)' <=> q = p \/ Due(q)
  BY <1>1, AddKeepsTickets
<1>3. /\ wait \in Ticket /\ ticket \in [Proc -> Ticket] /\ Half \in Nat \ {0}
  BY TicketAssumption DEF TypeOK, IInv
<1>4. ASSUME NEW q \in Proc, Due(q)
      PROVE  /\ Age(ticket[q])' = Age(ticket[q]) + 1
             /\ Age(ticket[q]) \in 1 .. Half
  <2>1. q # p /\ Age(ticket[q]) < Half /\ Age(ticket[q]) \in 1 .. Half
    BY <1>1, <1>4 DEF Due, Waits, NoneLags, Age, Recent
  <2>2. Minus(Plus(wait, 1), ticket[q]) =
          IF Minus(wait, ticket[q]) = 2 * Half - 1 THEN 0 ELSE Minus(wait, ticket[q]) + 1
    BY <1>3, Counting
  <2>3. Age(ticket[q])' = Minus(Plus(wait, 1), ticket[q])
    BY <1>1, <1>3, <2>1 DEF Age
  <2> QED
    BY <2>1, <2>2, <2>3, <1>3 DEF Age
<1>5. Age(ticket[p])' = 1
  <2>1. Minus(wait, wait) = 0
    BY <1>3, Counting
  <2>2. Minus(Plus(wait, 1), wait) = IF Minus(wait, wait) = 2 * Half - 1 THEN 0 ELSE Minus(wait, wait) + 1
    BY <1>3, Counting
  <2> QED
    BY <1>1, <1>3, <2>1, <2>2 DEF Age
<1>6. /\ Append(s, p) \in Seq(Proc) /\ Len(Append(s, p)) = Len(s) + 1 /\ Len(s) \in Nat
      /\ \A i \in 1 .. Len(s) : Append(s, p)[i] = s[i]
      /\ Append(s, p)[Len(s) + 1] = p
  BY AppendProperties, LenProperties DEF Line
<1>7. PICK t : t = Append(s, p)
  OBVIOUS
<1>8. ASSUME NEW q \in Proc
      PROVE  Due(q)' <=> \E i \in 1 .. Len(t) : t[i] = q
  <2>1. Due(q) <=> \E i \in 1 .. Len(s) : s[i] = q
    BY DEF Line
  <2> QED
    BY <2>1, <1>2, <1>6, <1>7
<1>9. ASSUME NEW i \in 1 .. Len(t), NEW j \in 1 .. Len(t), i < j
      PROVE  Age(ticket[t[i]])' > Age(ticket[t[j]])'
  <2>1. i \in 1 .. Len(s) /\ t[i] = s[i] /\ s[i] \in Proc /\ Due(s[i])
    BY <1>6, <1>7, <1>9, LenProperties DEF Line
  <2>2. CASE j = Len(s) + 1
    BY <2>1, <2>2, <1>4, <1>5, <1>6, <1>7
  <2>3. CASE j # Len(s) + 1
    <3>1. j \in 1 .. Len(s) /\ t[j] = s[j] /\ s[j] \in Proc /\ Due(s[j])
      BY <2>3, <1>6, <1>7, LenProperties DEF Line
    <3>2. Age(ticket[s[i]]) > Age(ticket[s[j]])
      BY <2>1, <3>1, <1>9 DEF Line
    <3> QED
      BY <2>1, <3>1, <3>2, <1>4
  <2> QED
    BY <2>2, <2>3
<1>10. Line(t)'
  BY <1>6, <1>7, <1>8, <1>9 DEF Line
<1> QED
  BY <1>7, <1>10

(* The first in line holds the ticket notify.                              *)
LEMMA NotifyFirst ==
  ASSUME IInv, ~ doomed, NEW s, Line(s), wait' = wait, ticket' = ticket,
         \A q \in Proc : Waits(q)' <=> Waits(q), notify # wait, notify' = Plus(notify, 1)
  PROVE  s # <<>> /\ Line(Tail(s))'
<1>1. /\ TypeOK /\ Recent /\ OneEach /\ Half \in Nat
      /\ Len(s) \in Nat /\ \A i \in 1 .. Len(s) : s[i] \in Proc /\ Due(s[i])
  BY TicketAssumption, LenProperties DEF IInv, Line
<1>2. wait \in Ticket /\ notify \in Ticket /\ \A q \in Proc : ticket[q] \in Ticket
  BY <1>1 DEF TypeOK
<1>3. Age(notify) \in 1 .. Half
  <2>1. Age(notify) \in Ticket /\ Age(notify) # 0
    BY <1>2, Wrapped, Counting DEF Age
  <2> QED
    BY <2>1, <1>1 DEF Ticket, Recent
<1>4. \A q \in Proc : Due(q)' <=> Due(q) /\ ticket[q] # notify
  BY <1>1, DueAfterNotify
<1>5. PICK p \in Proc : Due(p) /\ Age(ticket[p]) = Age(notify)
  BY <1>1, <1>3 DEF OneEach
<1>6. PICK k \in 1 .. Len(s) : s[k] = p
  BY <1>5 DEF Line
<1>7. k = 1
  <2>1. ASSUME k # 1 PROVE FALSE
    <3>1. 1 \in 1 .. Len(s) /\ 1 < k
      BY <1>1, <2>1
    <3>2. Age(ticket[s[1]]) > Age(ticket[p])
      BY <1>6, <3>1 DEF Line
    <3>3. Age(ticket[s[1]]) <= Age(notify) /\ Age(ticket[s[1]]) \in 1 .. Half
      BY <1>1, <3>1 DEF Due, Recent
    <3> QED
      BY <3>2, <3>3, <1>3, <1>5
  <2> QED
    BY <2>1
<1>8. ticket[p] = notify
  BY <1>2, <1>5, Counting DEF Age
<1>9. s # <<>> /\ Len(s) >= 1 /\ s[1] = p
  BY <1>1, <1>6, <1>7
<1>10. /\ Tail(s) \in Seq(Proc) /\ Len(Tail(s)) = Len(s) - 1
       /\ \A i \in 1 .. Len(s) - 1 : Tail(s)[i] = s[i + 1]
  BY <1>9, HeadTailProperties DEF Line
<1>11. PICK t : t = Tail(s)
  OBVIOUS
<1>12. ASSUME NEW q \in Proc
       PROVE  Due(q)' <=> \E i \in 1 .. Len(t) : t[i] = q
  <2>1. ASSUME NEW i \in 1 .. Len(t), t[i] = q PROVE Due(q)'
    <3>1. i + 1 \in 1 .. Len(s) /\ s[i + 1] = q /\ 1 \in 1 .. Len(s) /\ 1 < i + 1
      BY <2>1, <1>1, <1>9, <1>10, <1>11
    <3>2. Age(ticket[s[1]]) > Age(ticket[q]) /\ Due(q)
      BY <3>1, <1>1 DEF Line
    <3>3. Age(ticket[q]) # Age(notify)
      BY <3>2, <1>1, <1>3, <1>5, <1>9 DEF Due, Recent
    <3> QED
      BY <3>2, <3>3, <1>4
  <2>2. ASSUME Due(q)' PROVE \E i \in 1 .. Len(t) : t[i] = q
    <3>1. Due(q) /\ q # p
      BY <2>2, <1>4, <1>8
    <3>2. PICK i \in 1 .. Len(s) : s[i] = q
      BY <3>1 DEF Line
    <3>3. i - 1 \in 1 .. Len(t) /\ t[i - 1] = s[(i - 1) + 1] /\ (i - 1) + 1 = i
      BY <3>1, <3>2, <1>1, <1>9, <1>10, <1>11
    <3> QED
      BY <3>2, <3>3
  <2> QED
    BY <2>1, <2>2
<1>13. ASSUME NEW i \in 1 .. Len(t), NEW j \in 1 .. Len(t), i < j
       PROVE  Age(ticket[t[i]])' > Age(ticket[t[j]])'
  <2>1. /\ i + 1 \in 1 .. Len(s) /\ j + 1 \in 1 .. Len(s) /\ i + 1 < j + 1
        /\ t[i] = s[i + 1] /\ t[j] = s[j + 1]
    BY <1>1, <1>10, <1>11, <1>13
  <2>2. Age(ticket[s[i + 1]]) > Age(ticket[s[j + 1]])
    BY <2>1 DEF Line
  <2> QED
    BY <2>1, <2>2 DEF Age
<1>14. Line(t)'
  BY <1>10, <1>11, <1>12, <1>13 DEF Line
<1> QED
  BY <1>9, <1>11, <1>14

(* A waiter that is reclaimed leaves the line from its middle.             *)
LEMMA ReclaimedFrom ==
  ASSUME IInv, NEW s, Line(s), NEW p \in Proc, gcNotifyListNotifyOne(p)
  PROVE  \E k \in 1 .. Len(s) : s[k] = p /\ Line(RemoveAt(s, k))'
<1>1. /\ TypeOK /\ Recent /\ OneEach /\ Quiet /\ Len(s) \in Nat /\ s \in Seq(Proc)
      /\ \A i \in 1 .. Len(s) : s[i] \in Proc /\ Due(s[i])
  BY LenProperties DEF IInv, Line
<1>2. /\ doomed /\ pc[p] = "parked"
      /\ \A q \in Proc : pc'[q] = IF q = p THEN "idle" ELSE pc[q]
      /\ \A q \in Proc : ticket'[q] = IF q = p THEN 0 ELSE ticket[q]
      /\ UNCHANGED <<wait, notify>>
  BY <1>1 DEF gcNotifyListNotifyOne, EndWait, GoTo, TypeOK
<1>3. Due(p)
  <2>1. PICK place \in [Proc -> Proc \cup {Nil}], rank \in [Proc -> Nat], top \in Nat :
          Chained(place, rank, top)
    BY DEF IInv
  <2>2. ASSUME place[p] # Nil PROVE FALSE
    <3>1. place[p] \in Proc /\ First(place[p]) = Nil
      BY <1>1, <1>2, <2>2 DEF First, Quiet
    <3>2. p \in ChainFrom(Nil)
      BY <3>1, <1>1, <1>2, <2>1, Members
    <3>3. {} \in SUBSET Proc
      OBVIOUS
    <3> QED
      BY <3>2, <3>3 DEF ChainFrom
  <2> QED
    BY <1>2, <2>1, <2>2 DEF Chained
<1>4. PICK k \in 1 .. Len(s) : s[k] = p
  BY <1>3 DEF Line
<1>5. \A i \in 1 .. Len(s) : s[i] = p => i = k
  <2> SUFFICES ASSUME NEW i \in 1 .. Len(s), s[i] = p, i # k PROVE FALSE
    OBVIOUS
  <2>1. i < k \/ k < i
    BY <1>1
  <2>2. Age(ticket[p]) > Age(ticket[p])
    BY <1>4, <2>1 DEF Line
  <2>3. Age(ticket[p]) \in 1 .. Half
    BY <1>1, <1>3 DEF Recent, Due
  <2> QED
    BY <2>2, <2>3, TicketAssumption
<1>6. PICK a, b : a = SubSeq(s, 1, k - 1) /\ b = SubSeq(s, k + 1, Len(s))
  OBVIOUS
<1>7. a \in Seq(Proc) /\ Len(a) = k - 1 /\ \A i \in 1 .. k - 1 : a[i] = s[i]
  <2>1. \A i \in 1 .. k - 1 : s[i] \in Proc
    BY <1>1
  <2>2. a \in Seq(Proc) /\ Len(a) = (IF 1 <= k - 1 THEN (k - 1) - 1 + 1 ELSE 0)
        /\ \A i \in 1 .. (k - 1) - 1 + 1 : a[i] = s[1 + i - 1]
    BY <1>1, <1>6, <2>1, SubSeqProperties
  <2> QED
    BY <1>1, <2>2
<1>8. /\ b \in Seq(Proc) /\ Len(b) = Len(s) - k
      /\ \A i \in 1 .. Len(s) - k : b[i] = s[k + i]
  <2>1. \A i \in k + 1 .. Len(s) : s[i] \in Proc
    BY <1>1
  <2>2. b \in Seq(Proc) /\ Len(b) = (IF k + 1 <= Len(s) THEN Len(s) - (k + 1) + 1 ELSE 0)
        /\ \A i \in 1 .. Len(s) - (k + 1) + 1 : b[i] = s[(k + 1) + i - 1]
    BY <1>1, <1>6, <2>1, SubSeqProperties
  <2> QED
    BY <1>1, <2>2
<1>9. PICK t : t = RemoveAt(s, k)
  OBVIOUS
<1>10. /\ t \in Seq(Proc) /\ Len(t) = Len(s) - 1
       /\ \A i \in 1 .. Len(s) - 1 : t[i] = IF i < k THEN s[i] ELSE s[i + 1]
  <2>1. t = a \o b
    BY <1>6, <1>9 DEF RemoveAt
  <2>2. /\ t \in Seq(Proc) /\ Len(t) = Len(a) + Len(b)
        /\ \A i \in 1 .. Len(a) + Len(b) : t[i] = IF i <= Len(a) THEN a[i] ELSE b[i - Len(a)]
    BY <1>7, <1>8, <2>1, ConcatProperties
  <2>3. Len(a) + Len(b) = Len(s) - 1
    BY <1>1, <1>7, <1>8
  <2>4. ASSUME NEW i \in 1 .. Len(s) - 1 PROVE t[i] = IF i < k THEN s[i] ELSE s[i + 1]
    <3>1. CASE i < k
      BY <3>1, <1>1, <1>7, <2>2, <2>3
    <3>2. CASE ~ (i < k)
      <4>1. i - (k - 1) \in 1 .. Len(s) - k /\ k + (i - (k - 1)) = i + 1
        BY <3>2, <1>1
      <4>2. t[i] = b[i - (k - 1)]
        BY <3>2, <1>1, <1>7, <2>2, <2>3
      <4> QED
        BY <3>2, <4>1, <4>2, <1>8
    <3> QED
      BY <3>1, <3>2
  <2> QED
    BY <2>2, <2>3, <2>4
<1>11. \A q \in Proc : Due(q)' <=> Due(q) /\ q # p
  BY <1>2 DEF Due, Waits, Age
<1>12. ASSUME NEW q \in Proc
       PROVE  Due(q)' <=> \E i \in 1 .. Len(t) : t[i] = q
  <2>1. ASSUME NEW i \in 1 .. Len(t), t[i] = q PROVE Due(q)'
    <3>1. PICK j \in 1 .. Len(s) : s[j] = q /\ j # k
      BY <1>1, <1>10, <2>1
    <3> QED
      BY <3>1, <1>1, <1>5, <1>11
  <2>2. ASSUME Due(q)' PROVE \E i \in 1 .. Len(t) : t[i] = q
    <3>1. PICK j \in 1 .. Len(s) : s[j] = q
      BY <2>2, <1>11 DEF Line
    <3>2. j # k
      BY <3>1, <1>4, <1>11, <2>2
    <3>3. CASE j < k
      BY <3>1, <3>3, <1>1, <1>10
    <3>4. CASE k < j
      <4>1. j - 1 \in 1 .. Len(t) /\ t[j - 1] = s[(j - 1) + 1] /\ (j - 1) + 1 = j
        BY <3>4, <1>1, <1>10
      <4> QED
        BY <4>1, <3>1
    <3> QED
      BY <3>2, <3>3, <3>4, <1>1
  <2> QED
    BY <2>1, <2>2
<1>13. ASSUME NEW i \in 1 .. Len(t), NEW j \in 1 .. Len(t), i < j
       PROVE  Age(ticket[t[i]])' > Age(ticket[t[j]])'
  <2>1. PICK u \in 1 .. Len(s), v \in 1 .. Len(s) :
          t[i] = s[u] /\ t[j] = s[v] /\ u < v /\ u # k /\ v # k
    <3>1. /\ i \in 1 .. Len(s) /\ i + 1 \in 1 .. Len(s) /\ j \in 1 .. Len(s) /\ j + 1 \in 1 .. Len(s)
          /\ t[i] = (IF i < k THEN s[i] ELSE s[i + 1]) /\ t[j] = (IF j < k THEN s[j] ELSE s[j + 1])
      BY <1>1, <1>10
    <3> QED
      BY <3>1, <1>1, <1>13
  <2>2. Age(ticket[s[u]]) > Age(ticket[s[v]])
    BY <2>1 DEF Line
  <2>3. s[u] # p /\ s[v] # p /\ s[u] \in Proc /\ s[v] \in Proc
    BY <2>1, <1>1, <1>5
  <2> QED
    BY <2>1, <2>2, <2>3, <1>2 DEF Age
<1>14. Line(t)'
  BY <1>10, <1>12, <1>13 DEF Line
<1> QED
  BY <1>4, <1>9, <1>14

LEMMA CondStep ==
  ASSUME IInv, IInv', [Next]_vars, Line(Waiters)
  PROVE  [Abstract!Next]_(Abstract!vars) /\ Line(Waiters)'
<1>1. PICK s \in Seq(Proc) : s = Waiters
  BY DEF Line
<1>2. Line(s) /\ Len(s) \in Nat /\ ToSet(s) = {p \in Proc : Due(p)}
  <2>1. Line(s) /\ Len(s) \in Nat /\ DOMAIN s = 1 .. Len(s) /\ \A i \in 1 .. Len(s) : s[i] \in Proc
    BY <1>1, LenProperties
  <2> QED
    BY <2>1 DEF ToSet, Line
<1>3. ASSUME NEW t, Line(t)' PROVE Waiters' = t /\ Line(Waiters)'
  <2>1. t \in Seq(Proc)
    BY <1>3 DEF Line
  <2>2. Waiters' = t
    BY <1>3, <2>1, NextWaiters
  <2> QED
    BY <1>3, <2>2
<1> DEFINE Step == [Abstract!Next]_(Abstract!vars) /\ Line(Waiters)'
<1>4. ASSUME Line(s)', InWait' = InWait PROVE Step
  BY <1>1, <1>3, <1>4 DEF Abstract!vars
<1>5. ASSUME Line(s)', NEW p \in InWait, p \in Proc, ~ Due(p), InWait' = InWait \ {p} PROVE Step
  <2>1. Abstract!ToSet(Waiters) = {q \in Proc : Due(q)}
    BY <1>1, <1>2 DEF ToSet, Abstract!ToSet
  <2>2. Abstract!Return(p)
    BY <1>1, <1>3, <1>5, <2>1 DEF Abstract!Return
  <2> QED
    BY <1>3, <1>5, <2>2 DEF Abstract!Next
<1>6. ASSUME NEW p \in Proc, p \notin InWait, Line(Append(s, p))', InWait' = InWait \cup {p} PROVE Step
  <2>1. Abstract!Wait(p)
    BY <1>1, <1>3, <1>6 DEF Abstract!Wait
  <2> QED
    BY <1>3, <1>6, <2>1 DEF Abstract!Next
<1>7. ASSUME s # <<>>, Line(Tail(s))', InWait' = InWait PROVE Step
  <2>1. Abstract!Signal
    BY <1>1, <1>3, <1>7 DEF Abstract!Signal
  <2> QED
    BY <1>3, <1>7, <2>1 DEF Abstract!Next
<1>8. ASSUME Line(<<>>)', InWait' = InWait PROVE Step
  <2>1. Abstract!Broadcast
    BY <1>3, <1>8 DEF Abstract!Broadcast
  <2> QED
    BY <1>3, <1>8, <2>1 DEF Abstract!Next
<1>9. ASSUME NEW p \in Proc, NEW k \in 1 .. Len(s), s[k] = p, Line(RemoveAt(s, k))',
             InWait' = InWait \ {p}
      PROVE  Step
  <2>1. Abstract!RemoveAt(Waiters, k) = RemoveAt(s, k)
    BY <1>1 DEF RemoveAt, Abstract!RemoveAt
  <2>2. Waiters' = Abstract!RemoveAt(Waiters, k)
    BY <1>3, <1>9, <2>1
  <2>3. k \in 1 .. Len(Waiters) /\ Waiters[k] = p
    BY <1>1, <1>9
  <2>4. Abstract!Reclaim(p)
    BY <1>9, <2>2, <2>3 DEF Abstract!Reclaim
  <2> QED
    BY <1>3, <1>9, <2>4 DEF Abstract!Next
<1> HIDE DEF Step
<1>t. /\ pc \in [Proc -> {"idle", "added", "parked", "woken", "load", "lock", "ready"}]
      /\ DOMAIN ticket = Proc /\ TypeOK /\ TypeOK' /\ Recent /\ OneEach /\ Quiet
  BY DEF TypeOK, IInv
<1> USE DEF GoTo, EndWait, EndCall
<1>11. ASSUME NEW p \in Proc, notifyListAdd(p) PROVE Step
  <2>1. Line(Append(s, p))'
    BY <1>11, <1>2, <1>t, AddedLast
  <2>2. p \notin InWait /\ InWait' = InWait \cup {p}
    BY <1>11, <1>t DEF notifyListAdd, InWait
  <2> QED
    BY <2>1, <2>2, <1>6
<1>12. ASSUME NEW p \in Proc, NEW a \in BOOLEAN, LoadWait(p, a) PROVE Step
  <2>1. /\ UNCHANGED <<wait, notify, ticket>> /\ pc[p] = "idle" /\ pc' = [pc EXCEPT ![p] = "load"]
    BY <1>12 DEF LoadWait
  <2>2. \A q \in Proc : Due(q)' <=> Due(q)
    BY <2>1, <1>t DEF Due, Waits, Age
  <2>3. InWait' = InWait
    BY <2>1, <1>t DEF InWait
  <2> QED
    BY <2>1, <2>2, <2>3, <1>2, <1>4, SameLine
<1>13. ASSUME NEW p \in Proc, AlreadyNotified(p) \/ Resume(p) PROVE Step
  <2>1. /\ UNCHANGED <<wait, notify>> /\ ticket' = [ticket EXCEPT ![p] = 0]
        /\ pc[p] \in {"added", "woken"} /\ pc' = [pc EXCEPT ![p] = "idle"] /\ ~ Due(p)
    BY <1>13, <1>t, OwedIsDue DEF AlreadyNotified, Resume, Due, Waits
  <2>2. \A q \in Proc : (Due(q)' <=> Due(q)) /\ (Due(q) => ticket'[q] = ticket[q])
    BY <2>1, <1>t DEF Due, Waits, Age
  <2>3. p \in InWait /\ InWait' = InWait \ {p}
    BY <2>1, <1>t DEF InWait
  <2> QED
    BY <2>1, <2>2, <2>3, <1>2, <1>5, SameLine
<1>14. ASSUME NEW p \in Proc, Park(p) PROVE Step
  <2>1. /\ UNCHANGED <<wait, notify, ticket>> /\ pc[p] = "added" /\ pc' = [pc EXCEPT ![p] = "parked"]
    BY <1>14 DEF Park
  <2>2. \A q \in Proc : Due(q)' <=> Due(q)
    BY <2>1, <1>t DEF Due, Waits, Age
  <2>3. InWait' = InWait
    BY <2>1, <1>t DEF InWait
  <2> QED
    BY <2>1, <2>2, <2>3, <1>2, <1>4, SameLine
<1>15. ASSUME NEW p \in Proc, FastPath(p) \/ NotifyNobody(p) \/ ReadyDone(p) \/ SlowPath(p)
       PROVE  Step
  <2>1. /\ UNCHANGED <<wait, notify, ticket>> /\ pc[p] \in {"load", "lock", "ready"}
        /\ pc' = [pc EXCEPT ![p] = "idle"] \/ pc' = [pc EXCEPT ![p] = "lock"]
    BY <1>15 DEF FastPath, NotifyNobody, ReadyDone, SlowPath
  <2>2. \A q \in Proc : Due(q)' <=> Due(q)
    BY <2>1, <1>t DEF Due, Waits, Age
  <2>3. InWait' = InWait
    BY <2>1, <1>t DEF InWait
  <2> QED
    BY <2>1, <2>2, <2>3, <1>2, <1>4, SameLine
<1>16. ASSUME NEW p \in Proc, NotifyAbsent(p) \/ NotifyFound(p) PROVE Step
  <2>1. /\ UNCHANGED <<wait, ticket>> /\ notify # wait /\ notify' = Plus(notify, 1) /\ pc[p] = "lock"
        /\ pc' = [pc EXCEPT ![p] = "idle"] \/ pc' = [pc EXCEPT ![p] = "ready"]
    BY <1>16 DEF NotifyAbsent, NotifyFound
  <2>2. ~ doomed /\ \A q \in Proc : Waits(q)' <=> Waits(q)
    BY <2>1, <1>t DEF Waits, Quiet
  <2>3. InWait' = InWait
    BY <2>1, <1>t DEF InWait
  <2> QED
    BY <2>1, <2>2, <2>3, <1>2, <1>7, NotifyFirst
<1>17. ASSUME NEW p \in Proc, NotifyAll(p) PROVE Step
  <2>1. /\ UNCHANGED <<wait, ticket>> /\ notify' = wait /\ pc[p] = "lock"
        /\ pc' = [pc EXCEPT ![p] = "ready"]
    BY <1>17 DEF NotifyAll
  <2>2. \A q \in Proc : Waits(q)' <=> Waits(q)
    BY <2>1, <1>t DEF Waits
  <2>3. InWait' = InWait
    BY <2>1, <1>t DEF InWait
  <2>4. \A q \in Proc : ~ Due(q)'
    BY <2>1, <2>2, <1>t, DueAfterNotify
  <2>5. Line(<<>>)'
    BY <2>4 DEF Line
  <2> QED
    BY <2>3, <2>5, <1>8
<1>18. ASSUME NEW p \in Proc, ReadyNext(p) PROVE Step
  <2>1. /\ UNCHANGED <<wait, notify, ticket>> /\ cursor[p] \in Proc
        /\ pc[cursor[p]] = "parked" /\ pc' = [pc EXCEPT ![cursor[p]] = "woken"]
    BY <1>18, CursorParked DEF ReadyNext, IInv, TypeOK
  <2>2. ~ Due(cursor[p])
    <3>1. PICK place \in [Proc -> Proc \cup {Nil}], rank \in [Proc -> Nat], top \in Nat :
            Chained(place, rank, top)
      BY DEF IInv
    <3>2. First(p) = cursor[p]
      BY NilAssumption DEF First
    <3>3. place[cursor[p]] = p
      BY <2>1, <3>1, <3>2, NilAssumption DEF Chained
    <3> QED
      BY <2>1, <3>1, <3>3, NilAssumption DEF Chained
  <2>3. \A q \in Proc : Due(q)' <=> Due(q)
    BY <2>1, <2>2, <1>t DEF Due, Waits, Age
  <2>4. InWait' = InWait
    BY <2>1, <1>t DEF InWait
  <2> QED
    BY <2>1, <2>3, <2>4, <1>2, <1>4, SameLine
<1>19. ASSUME Report \/ UNCHANGED vars PROVE Step
  <2>1. UNCHANGED <<wait, notify, ticket, pc>>
    BY <1>19 DEF Report, vars
  <2>2. \A q \in Proc : Due(q)' <=> Due(q)
    BY <2>1 DEF Due, Waits, Age
  <2>3. InWait' = InWait
    BY <2>1 DEF InWait
  <2> QED
    BY <2>1, <2>2, <2>3, <1>2, <1>4, SameLine
<1>20. ASSUME NEW p \in Proc, gcNotifyListNotifyOne(p) PROVE Step
  <2>1. \E k \in 1 .. Len(s) : s[k] = p /\ Line(RemoveAt(s, k))'
    BY <1>2, <1>20, ReclaimedFrom
  <2>2. InWait' = InWait \ {p}
    BY <1>20, <1>t DEF gcNotifyListNotifyOne, InWait
  <2> QED
    BY <2>1, <2>2, <1>9
<1>21. ASSUME Reuse PROVE Step
  <2>1. pc' = pc /\ \A q \in Proc : pc[q] = "idle"
    BY <1>21, <1>t DEF Reuse, Quiet
  <2>2. \A q \in Proc : ~ Due(q)'
    BY <2>1 DEF Due, Waits
  <2>3. Line(<<>>)'
    BY <2>2 DEF Line
  <2>4. InWait' = InWait
    BY <2>1 DEF InWait
  <2> QED
    BY <2>3, <2>4, <1>8
<1> HIDE DEF GoTo, EndWait, EndCall
<1>22. ASSUME NEW p \in Proc, Continue(p) PROVE Step
  BY <1>22, <1>13, <1>14, <1>15, <1>16, <1>17, <1>18 DEF Continue
<1>23. Step
  BY <1>11, <1>12, <1>19, <1>20, <1>21, <1>22 DEF Next
<1> QED
  BY <1>23 DEF Step

(* sync.Cond gets what Cond promises: waiters are notified in the order of *)
(* their tickets, whether they have parked or not, and nobody returns      *)
(* unnotified; the collector takes the waiters it reclaims out of turn.    *)
THEOREM TicketsInOrder == Spec => ImplementsCond
<1>1. Init => Abstract!Init /\ IInv /\ Line(Waiters)
  <2> SUFFICES ASSUME Init PROVE Abstract!Init /\ IInv /\ Line(Waiters)
    OBVIOUS
  <2>1. IInv
    BY InitIInv
  <2>2. InWait = {} /\ \A p \in Proc : ~ Due(p)
    BY DEF Init, InWait, Due, Waits
  <2>3. Line(<<>>)
    BY <2>2 DEF Line
  <2>4. Waiters = <<>>
    <3>1. <<>> \in Seq(Proc) /\ IInv
      BY <2>1
    <3> HIDE DEF Line, Waiters
    <3> QED
      BY <2>3, <3>1, WaitersInLine
  <2> QED
    BY <2>1, <2>2, <2>3, <2>4 DEF Abstract!Init
<1>2. (IInv /\ Line(Waiters)) /\ IInv' /\ [Next]_vars =>
        [Abstract!Next]_(Abstract!vars) /\ Line(Waiters)'
  BY CondStep
<1> QED
  BY <1>1, <1>2, Inductive, PTL DEF Spec, ImplementsCond, Abstract!Spec
=============================================================================
