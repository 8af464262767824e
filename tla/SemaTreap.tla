----------------------------- MODULE SemaTreap -----------------------------
(***************************************************************************)
(* The data structure behind SemaQueue: a treap of sudogs, ordered by key  *)
(* and heaped by a random ticket, in which every node is the head of a     *)
(* linked list of the sudogs with its key.  Every operation runs under     *)
(* root.lock: it starts when the lock is free, each pass of one of its     *)
(* loops is a step, and the step that ends it releases the lock.           *)
(***************************************************************************)
EXTENDS Integers, Sequences, FiniteSets, SequencesExt

CONSTANTS
  Sudog, Addr, MaskBit,
  Nil,
  Tickets           \* the values of cheaprand() | 1

Masked(a) == a + MaskBit
Key == Addr \cup {Masked(a) : a \in Addr}

ASSUME AddrAssumption ==
  MaskBit \in Nat /\ Addr \subseteq Nat /\ (MaskBit = 0 \/ \A a \in Addr : a < MaskBit)
ASSUME TicketsAssumption == Tickets \subseteq {t \in Nat : t % 2 = 1}
ASSUME SudogAssumption == IsFiniteSet(Sudog) /\ Nil \notin Sudog \cup Key

VARIABLES
  treap,            \* the root node
  elem, prev, next, parent, waitlink, waittail, ticket,
                    \* the fields of the sudogs, waiters (for profiles) apart
  pc,               \* the loop the holder of root.lock is in
  call,             \* its call, see NoCall
  at, last,         \* the node the loop is at, and the one it came from
  target, targetPred

links == <<treap, prev, next, parent>>
lists == <<waitlink, waittail>>
cursors == <<at, last, target, targetPred>>
vars == <<links, lists, elem, ticket, pc, call, cursors>>

Pointer == Sudog \cup {Nil}
KeyOf(a, isSync) == IF isSync THEN Masked(a) ELSE a

\* s is the sudog to be queued, or that of gp in gcDequeue; key is what is searched.
NoCall == [name |-> "none", s |-> Nil, addr |-> Nil, key |-> Nil, lifo |-> FALSE]

Init ==
  /\ treap = Nil /\ elem = [s \in Sudog |-> Nil] /\ ticket = [s \in Sudog |-> 0]
  /\ prev = elem /\ next = elem /\ parent = elem /\ waitlink = elem /\ waittail = elem
  /\ pc = "unlocked" /\ call = NoCall
  /\ at = Nil /\ last = Nil /\ target = Nil /\ targetPred = Nil

Lock(c) ==
  /\ pc = "unlocked" /\ pc' = "search" /\ call' = c
  /\ at' = treap /\ last' = Nil /\ UNCHANGED <<target, targetPred>>

Unlock ==
  /\ pc' = "unlocked" /\ call' = NoCall
  /\ at' = Nil /\ last' = Nil /\ target' = Nil /\ targetPred' = Nil
-----------------------------------------------------------------------------
(* The blocks of code the operations share. *)

\* *pt = x, where the search came by pt
Link(x) ==
  LET left == last # Nil /\ call.key < elem[last]
      right == last # Nil /\ ~ left
  IN  /\ treap' = IF last = Nil THEN x ELSE treap
      /\ prev' = IF left THEN [prev EXCEPT ![last] = x] ELSE prev
      /\ next' = IF right THEN [next EXCEPT ![last] = x] ELSE next

\* y takes the place of x in the tree (*pt = y) and x is left with none.
TakePlace(y, x) ==
  /\ treap' = IF last = Nil THEN y ELSE treap
  /\ prev' = [q \in Sudog |-> IF q = y THEN prev[x] ELSE IF q = x THEN Nil
                              ELSE IF q = last /\ call.key < elem[q] THEN y ELSE prev[q]]
  /\ next' = [q \in Sudog |-> IF q = y THEN next[x] ELSE IF q = x THEN Nil
                              ELSE IF q = last /\ ~(call.key < elem[q]) THEN y ELSE next[q]]
  /\ parent' = [q \in Sudog |-> IF q = y THEN parent[x] ELSE IF q = x THEN Nil
                                ELSE IF q \in {prev[x], next[x]} THEN y ELSE parent[q]]

\* turning (x a (y b c)) into (y (x a b) c)
RotateLeft(x) ==
  LET p == parent[x]
      y == next[x]
      b == prev[y]
  IN  /\ treap' = IF p = Nil THEN y ELSE treap
      /\ prev' = [q \in Sudog |-> IF q = y THEN x ELSE IF q = p /\ prev[q] = x THEN y ELSE prev[q]]
      /\ next' = [q \in Sudog |-> IF q = x THEN b ELSE IF q = p /\ prev[q] # x THEN y ELSE next[q]]
      /\ parent' = [q \in Sudog |-> IF q = x THEN y ELSE IF q = y THEN p
                                    ELSE IF q = b THEN x ELSE parent[q]]

\* mutant: the subtree in the middle keeps its parent
RotateRightOrphans(y) ==
  LET p == parent[y]
      x == prev[y]
      b == next[x]
  IN  /\ treap' = IF p = Nil THEN x ELSE treap
      /\ prev' = [q \in Sudog |-> IF q = y THEN b ELSE IF q = p /\ prev[q] = y THEN x ELSE prev[q]]
      /\ next' = [q \in Sudog |-> IF q = x THEN y ELSE IF q = p /\ prev[q] # y THEN x ELSE next[q]]
      /\ parent' = [parent EXCEPT ![y] = x, ![x] = p]

\* turning (y (x a b) c) into (x a (y b c))
RotateRight(y) ==
  LET p == parent[y]
      x == prev[y]
      b == next[x]
  IN  /\ treap' = IF p = Nil THEN x ELSE treap
      /\ prev' = [q \in Sudog |-> IF q = y THEN b ELSE IF q = p /\ prev[q] = y THEN x ELSE prev[q]]
      /\ next' = [q \in Sudog |-> IF q = x THEN y ELSE IF q = p /\ prev[q] # y THEN x ELSE next[q]]
      /\ parent' = [q \in Sudog |-> IF q = y THEN x ELSE IF q = x THEN p
                                    ELSE IF q = b THEN y ELSE parent[q]]

\* Where this does not hold a rotation throws.
Attached(x) == parent[x] # Nil => x \in {prev[parent[x]], next[parent[x]]}

\* mutant: the ticket of the treap is taken for the ticket of a handoff
ResetKeepsTicket(s, tickets) == elem' = [elem EXCEPT ![s] = Nil] /\ ticket' = tickets

\* Its links are cleared as well, by TakePlace, RemoveLeaf and RemoveInner.
Reset(s, tickets) == elem' = [elem EXCEPT ![s] = Nil] /\ ticket' = [tickets EXCEPT ![s] = 0]
-----------------------------------------------------------------------------
(* The three operations start with a search. *)
Queue(s, a, lifo, isSync) ==
  LET k == KeyOf(a, isSync) IN
  /\ elem[s] = Nil /\ elem' = [elem EXCEPT ![s] = k]
  /\ next' = [next EXCEPT ![s] = Nil] /\ prev' = [prev EXCEPT ![s] = Nil]
  /\ Lock([name |-> "queue", s |-> s, addr |-> a, key |-> k, lifo |-> lifo])
  /\ UNCHANGED <<treap, parent, lists, ticket>>

Dequeue(a) ==
  /\ Lock([name |-> "dequeue", s |-> Nil, addr |-> a, key |-> Masked(a), lifo |-> FALSE])
  /\ UNCHANGED <<links, lists, elem, ticket>>

\* Only sync waiters are ever reported, so the address is a masked one.  With
\* gcdetectdeadlocks=0 nothing is masked and nothing reported.
GcDequeue(s, a) ==
  /\ MaskBit # 0 /\ elem[s] = Masked(a)
  /\ Lock([name |-> "gcDequeue", s |-> s, addr |-> a, key |-> Masked(a), lifo |-> FALSE])
  /\ UNCHANGED <<links, lists, elem, ticket>>

Search ==
  /\ pc = "search" /\ at # Nil /\ elem[at] # call.key
  /\ last' = at /\ at' = IF call.key < elem[at] THEN prev[at] ELSE next[at]
  /\ UNCHANGED <<links, lists, elem, ticket, pc, call, target, targetPred>>

Found == pc = "search" /\ at # Nil /\ elem[at] = call.key
NotFound == pc = "search" /\ at = Nil
-----------------------------------------------------------------------------
(* queue *)
PushFront ==
  LET s == call.s IN
  /\ Found /\ call.name = "queue" /\ call.lifo
  /\ TakePlace(s, at) /\ ticket' = [ticket EXCEPT ![s] = ticket[at]]
  /\ waitlink' = [waitlink EXCEPT ![s] = at]
  /\ waittail' = [waittail EXCEPT ![s] = IF waittail[at] = Nil THEN at ELSE waittail[at], ![at] = Nil]
  /\ Unlock /\ UNCHANGED elem

PushBack ==
  LET end == IF waittail[at] = Nil THEN at ELSE waittail[at] IN
  /\ Found /\ call.name = "queue" /\ ~ call.lifo
  /\ waitlink' = [waitlink EXCEPT ![end] = call.s, ![call.s] = Nil]
  /\ waittail' = [waittail EXCEPT ![at] = call.s]
  /\ Unlock /\ UNCHANGED <<links, elem, ticket>>

NewLeaf(t) ==
  /\ NotFound /\ call.name = "queue" /\ Link(call.s)
  /\ ticket' = [ticket EXCEPT ![call.s] = t] /\ parent' = [parent EXCEPT ![call.s] = last]
  /\ pc' = "up" /\ at' = call.s
  /\ UNCHANGED <<lists, elem, call, last, target, targetPred>>

TooHigh == parent[at] # Nil /\ ticket[parent[at]] > ticket[at]

RotateUp ==
  LET p == parent[at] IN
  /\ pc = "up" /\ TooHigh /\ Attached(at) /\ Attached(p)
  /\ IF prev[p] = at THEN RotateRight(p) ELSE RotateLeft(p)
  /\ UNCHANGED <<lists, elem, ticket, pc, call, cursors>>

Queued == pc = "up" /\ ~ TooHigh /\ Unlock /\ UNCHANGED <<links, lists, elem, ticket>>
-----------------------------------------------------------------------------
(* dequeue and gcDequeue *)

\* There is no masked address; is there an unmasked one?
SearchPlain ==
  /\ NotFound /\ call.name = "dequeue" /\ call.key # call.addr
  /\ call' = [call EXCEPT !.key = call.addr] /\ at' = treap /\ last' = Nil
  /\ UNCHANGED <<links, lists, elem, ticket, pc, target, targetPred>>

NobodyWaits ==
  /\ NotFound /\ call.name = "dequeue" /\ call.key = call.addr
  /\ Unlock /\ UNCHANGED <<links, lists, elem, ticket>>

LoneWaiter ==
  /\ Found /\ waitlink[at] = Nil
  /\ call.name = "dequeue" \/ (call.name = "gcDequeue" /\ at = call.s)
  /\ pc' = "down" /\ UNCHANGED <<links, lists, elem, ticket, call, cursors>>

RotateDown ==
  /\ pc = "down" /\ {prev[at], next[at]} # {Nil} /\ Attached(at)
  /\ IF next[at] = Nil \/ (prev[at] # Nil /\ ticket[prev[at]] < ticket[next[at]])
     THEN RotateRight(at) ELSE RotateLeft(at)
  /\ UNCHANGED <<lists, elem, ticket, pc, call, cursors>>

RemoveLeaf ==
  LET p == parent[at] IN
  /\ pc = "down" /\ prev[at] = Nil /\ next[at] = Nil
  /\ treap' = IF p = Nil THEN Nil ELSE treap
  /\ prev' = IF p # Nil /\ prev[p] = at THEN [prev EXCEPT ![p] = Nil] ELSE prev
  /\ next' = IF p # Nil /\ prev[p] # at THEN [next EXCEPT ![p] = Nil] ELSE next
  /\ parent' = [parent EXCEPT ![at] = Nil]
  /\ Reset(at, ticket) /\ Unlock /\ UNCHANGED lists

\* The second in line takes over.
PopFront ==
  LET t == waitlink[at] IN
  /\ \/ Found /\ call.name = "dequeue" /\ t # Nil
     \/ pc = "walk" /\ target = call.s /\ target = at
  /\ TakePlace(t, at) /\ Reset(at, [ticket EXCEPT ![t] = ticket[at]])
  /\ waitlink' = [waitlink EXCEPT ![at] = Nil]
  /\ waittail' = [waittail EXCEPT ![t] = IF waitlink[t] = Nil THEN Nil ELSE waittail[at], ![at] = Nil]
  /\ Unlock

WalkList ==
  /\ Found /\ call.name = "gcDequeue" /\ waitlink[at] # Nil
  /\ pc' = "walk" /\ target' = at
  /\ UNCHANGED <<links, lists, elem, ticket, call, at, last, targetPred>>

WalkOn ==
  /\ pc = "walk" /\ target # Nil /\ target # call.s
  /\ targetPred' = target /\ target' = waitlink[target]
  /\ UNCHANGED <<links, lists, elem, ticket, pc, call, at, last>>

\* mutant: the tail pointer of the head is forgotten
RemoveInnerKeepsTail ==
  /\ pc = "walk" /\ target = call.s /\ target # at
  /\ waitlink' = [waitlink EXCEPT ![targetPred] = waitlink[target], ![target] = Nil]
  /\ waittail' = [waittail EXCEPT ![target] = Nil]
  /\ prev' = [prev EXCEPT ![target] = Nil] /\ next' = [next EXCEPT ![target] = Nil]
  /\ parent' = [parent EXCEPT ![target] = Nil] /\ UNCHANGED treap
  /\ Reset(target, ticket) /\ Unlock

\* gp is not the first in line.
RemoveInner ==
  /\ pc = "walk" /\ target = call.s /\ target # at
  /\ waitlink' = [waitlink EXCEPT ![targetPred] = waitlink[target], ![target] = Nil]
  /\ waittail' = [waittail EXCEPT ![at] = IF waitlink[target] = Nil THEN targetPred ELSE @, ![target] = Nil]
  /\ prev' = [prev EXCEPT ![target] = Nil] /\ next' = [next EXCEPT ![target] = Nil]
  /\ parent' = [parent EXCEPT ![target] = Nil] /\ UNCHANGED treap
  /\ Reset(target, ticket) /\ Unlock
-----------------------------------------------------------------------------
Next ==
  \/ \E s \in Sudog, a \in Addr, lifo, isSync \in BOOLEAN : Queue(s, a, lifo, isSync)
  \/ \E a \in Addr : Dequeue(a)
  \/ \E s \in Sudog, a \in Addr : GcDequeue(s, a)
  \/ Search \/ PushFront \/ PushBack \/ (\E t \in Tickets : NewLeaf(t)) \/ RotateUp \/ Queued
  \/ SearchPlain \/ NobodyWaits \/ LoneWaiter \/ RotateDown \/ RemoveLeaf \/ PopFront
  \/ WalkList \/ WalkOn \/ RemoveInner

Spec == Init /\ [][Next]_vars
-----------------------------------------------------------------------------
(* Properties. *)

TypeOK ==
  /\ {treap, at, last, target, targetPred} \subseteq Pointer
  /\ elem \in [Sudog -> Key \cup {Nil}] /\ ticket \in [Sudog -> Tickets \cup {0}]
  /\ {prev, next, parent, waitlink, waittail} \subseteq [Sudog -> Pointer]
  /\ pc \in {"unlocked", "search", "up", "down", "walk"}
  /\ call \in [name : {"none", "queue", "dequeue", "gcDequeue"}, s : Pointer, addr : Addr \cup {Nil},
               key : Key \cup {Nil}, lifo : BOOLEAN]

\* Only the first in line is in the tree.
InTree(n) == n = treap \/ parent[n] # Nil

\* The nodes from t down.
Below(t) ==
  {q \in Sudog : \A S \in SUBSET Sudog :
     (t # Nil => t \in S) /\ (\A n \in S : {prev[n], next[n]} \subseteq S \cup {Nil}) => q \in S}

\* The code throws, or panics, when a node is not where its parent pointer says,
\* and when gcDequeue does not find the goroutine that was reported.
NeverThrows ==
  /\ pc \in {"up", "down"} => Attached(at) /\ (parent[at] # Nil => Attached(parent[at]))
  /\ call.name = "gcDequeue" =>
       /\ ~ NotFound
       /\ Found => waitlink[at] # Nil \/ at = call.s
       /\ pc = "walk" => target # Nil

\* Every node can be reached from the root, the tree is ordered by key and heaped by
\* ticket, but for the node that is being rotated, and its parent pointers agree
\* with its links.
TreapShape ==
  /\ TypeOK /\ NeverThrows
  /\ treap # Nil => parent[treap] = Nil
  /\ \A n \in Sudog : InTree(n) => n \in Below(treap)
  /\ \A n \in Below(treap) :
       /\ \A l \in Below(prev[n]) : elem[l] < elem[n]
       /\ \A r \in Below(next[n]) : elem[n] < elem[r]
       /\ \A c \in {prev[n], next[n]} \ {Nil} :
            /\ parent[c] = n
            /\ ticket[n] <= ticket[c] \/ (pc \in {"up", "down"} /\ at \in {n, c})

\* A sudog that is handed back satisfies releaseSudog, does not look like one
\* that was handed the semaphore (ticket), and what it may keep in waittail is
\* at most itself, which queue takes for the same as nil.
ReleasedClean ==
  \A s \in Sudog : elem[s] = Nil =>
    /\ {prev[s], next[s], parent[s], waitlink[s]} = {Nil} /\ ticket[s] = 0
    /\ waittail[s] \in {Nil, s}

\* The treap is a SemaQueue: whatever is queued, dequeued or withdrawn by the
\* collector from the middle of a list, a search finds the waiters of every key
\* in the order of their queue (queue, dequeue, gcDequeue).
WaitersOf(k) ==
  LET waiting == {s \in Sudog : elem[s] = k}
      lines == {w \in SeqOf(waiting, Cardinality(waiting)) \ {<<>>} :
                  /\ InTree(w[1])
                  /\ \A i \in 1 .. Len(w) : waitlink[w[i]] = IF i = Len(w) THEN Nil ELSE w[i + 1]}
  IN  IF lines = {} THEN <<>> ELSE CHOOSE w \in lines : TRUE
Abstract == INSTANCE SemaQueue WITH waiters <- [k \in Key |-> WaitersOf(k)]
ImplementsQueue == Abstract!Spec
=============================================================================
