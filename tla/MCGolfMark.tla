----------------------------- MODULE MCGolfMark -----------------------------
(***************************************************************************)
(* Small instances of GolfMark.  The first goroutine runs, the others are  *)
(* blocked in any way or not in use, and one object may refer to the       *)
(* other: the program's past is in the initial states, so only the steps   *)
(* it takes from the first collection on are counted.                      *)
(***************************************************************************)
EXTENDS GolfMark, TLC

CONSTANTS g1, g2, g3, ch, sema, mid, far, InitialGlobals, InitialFields, MainStacks, OtherStacks

TwoGs == <<g1, g2>>
ThreeGs == <<g1, g2, g3>>
MCGoroutine == {AllGs[i] : i \in DOMAIN AllGs}
NilOnly == {Nil}
ChannelOnly == {ch}
NilOrChannel == {Nil, ch}

\* A channel and a semaphore, any references from the stacks.
ChannelAndSemaphore == {ch, sema}
AnyStack == SUBSET Object
FieldOfChannel == {ch :> o @@ sema :> Nil : o \in {Nil, sema}}

\* Three channels, the last of them also referred to by the second, so that what
\* leads to it may be grey.  Only ch is shared.
ThreeChannels == {ch, mid, far}
MainShares == {{}, {ch}}
OthersOwn == {{ch}, Object}
FieldToFar == {ch :> Nil @@ mid :> far @@ far :> Nil}

Unused == [status : {"_Gidle", "_Gdead"}, stack : {{}}, waitingOn : {{}}]
Waiting == UNION {[status : {"_Gwaiting"}, stack : {s}, waitingOn : {w \in SUBSET s : CanWaitFor(w)}]
                    : s \in OtherStacks}
Main == [status : {"_Grunning"}, stack : MainStacks, waitingOn : {{}}]

MCInit ==
  /\ \E main \in Main, other \in [Goroutine \ {g1} -> Waiting \cup Unused] :
       LET local == g1 :> main @@ other IN
       /\ status = [g \in Goroutine |-> local[g].status]
       /\ stack = [g \in Goroutine |-> local[g].stack]
       /\ waitingOn = [g \in Goroutine |-> local[g].waitingOn]
  /\ queue = [o \in Object |-> {g \in Goroutine : o \in waitingOn[g]}]
  /\ waking = [g \in Goroutine |-> {}]
  /\ field \in InitialFields
  /\ global \in InitialGlobals
  /\ allocated = Object
  /\ phase = "off" /\ marked = {} /\ grey = {} /\ gcscandone = {}
  /\ stackRoots = <<>> /\ nValidStackRoots = 0 /\ markrootNext = 0
  /\ detectedDeadlocks = FALSE /\ markDone = Idle
  /\ doomed = {} /\ reported = {} /\ hasty = FALSE /\ mutations = 0 /\ cycles = 0
  /\ gcdetectdeadlocks \in Modes

MCSpec == MCInit /\ [][Next]_vars
MCFairSpec == MCSpec /\ Fairness
=============================================================================
