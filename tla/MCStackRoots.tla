---------------------------- MODULE MCStackRoots ----------------------------
(***************************************************************************)
(* Three goroutines, a channel and two semaphores, one of which a global   *)
(* refers to.  The first goroutine runs, the others are blocked in any     *)
(* way or not in use: the past is in the initial states, and only the      *)
(* steps the program takes from the first collection on are counted.       *)
(***************************************************************************)
EXTENDS StackRoots

MCGoroutine == {1, 2, 3}
MCSudogOf == [g \in MCGoroutine |-> g + 3]
MCChannel == {7}
MCSemaSeq == <<8, 9>>
MCAllgsArray == 10
MCMaskUnit == 16
MCGlobals == {9}

\* Every order in which the goroutines gs can have queued.
Orders(gs) == {s \in [1 .. Cardinality(gs) -> gs] : \A i, j \in DOMAIN s : i # j => s[i] # s[j]}

MCInit ==
  /\ gcdetectdeadlocks \in Modes
  /\ \E s2 \in {"_Gdead", "_Gwaiting"}, s3 \in {"_Gidle", "_Gwaiting"} :
       status = [g \in Goroutine |-> CASE g = 1 -> "_Grunning" [] g = 2 -> s2 [] g = 3 -> s3]
  /\ waitingOn \in [Goroutine -> Sync \cup {Nil}]
  /\ \A g \in Goroutine : status[g] = "_Gwaiting" <=> waitingOn[g] # Nil
  /\ \E s1 \in {{}, {7}, {8}}, s2 \in {{}, {8}} :
       stack = [g \in Goroutine |->
                  CASE g = 1 -> s1
                    [] g = 2 -> IF waitingOn[2] = Nil THEN {} ELSE {waitingOn[2]} \cup s2
                    [] g = 3 -> {waitingOn[3]} \ {Nil}]
  /\ queue \in [Sync -> UNION {Orders(gs) : gs \in SUBSET {2, 3}}]
  /\ \A o \in Sync : {queue[o][i] : i \in DOMAIN queue[o]} = {g \in Goroutine : waitingOn[g] = o}
  /\ allgs = LET used == SelectSeq(<<1, 2, 3>>, LAMBDA g : status[g] # "_Gidle")
             IN [i \in DOMAIN used |-> gcMask(used[i])]
  /\ phase = "off" /\ marked = {} /\ grey = {}
  /\ stackRoots = <<>> /\ nValidStackRoots = 0 /\ markrootNext = 0
  /\ detectedDeadlocks = FALSE /\ loop = Idle /\ freed = {}
  /\ doomed = {} /\ reported = {} /\ mutations = 0 /\ cycles = 0

MCSpec == MCInit /\ [][Next]_vars
=============================================================================
