-------------------------- MODULE StackRoots_proof --------------------------
(***************************************************************************)
(* Proofs about work.stackRoots: its two parts stay apart while it is      *)
(* reordered; every g struct is stored into it unmasked, hence marked,     *)
(* before a cycle ends; no sudog in use is freed; and what only goroutines *)
(* that are blocked for good refer to is never marked.                     *)
(***************************************************************************)
EXTENDS StackRoots, FiniteSetTheorems, WellFoundedInduction, TLAPS

\* How far the entries of stackRoots are unmasked.
ValidEnd == IF loop.at \in {"outer", "inner"} THEN loop.v ELSE nValidStackRoots

LoopLabels == {"idle", "outer", "inner", "top", "barrier", "detect"}

Phases ==
  /\ gcdetectdeadlocks \in {0, 1, 2}
  /\ phase \in {"off", "mark"}
  /\ loop \in [at : LoopLabels, v : Nat, iv : Nat, found : BOOLEAN]
  /\ phase = "off" => loop.at = "idle"
  /\ loop.at \in {"outer", "inner", "detect"} => gcdetectdeadlocks # 0

MaskedGs == {gcMask(g) : g \in Goroutine}

Tables ==
  /\ allgs \in Seq(MaskedGs)
  /\ stackRoots \in Seq(Nat)
  /\ nValidStackRoots \in Nat /\ markrootNext \in Nat

Indices ==
  /\ nValidStackRoots <= ValidEnd /\ ValidEnd <= nStackRoots
  /\ loop.at \in {"outer", "inner"} => loop.v <= loop.iv /\ loop.iv <= nStackRoots
  /\ loop.at = "inner" => loop.v < loop.iv
  /\ loop.at = "detect" => nValidStackRoots <= loop.v /\ loop.v <= loop.iv /\ loop.iv = nStackRoots

Entries ==
  /\ \A i \in 1 .. ValidEnd : stackRoots[i] \in Goroutine
  /\ \A i \in (ValidEnd + 1) .. nStackRoots : IsMasked(stackRoots[i]) /\ Root(i) \in Goroutine
  /\ markrootNext <= 1 + nValidStackRoots

RootsInv == Phases /\ Tables /\ Indices /\ Entries

-----------------------------------------------------------------------------
(* The mask.                                                               *)
LEMMA MaskedRoundTrip ==
  ASSUME NEW g \in Goroutine
  PROVE /\ Masked(g) \in Nat
        /\ gcUnmask(Masked(g)) = g
        /\ IsMasked(Masked(g))
        /\ gcUnmask(g) = g
        /\ ~IsMasked(g)
<1>1. /\ MaskUnit \in Nat /\ MaskUnit > 0
      /\ g \in 1 .. (MaskUnit - 1)
  BY AddressAssumption
<1>2. g % MaskUnit = g
  BY <1>1
<1>3. (15 * MaskUnit + g) % MaskUnit = g
  BY <1>1, Z3
<1>4. (15 * MaskUnit + g) \div MaskUnit = 15
  BY <1>1, Z3
<1>5. g \div MaskUnit = 0
  BY <1>1
<1>6. 15 * MaskUnit + g \in Nat
  BY <1>1
<1> QED
  BY <1>2, <1>3, <1>4, <1>5, <1>6 DEF Masked, gcUnmask, IsMasked

LEMMA GoroutineIsNat == \A g \in Goroutine : g \in Nat
  BY AddressAssumption

LEMMA MaskOfG ==
  ASSUME NEW g \in Goroutine
  PROVE gcMask(g) \in Nat /\ gcUnmask(gcMask(g)) = g
<1>1. g \in Nat
  BY AddressAssumption
<1> QED
  BY <1>1, MaskedRoundTrip DEF gcMask

LEMMA AllgsEntries ==
  ASSUME Tables, NEW i \in 1 .. Len(allgs)
  PROVE gcUnmask(allgs[i]) \in Goroutine /\ (gcdetectdeadlocks = 0 => allgs[i] \in Goroutine)
<1>1. PICK g \in Goroutine : allgs[i] = gcMask(g)
  BY DEF Tables, MaskedGs
<1> QED
  BY <1>1, MaskOfG DEF gcMask

LEMMA RootIsG ==
  ASSUME RootsInv, NEW i \in 1 .. nStackRoots
  PROVE Root(i) \in Goroutine
<1>1. nStackRoots \in Nat /\ ValidEnd \in Nat
  BY DEF RootsInv, Phases, Tables, ValidEnd, nStackRoots
<1>2. i \in 1 .. ValidEnd \/ i \in (ValidEnd + 1) .. nStackRoots
  BY <1>1
<1> QED
  BY <1>2, MaskedRoundTrip DEF RootsInv, Entries, Root

-----------------------------------------------------------------------------
(* RootsInv is inductive.                                                  *)
LEMMA RootsInvInit == ASSUME Init PROVE RootsInv
<1>1. PICK main \in Goroutine : \A g \in Goroutine : status[g] = "_Grunning" <=> g = main
  BY DEF Init
<1>2. (CHOOSE g \in Goroutine : status[g] = "_Grunning") = main
  BY <1>1
<1>3. allgs = <<gcMask(main)>>
  BY <1>2 DEF Init
<1>4. Phases
  BY ModesAssumption DEF Init, Phases, Idle, LoopAt, LoopLabels
<1>5. Tables
  BY <1>3 DEF Init, Tables, MaskedGs
<1>6. Indices /\ Entries
  BY DEF Init, Indices, Entries, Idle, LoopAt, ValidEnd, nStackRoots
<1> QED
  BY <1>4, <1>5, <1>6 DEF RootsInv

\* Steps that change none of the variables of RootsInv but allgs and markrootNext.
LEMMA RootsInvFrame ==
  ASSUME RootsInv,
         UNCHANGED <<gcdetectdeadlocks, phase, loop, stackRoots, nValidStackRoots>>,
         allgs' \in Seq(MaskedGs)',
         markrootNext' \in Nat, markrootNext' <= 1 + nValidStackRoots
  PROVE RootsInv'
<1>1. Phases'
  BY DEF RootsInv, Phases
<1>2. Tables'
  BY DEF RootsInv, Tables
<1>3. Indices'
  BY DEF RootsInv, Indices, ValidEnd, nStackRoots
<1>4. Entries'
  BY DEF RootsInv, Entries, ValidEnd, nStackRoots, Root
<1> QED
  BY <1>1, <1>2, <1>3, <1>4 DEF RootsInv

LEMMA MaskedAllgsFrame ==
  ASSUME UNCHANGED gcdetectdeadlocks
  PROVE MaskedGs' = MaskedGs
  BY DEF MaskedGs, gcMask, Masked

LEMMA MutatorStep == ASSUME RootsInv, Mutator PROVE RootsInv'
<1>1. UNCHANGED <<gcdetectdeadlocks, phase, loop, stackRoots, nValidStackRoots, markrootNext>>
  BY DEF Mutator, rootVars
<1>2. PICK g \in Goroutine : Mutate(g)
  BY DEF Mutator
<1>3. UNCHANGED allgs \/ \E h \in Goroutine : allgs' = Append(allgs, gcMask(h))
  BY <1>2 DEF Mutate, LoadGlobal, Forget, Park, Wake, Goexit, Go
<1>4. allgs' \in Seq(MaskedGs)
  BY <1>3 DEF RootsInv, Tables, MaskedGs
<1>5. markrootNext' \in Nat /\ markrootNext' <= 1 + nValidStackRoots
  BY <1>1 DEF RootsInv, Tables, Entries
<1> QED
  BY <1>1, <1>4, <1>5, MaskedAllgsFrame, RootsInvFrame

LEMMA MarkStep ==
  ASSUME RootsInv, MarkGlobals \/ MarkStack \/ \E obj \in grey : ScanObject(obj)
  PROVE RootsInv'
<1>1. UNCHANGED <<gcdetectdeadlocks, phase, loop, stackRoots, nValidStackRoots, allgs>>
  BY DEF MarkGlobals, MarkStack, ScanObject, unscanned, progVars, rootVars, bounds
<1>2. markrootNext' \in Nat /\ markrootNext' <= 1 + nValidStackRoots
  BY DEF MarkGlobals, MarkStack, ScanObject, RootsInv, Tables, Entries, markrootJobs
<1> QED
  BY <1>1, <1>2, MaskedAllgsFrame, RootsInvFrame DEF RootsInv, Tables

LEMMA StartStep == ASSUME RootsInv, gcStart PROVE RootsInv'
<1>1. /\ phase = "off" /\ phase' = "mark" /\ loop.at = "idle" /\ markrootNext' = 0
      /\ UNCHANGED <<gcdetectdeadlocks, loop, allgs>>
  BY DEF gcStart, RootsInv, Phases, progVars
<1>2. MaskedGs' = MaskedGs
  BY <1>1, MaskedAllgsFrame
<1>3. Phases'
  BY <1>1 DEF RootsInv, Phases
<1>4. Len(allgs) \in Nat
  BY DEF RootsInv, Tables
<1>5. CASE gcdetectdeadlocks = 0
  <2>1. stackRoots' = allgs /\ nValidStackRoots' = Len(allgs)
    BY <1>5 DEF gcStart
  <2>2. \A i \in 1 .. Len(allgs) : allgs[i] \in Goroutine
    BY <1>5, AllgsEntries DEF RootsInv
  <2>3. allgs \in Seq(Nat)
    <3>1. \A i \in 1 .. Len(allgs) : allgs[i] \in Nat
      BY <2>2, GoroutineIsNat
    <3>2. allgs = [i \in 1 .. Len(allgs) |-> allgs[i]]
      BY DEF RootsInv, Tables
    <3>3. [i \in 1 .. Len(allgs) |-> allgs[i]] \in Seq(Nat)
      BY <3>1, <1>4
    <3> QED
      BY <3>2, <3>3
  <2>4. Tables'
    BY <1>1, <1>2, <2>1, <2>3, <1>4 DEF RootsInv, Tables
  <2>5. Indices'
    BY <1>1, <2>1, <1>4 DEF RootsInv, Indices, ValidEnd, nStackRoots
  <2>6. Entries'
    BY <1>1, <2>1, <2>2, <1>4 DEF Entries, ValidEnd, nStackRoots, Root
  <2> QED
    BY <1>3, <2>4, <2>5, <2>6 DEF RootsInv
<1>6. CASE gcdetectdeadlocks # 0
  <2>1. PICK p \in Permutations(Len(allgs)), k \in 0 .. Len(allgs) :
          stackRoots' = Snapshot(p, k) /\ nValidStackRoots' = k
    BY <1>6 DEF gcStart
  <2>2. p \in [1 .. Len(allgs) -> 1 .. Len(allgs)]
    BY DEF Permutations
  <2>3. \A i \in 1 .. Len(allgs) : gcUnmask(allgs[p[i]]) \in Goroutine
    BY <2>2, AllgsEntries DEF RootsInv
  <2>4. ASSUME NEW i \in 1 .. Len(allgs)
        PROVE /\ stackRoots'[i] \in Nat
              /\ i <= k => stackRoots'[i] \in Goroutine
              /\ i > k => IsMasked(stackRoots'[i]) /\ gcUnmask(stackRoots'[i]) \in Goroutine
    <3> DEFINE gp == gcUnmask(allgs[p[i]])
    <3>1. gp \in Goroutine
      BY <2>3
    <3>2. stackRoots'[i] = IF i <= k THEN gp ELSE Masked(gp)
      BY <2>1, <1>6 DEF Snapshot, gcMask
    <3> HIDE DEF gp
    <3> QED
      BY <3>1, <3>2, MaskedRoundTrip, AddressAssumption
  <2>5. stackRoots' \in Seq(Nat) /\ Len(stackRoots') = Len(allgs)
    BY <2>1, <2>4, <1>4 DEF Snapshot
  <2>6. Tables'
    BY <1>1, <1>2, <2>1, <2>5 DEF RootsInv, Tables
  <2>7. Indices'
    BY <1>1, <2>1, <2>5, <1>4 DEF RootsInv, Indices, ValidEnd, nStackRoots
  <2>8. Entries'
    BY <1>1, <2>1, <2>4, <2>5, <1>4 DEF Entries, ValidEnd, nStackRoots, Root
  <2> QED
    BY <1>3, <2>6, <2>7, <2>8 DEF RootsInv
<1> QED
  BY <1>5, <1>6

LEMMA StillInRange ==
  \A j, n, m \in Nat : j <= 1 + n /\ n <= m => j <= 1 + m
  OBVIOUS

\* Steps of the loops: they touch neither allgs nor markrootNext.
LEMMA LoopFrame ==
  ASSUME RootsInv,
         UNCHANGED <<gcdetectdeadlocks, allgs, phase, markrootNext>>,
         phase = "mark",
         loop' \in [at : LoopLabels, v : Nat, iv : Nat, found : BOOLEAN],
         loop'.at \in {"outer", "inner", "detect"} => gcdetectdeadlocks # 0,
         stackRoots' \in Seq(Nat), nValidStackRoots' \in Nat,
         nValidStackRoots <= nValidStackRoots',
         Indices',
         \A i \in 1 .. ValidEnd' : stackRoots'[i] \in Goroutine,
         \A i \in (ValidEnd' + 1) .. Len(stackRoots') :
            IsMasked(stackRoots'[i]) /\ gcUnmask(stackRoots'[i]) \in Goroutine
  PROVE RootsInv'
<1>1. Phases'
  BY DEF RootsInv, Phases
<1>2. Tables'
  <2>1. MaskedGs' = MaskedGs
    BY MaskedAllgsFrame
  <2>2. allgs' = allgs /\ allgs \in Seq(MaskedGs)
    BY DEF RootsInv, Tables
  <2>3. allgs' \in Seq(MaskedGs')
    BY <2>1, <2>2
  <2>4. markrootNext' \in Nat
    BY DEF RootsInv, Tables
  <2> QED
    BY <2>3, <2>4 DEF Tables
<1>3. Entries'
  <2>1. markrootNext' <= 1 + nValidStackRoots'
    <3>1. /\ markrootNext' = markrootNext
          /\ markrootNext \in Nat /\ nValidStackRoots \in Nat
      BY DEF RootsInv, Tables
    <3>2. markrootNext <= 1 + nValidStackRoots
      BY DEF RootsInv, Entries
    <3>3. nValidStackRoots <= nValidStackRoots' /\ nValidStackRoots' \in Nat
      OBVIOUS
    <3> QED
      BY <3>1, <3>2, <3>3, StillInRange, Zenon
  <2> QED
    BY <2>1 DEF Entries, nStackRoots, Root
<1> QED
  BY <1>1, <1>2, <1>3 DEF RootsInv

\* What the loops may rely on.
LEMMA LoopFacts ==
  ASSUME RootsInv
  PROVE /\ loop.at \in LoopLabels /\ loop.v \in Nat /\ loop.iv \in Nat /\ loop.found \in BOOLEAN
        /\ stackRoots \in Seq(Nat) /\ nStackRoots = Len(stackRoots) /\ nStackRoots \in Nat
        /\ nValidStackRoots \in Nat
        /\ \A i \in 1 .. nStackRoots : Root(i) \in Goroutine /\ Root(i) \in Nat
<1>1. \A i \in 1 .. nStackRoots : Root(i) \in Goroutine
  BY RootIsG
<1> QED
  BY <1>1, GoroutineIsNat DEF RootsInv, Phases, Tables, nStackRoots

LEMMA DiscoverFirstStep == ASSUME RootsInv, DiscoverFirst PROVE RootsInv'
<1>1. /\ loop.at = "outer" /\ loop.v < loop.iv
      /\ UNCHANGED <<gcdetectdeadlocks, allgs, phase, markrootNext, nValidStackRoots>>
  BY DEF DiscoverFirst, notDiscover, progVars, bounds
<1>2. /\ phase = "mark" /\ gcdetectdeadlocks # 0
      /\ nValidStackRoots <= loop.v /\ loop.iv <= nStackRoots /\ ValidEnd = loop.v
  BY <1>1 DEF RootsInv, Phases, Indices, ValidEnd
<1>3. PICK valid \in StackRootValid(Root(loop.v + 1)) :
        IF valid
        THEN /\ stackRoots' = [stackRoots EXCEPT ![loop.v + 1] = Root(loop.v + 1)]
             /\ loop' = LoopAt("outer", loop.v + 1, loop.iv, FALSE)
        ELSE /\ loop' = LoopAt("inner", loop.v, loop.iv, FALSE)
             /\ UNCHANGED stackRoots
  BY DEF DiscoverFirst
<1>4. /\ loop.v \in Nat /\ loop.iv \in Nat /\ nStackRoots \in Nat /\ nValidStackRoots \in Nat
      /\ stackRoots \in Seq(Nat) /\ nStackRoots = Len(stackRoots)
  BY LoopFacts
<1>5. loop.v + 1 \in 1 .. nStackRoots
  BY <1>1, <1>2, <1>4
<1>6. CASE valid
  <2>1. /\ loop' = LoopAt("outer", loop.v + 1, loop.iv, FALSE)
        /\ stackRoots' = [stackRoots EXCEPT ![loop.v + 1] = Root(loop.v + 1)]
    BY <1>3, <1>6
  <2>2. loop'.at = "outer" /\ loop'.v = loop.v + 1 /\ loop'.iv = loop.iv
    BY <2>1, <1>1, LoopFacts DEF LoopAt
  <2>3. stackRoots' \in Seq(Nat) /\ Len(stackRoots') = nStackRoots
    BY <2>1, <1>1, <1>2, LoopFacts
  <2>4. ValidEnd' = loop.v + 1
    BY <2>2 DEF ValidEnd
  <2>5. Indices'
    BY <2>2, <2>3, <2>4, <1>1, <1>2, <1>4 DEF Indices, nStackRoots
  <2>6. \A i \in 1 .. nStackRoots :
          stackRoots'[i] = IF i = loop.v + 1 THEN Root(loop.v + 1) ELSE stackRoots[i]
    BY <2>1, <1>4
  <2>7. \A i \in 1 .. ValidEnd' : stackRoots'[i] \in Goroutine
    <3> SUFFICES ASSUME NEW i \in 1 .. ValidEnd' PROVE stackRoots'[i] \in Goroutine
      OBVIOUS
    <3>1. i \in 1 .. nStackRoots /\ (i = loop.v + 1 \/ (i # loop.v + 1 /\ i \in 1 .. ValidEnd))
      BY <2>4, <1>2, <1>4, <1>5
    <3>2. Root(loop.v + 1) \in Goroutine
      BY <1>5, LoopFacts
    <3> QED
      BY <2>6, <3>1, <3>2 DEF RootsInv, Entries
  <2>8. \A i \in (ValidEnd' + 1) .. Len(stackRoots') :
          IsMasked(stackRoots'[i]) /\ gcUnmask(stackRoots'[i]) \in Goroutine
    <3> SUFFICES ASSUME NEW i \in (ValidEnd' + 1) .. Len(stackRoots')
                 PROVE IsMasked(stackRoots'[i]) /\ gcUnmask(stackRoots'[i]) \in Goroutine
      OBVIOUS
    <3>1. i \in Nat /\ loop.v + 1 < i /\ i <= nStackRoots
      <4>1. i \in (loop.v + 1 + 1) .. nStackRoots
        BY <2>3, <2>4, Zenon
      <4> QED
        BY <4>1, <1>4
    <3>3. i \in (ValidEnd + 1) .. nStackRoots
      <4>1. i \in (loop.v + 1) .. nStackRoots
        BY <3>1, <1>4
      <4> QED
        BY <4>1, <1>2, Zenon
    <3>4. i \in 1 .. nStackRoots /\ i # loop.v + 1
      BY <3>1, <1>4
    <3>2. stackRoots'[i] = stackRoots[i]
      BY <2>6, <3>4
    <3> QED
      BY <3>2, <3>3, Zenon DEF RootsInv, Entries, Root, nStackRoots
  <2>9. loop' \in [at : LoopLabels, v : Nat, iv : Nat, found : BOOLEAN]
    BY <2>1, LoopFacts DEF LoopAt, LoopLabels
  <2> QED
    BY <2>3, <2>5, <2>7, <2>8, <2>9, <1>1, <1>2, LoopFacts, LoopFrame
<1>7. CASE ~valid
  <2>1. loop' = LoopAt("inner", loop.v, loop.iv, FALSE) /\ UNCHANGED stackRoots
    BY <1>3, <1>7
  <2>2. loop'.at = "inner" /\ loop'.v = loop.v /\ loop'.iv = loop.iv
    BY <2>1, LoopFacts DEF LoopAt, LoopLabels
  <2>3. ValidEnd' = ValidEnd
    BY <2>2, <1>2 DEF ValidEnd
  <2>4. Indices'
    <3>1. nStackRoots' = nStackRoots
      BY <2>1 DEF nStackRoots
    <3> QED
      BY <2>2, <2>3, <3>1, <1>1, <1>2, LoopFacts DEF Indices
  <2>5. /\ \A i \in 1 .. ValidEnd' : stackRoots'[i] \in Goroutine
        /\ \A i \in (ValidEnd' + 1) .. Len(stackRoots') :
             IsMasked(stackRoots'[i]) /\ gcUnmask(stackRoots'[i]) \in Goroutine
    BY <2>1, <2>3 DEF RootsInv, Entries, Root, nStackRoots
  <2>6. loop' \in [at : LoopLabels, v : Nat, iv : Nat, found : BOOLEAN]
    BY <2>1, LoopFacts DEF LoopAt, LoopLabels
  <2>7. stackRoots' \in Seq(Nat) /\ nValidStackRoots' \in Nat /\ nValidStackRoots <= nValidStackRoots'
    BY <1>1, <2>1, LoopFacts
  <2> QED
    BY <2>4, <2>5, <2>6, <2>7, <1>1, <1>2, LoopFrame
<1> QED
  BY <1>6, <1>7

LEMMA DiscoverSwapStep == ASSUME RootsInv, DiscoverSwap PROVE RootsInv'
<1> DEFINE v == loop.v + 1
           iv == loop.iv
           n == nStackRoots
<1>1. /\ loop.at = "inner"
      /\ UNCHANGED <<gcdetectdeadlocks, allgs, phase, markrootNext, nValidStackRoots>>
  BY DEF DiscoverSwap, notDiscover, progVars, bounds
<1>2. /\ phase = "mark" /\ gcdetectdeadlocks # 0 /\ loop.v < iv
      /\ nValidStackRoots <= loop.v /\ iv <= n /\ ValidEnd = loop.v
      /\ loop.v \in Nat /\ iv \in Nat /\ nValidStackRoots \in Nat /\ n \in Nat
      /\ stackRoots \in Seq(Nat) /\ Len(stackRoots) = n
  BY <1>1, LoopFacts DEF RootsInv, Phases, Indices, ValidEnd
<1>3. \/ /\ iv = v
         /\ loop' = LoopAt("outer", loop.v, iv - 1, FALSE)
         /\ UNCHANGED stackRoots
      \/ /\ iv # v
         /\ loop' = LoopAt("inner", loop.v, iv - 1, FALSE)
         /\ UNCHANGED stackRoots
      \/ /\ iv # v
         /\ stackRoots' = [stackRoots EXCEPT ![iv] = stackRoots[v], ![v] = Root(iv)]
         /\ loop' = LoopAt("outer", v, iv - 1, FALSE)
  BY DEF DiscoverSwap
<1>4. ASSUME NEW label \in {"outer", "inner"}, label = "inner" => iv # v,
             loop' = LoopAt(label, loop.v, iv - 1, FALSE), UNCHANGED stackRoots
      PROVE RootsInv'
  <2>1. loop'.at = label /\ loop'.v = loop.v /\ loop'.iv = iv - 1 /\ iv - 1 \in Nat
    BY <1>2, <1>4 DEF LoopAt
  <2>2. loop' \in [at : LoopLabels, v : Nat, iv : Nat, found : BOOLEAN]
    BY <1>2, <1>4, <2>1 DEF LoopAt, LoopLabels
  <2>3. ValidEnd' = ValidEnd
    BY <2>1, <1>2 DEF ValidEnd
  <2>4. Indices'
    <3>1. nStackRoots' = n
      BY <1>4 DEF nStackRoots
    <3>2. nValidStackRoots' = nValidStackRoots
      BY <1>1
    <3>3. CASE label = "outer"
      BY <2>1, <2>3, <3>1, <3>2, <3>3, <1>2 DEF Indices
    <3>4. CASE label = "inner"
      BY <2>1, <2>3, <3>1, <3>2, <3>4, <1>4, <1>2 DEF Indices
    <3> QED
      BY <3>3, <3>4
  <2>5. /\ \A i \in 1 .. ValidEnd' : stackRoots'[i] \in Goroutine
        /\ \A i \in (ValidEnd' + 1) .. Len(stackRoots') :
             IsMasked(stackRoots'[i]) /\ gcUnmask(stackRoots'[i]) \in Goroutine
    BY <1>4, <2>3 DEF RootsInv, Entries, Root, nStackRoots
  <2>6. stackRoots' \in Seq(Nat) /\ nValidStackRoots' \in Nat /\ nValidStackRoots <= nValidStackRoots'
    BY <1>1, <1>2, <1>4
  <2> QED
    BY <2>2, <2>4, <2>5, <2>6, <1>1, <1>2, LoopFrame
<1>5. ASSUME iv # v,
             stackRoots' = [stackRoots EXCEPT ![iv] = stackRoots[v], ![v] = Root(iv)],
             loop' = LoopAt("outer", v, iv - 1, FALSE)
      PROVE RootsInv'
  <2>1. loop'.at = "outer" /\ loop'.v = v /\ loop'.iv = iv - 1 /\ iv - 1 \in Nat /\ v \in Nat
    BY <1>2, <1>5 DEF LoopAt
  <2>2. loop' \in [at : LoopLabels, v : Nat, iv : Nat, found : BOOLEAN]
    BY <1>5, <2>1 DEF LoopAt, LoopLabels
  <2>3. v \in 1 .. n /\ iv \in 1 .. n /\ v < iv
    BY <1>2, <1>5
  <2>4. Root(iv) \in Goroutine /\ Root(iv) \in Nat
    BY <2>3, LoopFacts
  <2>5. stackRoots' \in Seq(Nat) /\ Len(stackRoots') = n
    BY <1>2, <1>5, <2>3, <2>4
  <2>6. ValidEnd' = v
    BY <2>1 DEF ValidEnd
  <2>7. Indices'
    <3>1. nStackRoots' = n
      BY <2>5 DEF nStackRoots
    <3>2. nValidStackRoots' = nValidStackRoots
      BY <1>1
    <3> QED
      BY <2>1, <2>3, <2>6, <3>1, <3>2, <1>2 DEF Indices
  <2>8. \A i \in 1 .. n :
          stackRoots'[i] = IF i = v THEN Root(iv) ELSE IF i = iv THEN stackRoots[v] ELSE stackRoots[i]
    BY <1>2, <1>5, <2>3
  <2>9. \A i \in 1 .. ValidEnd' : stackRoots'[i] \in Goroutine
    <3> SUFFICES ASSUME NEW i \in 1 .. v PROVE stackRoots'[i] \in Goroutine
      BY <2>6
    <3>1. i \in 1 .. n /\ (i = v \/ (i # v /\ i # iv /\ i \in 1 .. ValidEnd))
      BY <2>3, <1>2
    <3> QED
      BY <3>1, <2>4, <2>8 DEF RootsInv, Entries
  <2>10. \A i \in (ValidEnd' + 1) .. Len(stackRoots') :
           IsMasked(stackRoots'[i]) /\ gcUnmask(stackRoots'[i]) \in Goroutine
    <3> SUFFICES ASSUME NEW i \in (v + 1) .. n
                 PROVE IsMasked(stackRoots'[i]) /\ gcUnmask(stackRoots'[i]) \in Goroutine
      BY <2>5, <2>6
    <3>1. i \in 1 .. n /\ i # v /\ i \in (ValidEnd + 1) .. n
      BY <2>3, <1>2
    <3>2. v \in (ValidEnd + 1) .. n
      BY <2>3, <1>2
    <3>3. stackRoots'[i] \in {stackRoots[v], stackRoots[i]}
      BY <3>1, <2>8
    <3> QED
      BY <3>1, <3>2, <3>3 DEF RootsInv, Entries, Root
  <2> QED
    BY <2>2, <2>5, <2>7, <2>9, <2>10, <1>1, <1>2, LoopFrame
<1> QED
  BY <1>3, <1>4, <1>5

\* Steps that leave the entries where they are and make every unmasked one valid.
LEMMA SameEntries ==
  ASSUME RootsInv,
         UNCHANGED <<gcdetectdeadlocks, allgs, phase, markrootNext, stackRoots>>,
         phase = "mark",
         NEW label \in {"idle", "outer", "top", "barrier", "detect"}, NEW v \in Nat, NEW iv \in Nat,
         loop' = LoopAt(label, v, iv, FALSE),
         label \in {"outer", "detect"} => gcdetectdeadlocks # 0 /\ v = ValidEnd /\ iv = nStackRoots,
         nValidStackRoots' = ValidEnd
  PROVE RootsInv'
<1>1. /\ nStackRoots \in Nat /\ stackRoots \in Seq(Nat)
      /\ ValidEnd \in Nat /\ nValidStackRoots \in Nat
      /\ nValidStackRoots <= ValidEnd /\ ValidEnd <= nStackRoots
  BY LoopFacts DEF RootsInv, Indices, ValidEnd
<1>2. /\ loop'.at = label /\ loop'.v = v /\ loop'.iv = iv
      /\ loop' \in [at : LoopLabels, v : Nat, iv : Nat, found : BOOLEAN]
  BY DEF LoopAt, LoopLabels
<1>3. ValidEnd' = ValidEnd
  BY <1>2 DEF ValidEnd
<1>4. nStackRoots' = nStackRoots
  BY DEF nStackRoots
<1>5. Indices'
  <2>1. nValidStackRoots' <= ValidEnd' /\ ValidEnd' <= nStackRoots'
    BY <1>1, <1>3, <1>4
  <2>2. loop'.at # "inner"
    BY <1>2
  <2>3. loop'.at \in {"outer", "detect"} =>
          loop'.v = ValidEnd /\ loop'.iv = nStackRoots
    BY <1>2
  <2>4. loop'.at \in {"outer", "detect"} =>
          /\ nValidStackRoots' <= loop'.v /\ loop'.v <= loop'.iv
          /\ loop'.iv <= nStackRoots' /\ loop'.iv = nStackRoots'
    <3>1. /\ nValidStackRoots' <= ValidEnd /\ ValidEnd <= nStackRoots
          /\ nStackRoots <= nStackRoots' /\ nStackRoots = nStackRoots'
      BY <1>1, <1>4
    <3> QED
      BY <2>3, <3>1, Zenon
  <2>5. (loop.at \in {"outer", "inner"} => loop.v <= loop.iv /\ loop.iv <= nStackRoots)'
    BY <2>2, <2>4
  <2>6. (loop.at = "inner" => loop.v < loop.iv)'
    BY <2>2
  <2>7. (loop.at = "detect" => nValidStackRoots <= loop.v /\ loop.v <= loop.iv /\ loop.iv = nStackRoots)'
    BY <2>4
  <2> QED
    BY <2>1, <2>5, <2>6, <2>7 DEF Indices
<1>6. /\ \A i \in 1 .. ValidEnd' : stackRoots'[i] \in Goroutine
      /\ \A i \in (ValidEnd' + 1) .. Len(stackRoots') :
           IsMasked(stackRoots'[i]) /\ gcUnmask(stackRoots'[i]) \in Goroutine
  BY <1>3 DEF RootsInv, Entries, Root, nStackRoots
<1>7. stackRoots' \in Seq(Nat) /\ nValidStackRoots' \in Nat /\ nValidStackRoots <= nValidStackRoots'
  BY <1>1
<1>8. loop'.at \in {"outer", "inner", "detect"} => gcdetectdeadlocks # 0
  BY <1>2
<1> QED
  BY <1>2, <1>5, <1>6, <1>7, <1>8, LoopFrame

LEMMA SameEntriesStep ==
  ASSUME RootsInv, gcMarkDone \/ DiscoverPublish \/ MarkDoneReturns \/ PassBarrier \/ Restart \/ StopTheWorld \/ DetectResume
  PROVE RootsInv'
<1>1. UNCHANGED <<gcdetectdeadlocks, allgs, phase, markrootNext, stackRoots>>
  BY DEF gcMarkDone, DiscoverPublish, MarkDoneReturns, PassBarrier, Restart, StopTheWorld, DetectResume, notDiscover,
         notDetect, progVars, bounds, rootVars
<1>2. phase = "mark"
  BY DEF gcMarkDone, DiscoverPublish, MarkDoneReturns, PassBarrier, Restart, StopTheWorld, DetectResume,
         RootsInv, Phases
<1>3. nStackRoots \in Nat /\ ValidEnd \in Nat /\ nValidStackRoots \in Nat
  BY LoopFacts DEF ValidEnd
<1>4. CASE gcMarkDone
  <2>1. nValidStackRoots' = ValidEnd /\ ValidEnd = nValidStackRoots
    BY <1>4 DEF gcMarkDone, rootVars, ValidEnd
  <2>2. CASE gcdetectdeadlocks > 0
    <3>1. loop' = LoopAt("outer", ValidEnd, nStackRoots, FALSE) /\ gcdetectdeadlocks # 0
      BY <1>4, <2>1, <2>2 DEF gcMarkDone
    <3> QED
      BY <1>1, <1>2, <1>3, <2>1, <3>1, SameEntries
  <2>3. CASE ~(gcdetectdeadlocks > 0)
    <3>1. loop' = LoopAt("top", 0, 0, FALSE)
      BY <1>4, <2>3 DEF gcMarkDone, Top
    <3> QED
      BY <1>1, <1>2, <2>1, <3>1, SameEntries
  <2> QED
    BY <2>2, <2>3
<1>5. CASE DiscoverPublish
  <2>1. nValidStackRoots' = ValidEnd /\ loop' = LoopAt("top", 0, 0, FALSE)
    BY <1>5 DEF DiscoverPublish, ValidEnd, Top
  <2> QED
    BY <1>1, <1>2, <2>1, SameEntries
<1>6. CASE MarkDoneReturns \/ PassBarrier \/ Restart
  <2>1. /\ nValidStackRoots' = ValidEnd
        /\ \E label \in {"idle", "top", "barrier"} : loop' = LoopAt(label, 0, 0, FALSE)
    BY <1>6 DEF MarkDoneReturns, PassBarrier, Restart, rootVars, ValidEnd, Idle, Top
  <2> QED
    BY <1>1, <1>2, <2>1, SameEntries
<1>7. CASE StopTheWorld
  <2>1. /\ nValidStackRoots' = ValidEnd /\ loop' = LoopAt("detect", ValidEnd, nStackRoots, FALSE)
        /\ gcdetectdeadlocks # 0
    BY <1>7 DEF StopTheWorld, rootVars, ValidEnd
  <2> QED
    BY <1>1, <1>2, <1>3, <2>1, SameEntries
<1>8. CASE DetectResume
  <2>1. nValidStackRoots' = ValidEnd /\ loop' = LoopAt("top", 0, 0, FALSE)
    BY <1>8 DEF DetectResume, rootVars, ValidEnd, Top
  <2> QED
    BY <1>1, <1>2, <2>1, SameEntries
<1> QED
  BY <1>4, <1>5, <1>6, <1>7, <1>8

LEMMA DetectPassStep == ASSUME RootsInv, DetectPass PROVE RootsInv'
<1> DEFINE i == loop.v + 1
           n == nValidStackRoots + 1
           gp == Root(i)
<1>1. /\ loop.at = "detect" /\ loop.v < loop.iv
      /\ UNCHANGED <<gcdetectdeadlocks, allgs, phase, markrootNext>>
  BY DEF DetectPass, notDetect, progVars, bounds
<1>2. /\ phase = "mark" /\ gcdetectdeadlocks # 0
      /\ nValidStackRoots <= loop.v /\ loop.iv = nStackRoots /\ ValidEnd = nValidStackRoots
      /\ loop.v \in Nat /\ loop.iv \in Nat /\ loop.found \in BOOLEAN
      /\ nValidStackRoots \in Nat /\ nStackRoots \in Nat
      /\ stackRoots \in Seq(Nat) /\ Len(stackRoots) = nStackRoots
  BY <1>1, LoopFacts DEF RootsInv, Phases, Indices, ValidEnd
<1>3. i \in 1 .. nStackRoots /\ n \in 1 .. nStackRoots /\ n <= i
  BY <1>1, <1>2
<1>4. gp \in Goroutine /\ gp \in Nat
  BY <1>3, LoopFacts
<1>5. \/ loop' = LoopAt("detect", i, loop.iv, loop.found) /\ UNCHANGED rootVars
      \/ /\ stackRoots' = [stackRoots EXCEPT ![i] = stackRoots[n], ![n] = gp]
         /\ nValidStackRoots' = n
         /\ loop' = LoopAt("detect", i, loop.iv, TRUE)
  BY DEF DetectPass
<1>6. /\ loop'.at = "detect" /\ loop'.v = i /\ loop'.iv = loop.iv /\ i \in Nat
      /\ loop' \in [at : LoopLabels, v : Nat, iv : Nat, found : BOOLEAN]
  <2>1. PICK found \in BOOLEAN : loop' = LoopAt("detect", i, loop.iv, found)
    BY <1>2, <1>5
  <2>2. i \in Nat
    BY <1>2
  <2> HIDE DEF i
  <2> QED
    BY <1>2, <2>1, <2>2 DEF LoopAt, LoopLabels
<1>7. ValidEnd' = nValidStackRoots'
  BY <1>6 DEF ValidEnd
<1>8. CASE UNCHANGED rootVars
  <2>1. UNCHANGED <<stackRoots, nValidStackRoots>>
    BY <1>8 DEF rootVars
  <2>2. nStackRoots' = nStackRoots
    BY <2>1 DEF nStackRoots
  <2>3. Indices'
    BY <1>1, <1>2, <1>3, <1>6, <1>7, <2>1, <2>2 DEF Indices
  <2>4. /\ \A j \in 1 .. ValidEnd' : stackRoots'[j] \in Goroutine
        /\ \A j \in (ValidEnd' + 1) .. Len(stackRoots') :
             IsMasked(stackRoots'[j]) /\ gcUnmask(stackRoots'[j]) \in Goroutine
    BY <1>2, <1>7, <2>1 DEF RootsInv, Entries, Root, nStackRoots
  <2>5. stackRoots' \in Seq(Nat) /\ nValidStackRoots' \in Nat /\ nValidStackRoots <= nValidStackRoots'
    BY <1>2, <2>1
  <2> QED
    BY <1>1, <1>2, <1>6, <2>3, <2>4, <2>5, LoopFrame
<1>9. CASE /\ stackRoots' = [stackRoots EXCEPT ![i] = stackRoots[n], ![n] = gp]
           /\ nValidStackRoots' = n
  <2>1. stackRoots' \in Seq(Nat) /\ Len(stackRoots') = nStackRoots
    BY <1>2, <1>3, <1>4, <1>9
  <2>2. nStackRoots' = nStackRoots
    BY <2>1 DEF nStackRoots
  <2>3. Indices'
    BY <1>1, <1>2, <1>3, <1>6, <1>7, <1>9, <2>2 DEF Indices
  <2>4. \A j \in 1 .. nStackRoots :
          stackRoots'[j] = IF j = n THEN gp ELSE IF j = i THEN stackRoots[n] ELSE stackRoots[j]
    BY <1>2, <1>3, <1>9
  <2>5. \A j \in 1 .. ValidEnd' : stackRoots'[j] \in Goroutine
    <3> SUFFICES ASSUME NEW j \in 1 .. n PROVE stackRoots'[j] \in Goroutine
      BY <1>7, <1>9
    <3>1. j \in 1 .. nStackRoots /\ (j = n \/ (j # n /\ j # i /\ j \in 1 .. ValidEnd))
      BY <1>2, <1>3
    <3> QED
      BY <3>1, <1>4, <2>4 DEF RootsInv, Entries
  <2>6. \A j \in (ValidEnd' + 1) .. Len(stackRoots') :
          IsMasked(stackRoots'[j]) /\ gcUnmask(stackRoots'[j]) \in Goroutine
    <3> SUFFICES ASSUME NEW j \in (n + 1) .. nStackRoots
                 PROVE IsMasked(stackRoots'[j]) /\ gcUnmask(stackRoots'[j]) \in Goroutine
      BY <1>7, <1>9, <2>1
    <3>1. j \in 1 .. nStackRoots /\ j # n /\ j \in (ValidEnd + 1) .. nStackRoots
      BY <1>2, <1>3
    <3>2. n \in (ValidEnd + 1) .. nStackRoots
      BY <1>2, <1>3
    <3>3. stackRoots'[j] \in {stackRoots[n], stackRoots[j]}
      BY <3>1, <2>4
    <3> QED
      BY <3>1, <3>2, <3>3 DEF RootsInv, Entries, Root
  <2>7. nValidStackRoots' \in Nat /\ nValidStackRoots <= nValidStackRoots'
    BY <1>2, <1>9
  <2> QED
    BY <1>1, <1>2, <1>6, <2>1, <2>3, <2>5, <2>6, <2>7, LoopFrame
<1> QED
  BY <1>5, <1>8, <1>9

LEMMA DetectReportStep == ASSUME RootsInv, DetectReport PROVE RootsInv'
<1>1. /\ loop.at = "detect" /\ loop' = LoopAt("top", 0, 0, FALSE)
      /\ stackRoots' = [j \in DOMAIN stackRoots |-> Root(j)]
      /\ nValidStackRoots' = nStackRoots /\ markrootNext' = 1 + nStackRoots
      /\ UNCHANGED <<gcdetectdeadlocks, allgs, phase>>
  BY DEF DetectReport, Top, bounds
<1>2. /\ phase = "mark" /\ stackRoots \in Seq(Nat) /\ nStackRoots = Len(stackRoots)
      /\ nStackRoots \in Nat
      /\ \A j \in 1 .. nStackRoots : Root(j) \in Goroutine /\ Root(j) \in Nat
  BY <1>1, LoopFacts DEF RootsInv, Phases
<1>3. /\ loop'.at = "top"
      /\ loop' \in [at : LoopLabels, v : Nat, iv : Nat, found : BOOLEAN]
  BY <1>1 DEF LoopAt, LoopLabels
<1>4. stackRoots' = [j \in 1 .. nStackRoots |-> Root(j)]
  BY <1>1, <1>2
<1>5. /\ stackRoots' \in Seq(Nat) /\ Len(stackRoots') = nStackRoots
      /\ \A j \in 1 .. nStackRoots : stackRoots'[j] \in Goroutine
  BY <1>2, <1>4
<1>6. nStackRoots' = nStackRoots /\ ValidEnd' = nStackRoots
  BY <1>1, <1>3, <1>5 DEF nStackRoots, ValidEnd
<1>7. Phases'
  BY <1>1, <1>2, <1>3 DEF RootsInv, Phases
<1>8. Tables'
  <2>1. MaskedGs' = MaskedGs
    BY <1>1, MaskedAllgsFrame
  <2> QED
    BY <1>1, <1>2, <1>5, <2>1 DEF RootsInv, Tables
<1>9. Indices'
  <2>1. loop'.at \notin {"outer", "inner", "detect"}
    BY <1>3
  <2>2. nValidStackRoots' = nStackRoots
    BY <1>1
  <2> QED
    BY <1>2, <1>6, <2>1, <2>2 DEF Indices
<1>10. Entries'
  BY <1>1, <1>2, <1>5, <1>6 DEF Entries
<1> QED
  BY <1>7, <1>8, <1>9, <1>10 DEF RootsInv

LEMMA MarkTerminationStep == ASSUME RootsInv, MarkTermination PROVE RootsInv'
<1>1. /\ loop' = LoopAt("idle", 0, 0, FALSE) /\ stackRoots' = <<>> /\ nValidStackRoots' = 0
      /\ markrootNext' = 0 /\ phase' = "off" /\ UNCHANGED <<gcdetectdeadlocks, allgs>>
  BY DEF MarkTermination, Idle, progVars, bounds
<1>2. /\ loop'.at = "idle"
      /\ loop' \in [at : LoopLabels, v : Nat, iv : Nat, found : BOOLEAN]
  BY <1>1 DEF LoopAt, LoopLabels
<1>3. nStackRoots' = 0 /\ ValidEnd' = 0
  BY <1>1, <1>2 DEF nStackRoots, ValidEnd
<1>4. Phases'
  BY <1>1, <1>2 DEF RootsInv, Phases
<1>5. Tables'
  <2>1. MaskedGs' = MaskedGs
    BY <1>1, MaskedAllgsFrame
  <2> QED
    BY <1>1, <2>1 DEF RootsInv, Tables
<1>6. Indices'
  <2>1. loop'.at \notin {"outer", "inner", "detect"} /\ nValidStackRoots' = 0
    BY <1>1, <1>2
  <2> QED
    BY <1>3, <2>1 DEF Indices
<1>7. Entries'
  BY <1>1, <1>3 DEF Entries
<1> QED
  BY <1>4, <1>5, <1>6, <1>7 DEF RootsInv

LEMMA RootsInvStutter == ASSUME RootsInv, UNCHANGED vars PROVE RootsInv'
<1>1. /\ UNCHANGED <<gcdetectdeadlocks, phase, loop, stackRoots, nValidStackRoots, allgs>>
      /\ markrootNext' = markrootNext
  BY DEF vars, rootVars, progVars, bounds
<1> QED
  BY <1>1, MaskedAllgsFrame, RootsInvFrame DEF RootsInv, Tables, Entries

LEMMA RootsInvStep == ASSUME RootsInv, [Next]_vars PROVE RootsInv'
  BY MutatorStep, MarkStep, StartStep, DiscoverFirstStep, DiscoverSwapStep, SameEntriesStep,
     DetectPassStep, DetectReportStep, MarkTerminationStep, RootsInvStutter DEF Next, Detecting

-----------------------------------------------------------------------------
(* Whatever goroutines do while the entries of work.stackRoots are tested  *)
(* and swapped, the entries that markroot takes for addresses are          *)
(* addresses and the others are masked: the property of gcMarkRootPrepare, *)
(* gcDiscoverMoreStackRoots and detectPartialDeadlocks.                    *)
THEOREM PartitionedHolds == Spec => []Partitioned
<1>1. Init => RootsInv
  BY RootsInvInit
<1>2. RootsInv /\ [Next]_vars => RootsInv'
  BY RootsInvStep
<1>3. RootsInv => Partitioned
  <2> SUFFICES ASSUME RootsInv PROVE Partitioned
    OBVIOUS
  <2>1. nValidStackRoots \in Nat /\ markrootNext \in Nat
    BY DEF RootsInv, Tables
  <2> QED
    BY <2>1 DEF RootsInv, Indices, Entries, ValidEnd, Partitioned
<1> QED
  BY <1>1, <1>2, <1>3, PTL DEF Spec

-----------------------------------------------------------------------------
(* No g struct is freed while detection is on.  Every cycle starts with    *)
(* the goroutines of allgs in stackRoots, none is lost while the entries   *)
(* are reordered, storing an entry unmasked marks it, and the cycle does   *)
(* not end before all are unmasked.                                        *)
RootSet == {Root(i) : i \in 1 .. nStackRoots}

Covered ==
  phase = "mark" =>
    /\ \A j \in 1 .. ValidEnd : stackRoots[j] \in marked
    /\ \A i \in 1 .. Len(allgs) : gcUnmask(allgs[i]) \in marked \cup RootSet
    /\ detectedDeadlocks => nValidStackRoots = nStackRoots

AliveInv ==
  /\ RootsInv
  /\ gcdetectdeadlocks # 0
  /\ Covered
  /\ freed \cap Goroutine = {}

\* Steps that leave allgs alone, forget no mark and lose no entry.
LEMMA CoveredFrame ==
  ASSUME AliveInv, UNCHANGED <<phase, allgs>>, marked \subseteq marked', RootSet \subseteq RootSet',
         phase = "mark" => \A j \in 1 .. ValidEnd' : stackRoots'[j] \in marked',
         phase = "mark" => (detectedDeadlocks' => nValidStackRoots' = nStackRoots')
  PROVE Covered'
<1>1. ASSUME phase = "mark", NEW i \in 1 .. Len(allgs)
      PROVE gcUnmask(allgs'[i]) \in marked' \cup RootSet'
  <2>1. gcUnmask(allgs[i]) \in marked \cup RootSet
    BY <1>1 DEF AliveInv, Covered
  <2>2. gcUnmask(allgs'[i]) = gcUnmask(allgs[i])
    BY DEF gcUnmask
  <2> QED
    BY <2>1, <2>2
<1> QED
  BY <1>1 DEF Covered

\* An accepted entry i takes place n, and the one that was there place i.
LEMMA Accept ==
  ASSUME AliveInv, phase = "mark", UNCHANGED <<phase, allgs>>,
         NEW n \in 1 .. nStackRoots, NEW i \in 1 .. nStackRoots, n = ValidEnd + 1,
         Len(stackRoots') = nStackRoots,
         \A j \in 1 .. nStackRoots :
           stackRoots'[j] = IF j = n THEN Root(i) ELSE IF j = i THEN stackRoots[n] ELSE stackRoots[j],
         ValidEnd' = n, n <= i, marked' = marked \cup {Root(i)},
         detectedDeadlocks' => nValidStackRoots' = nStackRoots'
  PROVE Covered'
<1>1. nStackRoots' = nStackRoots /\ nStackRoots \in Nat /\ ValidEnd \in Nat
  BY LoopFacts DEF nStackRoots, AliveInv, ValidEnd
<1>2. Root(i) \in Goroutine /\ gcUnmask(Root(i)) = Root(i)
  BY RootIsG, MaskedRoundTrip DEF AliveInv
<1>3. ASSUME NEW j \in 1 .. nStackRoots PROVE Root(j) \in RootSet'
  <2>1. RootSet' = {gcUnmask(stackRoots'[m]) : m \in 1 .. nStackRoots}
    BY <1>1 DEF RootSet, Root, gcUnmask
  <2>2. CASE j = i
    BY <2>1, <2>2, <1>2
  <2>3. CASE j = n /\ n # i
    BY <2>1, <2>3 DEF Root
  <2>4. CASE j # n /\ j # i
    BY <2>1, <2>4 DEF Root
  <2> QED
    BY <2>2, <2>3, <2>4
<1>4. RootSet \subseteq RootSet'
  BY <1>3 DEF RootSet
<1>5. ASSUME NEW j \in 1 .. ValidEnd' PROVE stackRoots'[j] \in marked'
  <2>1. j = n \/ (j \in 1 .. ValidEnd /\ j # n /\ j # i)
    BY <1>1
  <2>2. j \in 1 .. nStackRoots
    BY <1>1
  <2> QED
    BY <2>1, <2>2 DEF AliveInv, Covered
<1> QED
  BY <1>4, <1>5, CoveredFrame

\* Steps that change neither entries nor marks but for adding some.
LEMMA SameRoots ==
  ASSUME AliveInv, UNCHANGED <<phase, allgs, stackRoots, detectedDeadlocks>>,
         marked \subseteq marked', ValidEnd' = ValidEnd,
         phase = "mark" => nValidStackRoots <= nValidStackRoots' /\ nValidStackRoots' <= nStackRoots
                           /\ nValidStackRoots' \in Nat
  PROVE Covered'
<1>1. RootSet' = RootSet /\ nStackRoots' = nStackRoots
  BY DEF RootSet, Root, nStackRoots, gcUnmask
<1>2. phase = "mark" => \A j \in 1 .. ValidEnd' : stackRoots'[j] \in marked'
  BY DEF AliveInv, Covered
<1>3. phase = "mark" => (detectedDeadlocks' => nValidStackRoots' = nStackRoots')
  <2>1. /\ nStackRoots \in Nat /\ nValidStackRoots \in Nat
        /\ phase = "mark" /\ detectedDeadlocks => nValidStackRoots = nStackRoots
    BY LoopFacts DEF AliveInv, Covered
  <2>2. detectedDeadlocks' => detectedDeadlocks
    BY Zenon
  <2> QED
    BY <1>1, <2>1, <2>2
<1> QED
  BY <1>1, <1>2, <1>3, CoveredFrame

LEMMA AliveMutator == ASSUME AliveInv, Mutator PROVE Covered' /\ freed' \subseteq freed
<1>1. /\ UNCHANGED <<gcdetectdeadlocks, phase, loop, stackRoots, nValidStackRoots, detectedDeadlocks>>
  BY DEF Mutator, rootVars
<1>2. PICK g \in Goroutine : Mutate(g)
  BY DEF Mutator
<1>3. freed' \subseteq freed
  BY <1>2 DEF Mutate, LoadGlobal, Forget, Park, Wake, Goexit, Go
<1>4. phase = "mark" => marked \subseteq marked'
  BY <1>2 DEF Mutate, WriteBarrier, Shade
<1>5. CASE phase # "mark"
  BY <1>1, <1>3, <1>5 DEF Covered
<1>6. CASE phase = "mark"
  <2>1. ValidEnd' = ValidEnd /\ RootSet' = RootSet
    BY <1>1 DEF ValidEnd, RootSet, Root, nStackRoots, gcUnmask
  <2>2. \/ UNCHANGED allgs
        \/ \E h \in Goroutine : allgs' = Append(allgs, gcMask(h)) /\ h \in marked'
    BY <1>2, <1>6 DEF Mutate, LoadGlobal, Forget, Park, Wake, Goexit, Go
  <2>3. ASSUME NEW i \in 1 .. Len(allgs') PROVE gcUnmask(allgs'[i]) \in marked' \cup RootSet'
    <3>1. allgs \in Seq(MaskedGs) /\ Len(allgs) \in Nat
      BY DEF AliveInv, RootsInv, Tables
    <3>2. CASE i \in 1 .. Len(allgs) /\ allgs'[i] = allgs[i]
      <4>1. gcUnmask(allgs[i]) \in marked \cup RootSet
        BY <1>6, <3>2 DEF AliveInv, Covered
      <4> QED
        BY <4>1, <3>2, <2>1, <1>4, <1>6 DEF gcUnmask
    <3>3. CASE \E h \in Goroutine : allgs'[i] = gcMask(h) /\ h \in marked'
      BY <3>3, MaskOfG
    <3>4. \/ i \in 1 .. Len(allgs) /\ allgs'[i] = allgs[i]
          \/ \E h \in Goroutine : allgs'[i] = gcMask(h) /\ h \in marked'
      <4>1. CASE UNCHANGED allgs
        BY <4>1
      <4>2. ASSUME NEW h \in Goroutine, allgs' = Append(allgs, gcMask(h)), h \in marked'
            PROVE \/ i \in 1 .. Len(allgs) /\ allgs'[i] = allgs[i]
                  \/ allgs'[i] = gcMask(h)
        <5>1. gcMask(h) \in MaskedGs
          BY DEF MaskedGs
        <5>2. Len(allgs') = Len(allgs) + 1
          BY <3>1, <4>2, <5>1
        <5> QED
          BY <3>1, <4>2, <5>1, <5>2
      <4> QED
        BY <2>2, <4>1, <4>2
    <3> QED
      BY <3>2, <3>3, <3>4
  <2>4. /\ \A j \in 1 .. ValidEnd' : stackRoots'[j] \in marked'
        /\ detectedDeadlocks' => nValidStackRoots' = nStackRoots'
    <3>1. nStackRoots' = nStackRoots
      BY <1>1 DEF nStackRoots
    <3>2. detectedDeadlocks' => detectedDeadlocks
      BY <1>1, Zenon
    <3>3. /\ \A j \in 1 .. ValidEnd : stackRoots[j] \in marked
          /\ detectedDeadlocks => nValidStackRoots = nStackRoots
      BY <1>6 DEF AliveInv, Covered
    <3> QED
      BY <1>1, <1>4, <1>6, <2>1, <3>1, <3>2, <3>3
  <2> QED
    BY <1>3, <2>3, <2>4 DEF Covered
<1> QED
  BY <1>5, <1>6

LEMMA AliveMark ==
  ASSUME AliveInv, MarkGlobals \/ MarkStack \/ \E obj \in grey : ScanObject(obj)
  PROVE Covered'
<1>1. /\ UNCHANGED <<phase, allgs, stackRoots, detectedDeadlocks, loop, nValidStackRoots>>
      /\ marked \subseteq marked'
  BY DEF MarkGlobals, MarkStack, ScanObject, Shade, unscanned, progVars, rootVars
<1>2. ValidEnd' = ValidEnd
  BY <1>1 DEF ValidEnd
<1>3. /\ nValidStackRoots <= nValidStackRoots' /\ nValidStackRoots' <= nStackRoots
      /\ nValidStackRoots' \in Nat
  <2>1. nStackRoots \in Nat /\ nValidStackRoots \in Nat /\ ValidEnd \in Nat
    BY LoopFacts DEF AliveInv, ValidEnd
  <2>2. nValidStackRoots <= ValidEnd /\ ValidEnd <= nStackRoots
    BY DEF AliveInv, RootsInv, Indices
  <2> QED
    BY <1>1, <2>1, <2>2
<1> QED
  BY <1>1, <1>2, <1>3, SameRoots

\* gcMarkRootPrepare: the snapshot holds every goroutine of allgs.
LEMMA AliveStart == ASSUME AliveInv, gcStart, RootsInv' PROVE Covered'
<1>1. /\ UNCHANGED <<allgs, loop>> /\ loop.at = "idle" /\ detectedDeadlocks' = FALSE
  BY DEF gcStart, AliveInv, RootsInv, Phases, progVars
<1>2. PICK p \in Permutations(Len(allgs)), k \in 0 .. Len(allgs) :
        /\ SnapshotOrder(p, k)
        /\ stackRoots' = Snapshot(p, k) /\ nValidStackRoots' = k
        /\ marked' = Refs(Snapshot(p, k))
  BY DEF gcStart, AliveInv
<1>3. /\ p \in [1 .. Len(allgs) -> 1 .. Len(allgs)] /\ Len(allgs) \in Nat
      /\ \A i \in 1 .. Len(allgs) : \E j \in 1 .. Len(allgs) : p[j] = i
  BY DEF Permutations, AliveInv, RootsInv, Tables
<1>4. /\ nStackRoots' = Len(allgs) /\ ValidEnd' = k
      /\ DOMAIN stackRoots' = 1 .. Len(allgs)
      /\ \A j \in 1 .. Len(allgs) :
           stackRoots'[j] = LET gp == gcUnmask(allgs[p[j]]) IN IF j <= k THEN gp ELSE gcMask(gp)
  BY <1>1, <1>2, <1>3 DEF Snapshot, nStackRoots, ValidEnd
<1>5. ASSUME NEW j \in 1 .. ValidEnd' PROVE stackRoots'[j] \in marked'
  <2>1. stackRoots'[j] \in Goroutine
    BY DEF RootsInv, Entries
  <2>2. stackRoots'[j] # Nil /\ ~IsMasked(stackRoots'[j])
    <3>1. 0 \notin Goroutine
      BY AddressAssumption
    <3> QED
      BY <2>1, <3>1, MaskedRoundTrip DEF Nil
  <2>3. j \in DOMAIN stackRoots'
    BY <1>3, <1>4
  <2>4. stackRoots'[j] \in Refs(stackRoots')
    BY <2>2, <2>3 DEF Refs
  <2>5. marked' = Refs(stackRoots')
    BY <1>2, Zenon
  <2> QED
    BY <2>4, <2>5
<1>6. ASSUME NEW i \in 1 .. Len(allgs) PROVE gcUnmask(allgs'[i]) \in RootSet'
  <2>1. PICK j \in 1 .. Len(allgs) : p[j] = i
    BY <1>3
  <2>2. gcUnmask(allgs[i]) \in Goroutine
    BY AllgsEntries DEF AliveInv, RootsInv
  <2>3. gcUnmask(stackRoots'[j]) = gcUnmask(allgs[i])
    BY <2>1, <2>2, <1>4, MaskOfG, MaskedRoundTrip
  <2>4. gcUnmask(stackRoots'[j]) \in RootSet'
    BY <1>4 DEF RootSet, Root, gcUnmask
  <2> QED
    BY <2>3, <2>4, <1>1 DEF gcUnmask
<1> QED
  BY <1>1, <1>5, <1>6 DEF Covered

LEMMA AliveSameEntries ==
  ASSUME AliveInv, RootsInv',
         gcMarkDone \/ DiscoverPublish \/ MarkDoneReturns \/ PassBarrier \/ Restart \/ StopTheWorld \/ DetectResume
  PROVE Covered'
<1>1. UNCHANGED <<phase, allgs, stackRoots, detectedDeadlocks, marked>>
  BY DEF gcMarkDone, DiscoverPublish, MarkDoneReturns, PassBarrier, Restart, StopTheWorld, DetectResume, notDiscover,
         notDetect, progVars, rootVars
<1>2. nValidStackRoots' = ValidEnd
  BY DEF gcMarkDone, DiscoverPublish, MarkDoneReturns, PassBarrier, Restart, StopTheWorld, DetectResume,
         rootVars, ValidEnd
<1>3. loop'.at \in {"idle", "outer", "top", "barrier", "detect"} /\ (loop'.at = "outer" => loop'.v = ValidEnd)
  BY DEF gcMarkDone, DiscoverPublish, MarkDoneReturns, PassBarrier, Restart, StopTheWorld, DetectResume,
         LoopAt, Idle, Top, ValidEnd
<1>4. ValidEnd' = ValidEnd
  BY <1>2, <1>3 DEF ValidEnd
<1>5. nStackRoots \in Nat /\ nValidStackRoots \in Nat /\ ValidEnd \in Nat
  BY LoopFacts DEF AliveInv, ValidEnd
<1>6. nValidStackRoots <= ValidEnd /\ ValidEnd <= nStackRoots
  BY DEF AliveInv, RootsInv, Indices
<1> QED
  BY <1>1, <1>2, <1>4, <1>5, <1>6, SameRoots

LEMMA AliveTermination ==
  ASSUME AliveInv, MarkTermination
  PROVE Covered' /\ freed' \cap Goroutine = {}
<1>1. /\ phase = "mark" /\ loop.at = "barrier" /\ detectedDeadlocks
      /\ phase' = "off" /\ freed' = freed \cup (InUse \ marked)
  BY DEF MarkTermination, AliveInv, RootsInv, Phases
<1>2. Covered'
  BY <1>1 DEF Covered
<1>3. nValidStackRoots = nStackRoots /\ ValidEnd = nStackRoots
  BY <1>1 DEF AliveInv, Covered, ValidEnd
<1>4. RootSet \subseteq marked
  <2>1. ASSUME NEW j \in 1 .. nStackRoots PROVE Root(j) \in marked
    <3>1. stackRoots[j] \in marked
      BY <1>1, <1>3 DEF AliveInv, Covered
    <3>2. stackRoots[j] \in Goroutine
      BY <1>3 DEF AliveInv, RootsInv, Entries
    <3> QED
      BY <3>1, <3>2, MaskedRoundTrip DEF Root
  <2> QED
    BY <2>1 DEF RootSet
<1>5. \A i \in 1 .. Len(allgs) : gcUnmask(allgs[i]) \in marked
  BY <1>1, <1>4 DEF AliveInv, Covered
<1>6. DOMAIN allgs = 1 .. Len(allgs)
  BY DEF AliveInv, RootsInv, Tables
<1>7. \A s \in Sudog : s \notin Goroutine
  BY AddressAssumption
<1>8. (InUse \ marked) \cap Goroutine = {}
  BY <1>5, <1>6, <1>7 DEF InUse, Sudog
<1> QED
  BY <1>1, <1>2, <1>8 DEF AliveInv

\* The entry at loop.v + 1 is valid as it is.
LEMMA AliveFirst == ASSUME AliveInv, DiscoverFirst, RootsInv' PROVE Covered'
<1> DEFINE n == loop.v + 1
<1>1. /\ loop.at = "outer" /\ loop.v < loop.iv
      /\ UNCHANGED <<phase, allgs, nValidStackRoots, detectedDeadlocks>>
  BY DEF DiscoverFirst, notDiscover, progVars
<1>2. /\ phase = "mark" /\ loop.iv <= nStackRoots /\ ValidEnd = loop.v
      /\ nValidStackRoots <= ValidEnd
  BY <1>1 DEF AliveInv, RootsInv, Phases, Indices, ValidEnd
<1>3. /\ stackRoots \in Seq(Nat) /\ nStackRoots = Len(stackRoots) /\ nStackRoots \in Nat
      /\ loop.v \in Nat /\ loop.iv \in Nat /\ nValidStackRoots \in Nat
  BY LoopFacts DEF AliveInv
<1>4. n \in 1 .. nStackRoots
  BY <1>1, <1>2, <1>3
<1>5. \/ /\ stackRoots' = [stackRoots EXCEPT ![n] = Root(n)]
         /\ marked' = marked \cup {Root(n)}
         /\ loop' = LoopAt("outer", n, loop.iv, FALSE)
      \/ /\ loop' = LoopAt("inner", loop.v, loop.iv, FALSE)
         /\ UNCHANGED <<stackRoots, marked>>
  BY DEF DiscoverFirst, StoreRoot, Shade
<1>6. detectedDeadlocks' => nValidStackRoots' = nStackRoots
  BY <1>1, <1>2, Zenon DEF AliveInv, Covered
<1>7. CASE /\ stackRoots' = [stackRoots EXCEPT ![n] = Root(n)]
           /\ marked' = marked \cup {Root(n)}
           /\ loop' = LoopAt("outer", n, loop.iv, FALSE)
  <2>1. ValidEnd' = n
    BY <1>7 DEF ValidEnd, LoopAt
  <2>2. /\ Len(stackRoots') = nStackRoots
        /\ \A j \in 1 .. nStackRoots :
             stackRoots'[j] = IF j = n THEN Root(n) ELSE IF j = n THEN stackRoots[n] ELSE stackRoots[j]
    BY <1>3, <1>4, <1>7
  <2>3. n <= n /\ n = ValidEnd + 1 /\ nStackRoots' = nStackRoots
    BY <1>2, <1>3, <2>2 DEF nStackRoots
  <2> QED
    BY <1>1, <1>2, <1>4, <1>6, <1>7, <2>1, <2>2, <2>3, Accept
<1>8. CASE /\ loop' = LoopAt("inner", loop.v, loop.iv, FALSE)
           /\ UNCHANGED <<stackRoots, marked>>
  <2>1. ValidEnd' = ValidEnd
    BY <1>2, <1>8 DEF ValidEnd, LoopAt
  <2>2. nValidStackRoots' \in Nat /\ nValidStackRoots <= nValidStackRoots' /\ nValidStackRoots' <= nStackRoots
    BY <1>1, <1>2, <1>3
  <2> QED
    BY <1>1, <1>8, <2>1, <2>2, SameRoots
<1> QED
  BY <1>5, <1>7, <1>8

LEMMA AliveSwap == ASSUME AliveInv, DiscoverSwap, RootsInv' PROVE Covered'
<1> DEFINE n == loop.v + 1
           i == loop.iv
<1>1. /\ loop.at = "inner"
      /\ UNCHANGED <<phase, allgs, nValidStackRoots, detectedDeadlocks>>
  BY DEF DiscoverSwap, notDiscover, progVars
<1>2. /\ phase = "mark" /\ loop.v < loop.iv /\ loop.iv <= nStackRoots /\ ValidEnd = loop.v
      /\ nValidStackRoots <= ValidEnd
  BY <1>1 DEF AliveInv, RootsInv, Phases, Indices, ValidEnd
<1>3. /\ stackRoots \in Seq(Nat) /\ nStackRoots = Len(stackRoots) /\ nStackRoots \in Nat
      /\ loop.v \in Nat /\ loop.iv \in Nat /\ nValidStackRoots \in Nat
  BY LoopFacts DEF AliveInv
<1>4. n \in 1 .. nStackRoots /\ i \in 1 .. nStackRoots /\ n <= i
  BY <1>1, <1>2, <1>3
<1>5. \/ /\ stackRoots' = [stackRoots EXCEPT ![i] = stackRoots[n], ![n] = Root(i)]
         /\ marked' = marked \cup {Root(i)}
         /\ loop' = LoopAt("outer", n, i - 1, FALSE)
      \/ /\ \E label \in {"outer", "inner"} : loop' = LoopAt(label, loop.v, i - 1, FALSE)
         /\ UNCHANGED <<stackRoots, marked>>
  BY DEF DiscoverSwap, StoreRoot, Shade
<1>6. detectedDeadlocks' => nValidStackRoots' = nStackRoots
  BY <1>1, <1>2, Zenon DEF AliveInv, Covered
<1>7. CASE /\ stackRoots' = [stackRoots EXCEPT ![i] = stackRoots[n], ![n] = Root(i)]
           /\ marked' = marked \cup {Root(i)}
           /\ loop' = LoopAt("outer", n, i - 1, FALSE)
  <2>1. ValidEnd' = n
    BY <1>7 DEF ValidEnd, LoopAt
  <2>2. /\ Len(stackRoots') = nStackRoots
        /\ \A j \in 1 .. nStackRoots :
             stackRoots'[j] = IF j = n THEN Root(i) ELSE IF j = i THEN stackRoots[n] ELSE stackRoots[j]
    BY <1>3, <1>4, <1>7
  <2>3. n = ValidEnd + 1 /\ nStackRoots' = nStackRoots
    BY <1>2, <1>3, <2>2 DEF nStackRoots
  <2> QED
    BY <1>1, <1>2, <1>4, <1>6, <1>7, <2>1, <2>2, <2>3, Accept
<1>8. CASE /\ \E label \in {"outer", "inner"} : loop' = LoopAt(label, loop.v, i - 1, FALSE)
           /\ UNCHANGED <<stackRoots, marked>>
  <2>1. ValidEnd' = ValidEnd
    BY <1>2, <1>8 DEF ValidEnd, LoopAt
  <2>2. nValidStackRoots' \in Nat /\ nValidStackRoots <= nValidStackRoots' /\ nValidStackRoots' <= nStackRoots
    BY <1>1, <1>2, <1>3
  <2> QED
    BY <1>1, <1>8, <2>1, <2>2, SameRoots
<1> QED
  BY <1>5, <1>7, <1>8

LEMMA AlivePass == ASSUME AliveInv, DetectPass, RootsInv' PROVE Covered'
<1> DEFINE n == nValidStackRoots + 1
           i == loop.v + 1
<1>1. /\ loop.at = "detect" /\ loop.v < loop.iv
      /\ UNCHANGED <<phase, allgs, detectedDeadlocks>>
  BY DEF DetectPass, notDetect, progVars
<1>2. /\ phase = "mark" /\ nValidStackRoots <= loop.v /\ loop.iv = nStackRoots
      /\ ValidEnd = nValidStackRoots
  BY <1>1 DEF AliveInv, RootsInv, Phases, Indices, ValidEnd
<1>3. /\ stackRoots \in Seq(Nat) /\ nStackRoots = Len(stackRoots) /\ nStackRoots \in Nat
      /\ loop.v \in Nat /\ loop.iv \in Nat /\ nValidStackRoots \in Nat
  BY LoopFacts DEF AliveInv
<1>4. n \in 1 .. nStackRoots /\ i \in 1 .. nStackRoots /\ n <= i
  BY <1>1, <1>2, <1>3
<1>5. \/ /\ stackRoots' = [stackRoots EXCEPT ![i] = stackRoots[n], ![n] = Root(i)]
         /\ nValidStackRoots' = n
         /\ marked' = marked \cup {Root(i)}
      \/ UNCHANGED <<stackRoots, marked, nValidStackRoots>>
  BY DEF DetectPass, StoreRoot, Shade, rootVars
<1>6. ValidEnd' = nValidStackRoots'
  <2>1. \E found : loop' = LoopAt("detect", i, loop.iv, found)
    BY DEF DetectPass
  <2>2. loop'.at = "detect"
    BY <2>1 DEF LoopAt
  <2> QED
    BY <2>2 DEF ValidEnd
<1>7. ~detectedDeadlocks'
  <2>1. nValidStackRoots # nStackRoots
    BY <1>1, <1>2, <1>3
  <2>2. ~detectedDeadlocks
    BY <1>2, <2>1 DEF AliveInv, Covered
  <2> QED
    BY <1>1, <2>2, Zenon
<1>8. CASE /\ stackRoots' = [stackRoots EXCEPT ![i] = stackRoots[n], ![n] = Root(i)]
           /\ nValidStackRoots' = n
           /\ marked' = marked \cup {Root(i)}
  <2>1. /\ Len(stackRoots') = nStackRoots
        /\ \A j \in 1 .. nStackRoots :
             stackRoots'[j] = IF j = n THEN Root(i) ELSE IF j = i THEN stackRoots[n] ELSE stackRoots[j]
    BY <1>3, <1>4, <1>8
  <2>2. n = ValidEnd + 1
    BY <1>2, <1>3
  <2> QED
    BY <1>1, <1>2, <1>4, <1>6, <1>7, <1>8, <2>1, <2>2, Accept
<1>9. CASE UNCHANGED <<stackRoots, marked, nValidStackRoots>>
  <2>1. ValidEnd' = ValidEnd
    BY <1>2, <1>6, <1>9
  <2>2. nValidStackRoots' \in Nat /\ nValidStackRoots <= nValidStackRoots' /\ nValidStackRoots' <= nStackRoots
    BY <1>1, <1>2, <1>3, <1>9
  <2> QED
    BY <1>1, <1>9, <2>1, <2>2, SameRoots
<1> QED
  BY <1>5, <1>8, <1>9

LEMMA AliveReport == ASSUME AliveInv, DetectReport, RootsInv' PROVE Covered'
<1>1. /\ loop.at = "detect"
      /\ stackRoots' = [j \in DOMAIN stackRoots |-> Root(j)]
      /\ nValidStackRoots' = nStackRoots
      /\ loop' = LoopAt("top", 0, 0, FALSE)
      /\ UNCHANGED <<phase, allgs>>
  BY DEF DetectReport, Top
<1>2. /\ phase = "mark" /\ ValidEnd = nValidStackRoots
      /\ stackRoots \in Seq(Nat) /\ nStackRoots = Len(stackRoots) /\ nStackRoots \in Nat
      /\ nValidStackRoots \in Nat /\ nValidStackRoots <= nStackRoots
  BY <1>1, LoopFacts DEF AliveInv, RootsInv, Phases, Indices, ValidEnd
<1>3. marked \cup Rest \subseteq marked'
  BY DEF DetectReport, Shade
<1>4. /\ nStackRoots' = nStackRoots
      /\ \A j \in 1 .. nStackRoots : stackRoots'[j] = Root(j)
  BY <1>1, <1>2 DEF nStackRoots
<1>5. ValidEnd' = nStackRoots
  BY <1>1 DEF ValidEnd, LoopAt
<1>6. \A j \in 1 .. nStackRoots : Root(j) \in Goroutine /\ gcUnmask(Root(j)) = Root(j)
  BY RootIsG, MaskedRoundTrip DEF AliveInv
<1>7. ASSUME NEW j \in 1 .. nStackRoots PROVE Root(j) \in marked'
  <2>1. CASE j \in 1 .. nValidStackRoots
    <3>1. stackRoots[j] \in marked /\ stackRoots[j] \in Goroutine
      BY <1>2, <2>1 DEF AliveInv, Covered, RootsInv, Entries
    <3>2. Root(j) = stackRoots[j]
      BY <3>1, MaskedRoundTrip DEF Root
    <3> QED
      BY <1>3, <3>1, <3>2
  <2>2. CASE j \in (nValidStackRoots + 1) .. nStackRoots
    BY <1>3, <2>2 DEF Rest
  <2> QED
    BY <1>2, <2>1, <2>2
<1>8. RootSet \subseteq RootSet'
  <2>1. RootSet' = {gcUnmask(stackRoots'[j]) : j \in 1 .. nStackRoots}
    BY <1>4 DEF RootSet, Root, gcUnmask
  <2> QED
    BY <2>1, <1>4, <1>6 DEF RootSet
<1>9. \A j \in 1 .. ValidEnd' : stackRoots'[j] \in marked'
  BY <1>4, <1>5, <1>7
<1>10. nValidStackRoots' = nStackRoots'
  BY <1>1, <1>4
<1> QED
  BY <1>1, <1>3, <1>8, <1>9, <1>10, CoveredFrame

LEMMA AliveStep == ASSUME AliveInv, [Next]_vars PROVE AliveInv'
<1>1. RootsInv'
  BY RootsInvStep DEF AliveInv
<1>2. UNCHANGED gcdetectdeadlocks
  BY DEF Next, vars, bounds, Mutator, gcStart, MarkGlobals, MarkStack, ScanObject, unscanned,
         gcMarkDone, DiscoverFirst, DiscoverSwap, DiscoverPublish, MarkDoneReturns, PassBarrier, Restart, notDiscover,
         Detecting, StopTheWorld, DetectPass, DetectResume, DetectReport, notDetect, MarkTermination
<1>3. CASE Mutator
  BY <1>1, <1>2, <1>3, AliveMutator DEF AliveInv
<1>4. CASE MarkTermination
  BY <1>1, <1>2, <1>4, AliveTermination DEF AliveInv
<1>5. CASE gcStart
  <2>1. UNCHANGED freed
    BY <1>5 DEF gcStart
  <2> QED
    BY <1>1, <1>2, <1>5, <2>1, AliveStart DEF AliveInv
<1>6. CASE MarkGlobals \/ MarkStack \/ \E obj \in grey : ScanObject(obj)
  <2>1. UNCHANGED freed
    BY <1>6 DEF MarkGlobals, MarkStack, ScanObject, unscanned
  <2> QED
    BY <1>1, <1>2, <1>6, <2>1, AliveMark DEF AliveInv
<1>7. CASE gcMarkDone \/ DiscoverPublish \/ MarkDoneReturns \/ PassBarrier \/ Restart \/ StopTheWorld \/ DetectResume
  <2>1. UNCHANGED freed
    BY <1>7 DEF gcMarkDone, DiscoverPublish, MarkDoneReturns, PassBarrier, Restart, StopTheWorld, DetectResume,
               notDiscover, notDetect
  <2> QED
    BY <1>1, <1>2, <1>7, <2>1, AliveSameEntries DEF AliveInv
<1>8. CASE DiscoverFirst \/ DiscoverSwap \/ DetectPass \/ DetectReport
  <2>1. UNCHANGED freed
    BY <1>8 DEF DiscoverFirst, DiscoverSwap, DetectPass, DetectReport, notDiscover, notDetect
  <2> QED
    BY <1>1, <1>2, <1>8, <2>1, AliveFirst, AliveSwap, AlivePass, AliveReport DEF AliveInv
<1>9. CASE UNCHANGED vars
  <2>1. UNCHANGED <<phase, allgs, stackRoots, detectedDeadlocks, marked, loop, nValidStackRoots, freed>>
    BY <1>9 DEF vars, progVars, rootVars
  <2>2. ValidEnd' = ValidEnd /\ RootSet' = RootSet /\ nStackRoots' = nStackRoots
    BY <2>1 DEF ValidEnd, RootSet, Root, nStackRoots, gcUnmask
  <2>3. Covered'
    BY <2>1, <2>2 DEF AliveInv, Covered, gcUnmask
  <2> QED
    BY <1>1, <1>2, <2>1, <2>3 DEF AliveInv
<1> QED
  BY <1>3, <1>4, <1>5, <1>6, <1>7, <1>8, <1>9 DEF Next, Detecting

(* While detection is on, no collection frees the descriptor of any        *)
(* goroutine that ever ran, although allgs hides them all from marking:    *)
(* the property of gcMarkRootPrepare, the two loops, the write barrier on  *)
(* their stores and newproc together, for any number of goroutines.        *)
THEOREM AllgsAliveHolds ==
  ASSUME 0 \notin Modes
  PROVE  Spec => []AllgsAlive
<1>1. Init => AliveInv
  BY RootsInvInit DEF Init, AliveInv, Covered
<1>2. AliveInv /\ [Next]_vars => AliveInv'
  BY AliveStep
<1>3. AliveInv => AllgsAlive
  <2> SUFFICES ASSUME AliveInv, NEW i \in DOMAIN allgs PROVE gcUnmask(allgs[i]) \notin freed
    BY DEF AllgsAlive
  <2>1. i \in 1 .. Len(allgs)
    BY DEF AliveInv, RootsInv, Tables
  <2>2. gcUnmask(allgs[i]) \in Goroutine
    BY <2>1, AllgsEntries DEF AliveInv, RootsInv
  <2> QED
    BY <2>2 DEF AliveInv
<1> QED
  BY <1>1, <1>2, <1>3, PTL DEF Spec

-----------------------------------------------------------------------------
Statuses == {"_Gidle", "_Grunning", "_Gwaiting", "_Gdead", "_Gdeadlocked"}

ProgramTypes ==
  /\ status \in [Goroutine -> Statuses]
  /\ stack \in [Goroutine -> SUBSET Sync]
  /\ waitingOn \in [Goroutine -> Sync \cup {Nil}]
  /\ queue \in [Sync -> Seq(Goroutine)]

Reachable(o) == o \in Globals \/ \E g \in Goroutine : o \in stack[g]

\* The entries of its queue are distinct and wait on it.
Proper(o) ==
  /\ \A i \in DOMAIN queue[o] : waitingOn[queue[o][i]] = o
  /\ \A i, j \in DOMAIN queue[o] : queue[o][i] = queue[o][j] => i = j

Waiters ==
  /\ \A g \in Goroutine : waitingOn[g] # Nil <=> status[g] \in {"_Gwaiting", "_Gdeadlocked"}
  /\ \A g \in Goroutine : waitingOn[g] # Nil => waitingOn[g] \in stack[g]
  /\ \A g \in Goroutine : status[g] = "_Gidle" => stack[g] = {}
  /\ \A o \in Sync : Proper(o) \/ (o \in Channel /\ ~Reachable(o))

InAllgs == \A g \in Goroutine : status[g] # "_Gidle" => \E i \in 1 .. Len(allgs) : gcUnmask(allgs[i]) = g

ProgramInv == ProgramTypes /\ Waiters /\ InAllgs

\* The goroutines whose root jobs are still to come.
Pending == {Root(i) : i \in {j \in 1 .. nStackRoots : markrootNext <= j}}

\* What marking has seen of the roots.
Scanned ==
  /\ grey \subseteq marked
  /\ phase = "mark" =>
       /\ 0 < markrootNext => Globals \subseteq marked
       /\ \A g \in Goroutine \ Pending : stack[g] \subseteq marked \cup Globals
       /\ \A g \in Goroutine \ Pending : waitingOn[g] # Nil => SudogOf[g] \in marked
       /\ gcdetectdeadlocks = 0 \/ detectedDeadlocks => nValidStackRoots = nStackRoots

\* Past the ragged barrier no root job is left, and the pass of
\* detectPartialDeadlocks has found no goroutine that could run.
NoneFound ==
  /\ loop.at = "barrier" => markrootNext > nValidStackRoots
  /\ loop.at = "detect" /\ ~loop.found =>
    /\ markrootNext > nValidStackRoots /\ ~detectedDeadlocks
    /\ \A i \in (nValidStackRoots + 1) .. loop.v :
         status[Root(i)] = "_Gwaiting" /\ waitingOn[Root(i)] \notin marked

SudogsAlive == \A g \in Goroutine : waitingOn[g] # Nil => SudogOf[g] \notin freed

LinkedInv == RootsInv /\ ProgramInv /\ Scanned /\ NoneFound /\ SudogsAlive

\* What nobody but the doomed refers to: what they wait on, the descriptors and sudogs of
\* those that wait on channels, and the channels whose queues are out of date.
DoomedOnChannel == {g \in doomed : waitingOn[g] \in Channel}
Hidden ==
  {waitingOn[g] : g \in doomed} \cup DoomedOnChannel \cup {SudogOf[g] : g \in DoomedOnChannel}
  \cup {o \in Channel : ~Proper(o)}

Secluded ==
  /\ doomed \subseteq Waiting
  /\ \A d \in doomed : waitingOn[d] \notin Globals
  /\ \A d \in doomed : \A g \in Goroutine \ doomed : waitingOn[d] \notin stack[g]

Unfound ==
  /\ Secluded
  /\ marked \cap Hidden = {}
  /\ doomed \subseteq {Root(i) : i \in 1 .. nStackRoots}
  /\ \A i \in 1 .. ValidEnd : stackRoots[i] \notin doomed

DoomInv ==
  /\ phase = "mark" /\ ~detectedDeadlocks /\ gcdetectdeadlocks # 0 => Unfound
  /\ TablesHideDoomed

-----------------------------------------------------------------------------
(* Addresses and what refers to what.                                      *)
LEMMA Disjoint ==
  /\ \A g \in Goroutine : g \notin Sync /\ g \notin Sudog /\ g # AllgsArray /\ SudogOf[g] \in Sudog
  /\ \A s \in Sudog : s \notin Sync /\ s # AllgsArray
  /\ \A o \in Sync : o # AllgsArray
  /\ \A o \in Channel : o \notin Sema
  /\ Sync = Channel \cup Sema
  /\ \A w \in Goroutine \cup Sudog \cup Sync : w \in 1 .. (MaskUnit - 1) /\ w # Nil
<1>1. \A w \in Goroutine \cup Sudog \cup Sync : w \in 1 .. (MaskUnit - 1)
  BY AddressAssumption
<1>2. \A w \in Goroutine \cup Sudog \cup Sync : w # Nil
  <2>1. MaskUnit \in Nat
    BY AddressAssumption
  <2> QED
    BY <1>1, <2>1 DEF Nil
<1> QED
  BY <1>1, <1>2, AddressAssumption, SyncAssumption DEF Sudog, Sync

LEMMA MaskedAddress ==
  ASSUME NEW w \in Goroutine \cup Sudog \cup Sync
  PROVE  IsMasked(Masked(w)) /\ ~IsMasked(w)
<1>1. MaskUnit \in Nat /\ MaskUnit > 0 /\ w \in 1 .. (MaskUnit - 1)
  BY AddressAssumption, Disjoint
<1>2. w % MaskUnit = w /\ w \div MaskUnit = 0
  BY <1>1
<1>3. (15 * MaskUnit + w) \div MaskUnit = 15
  BY <1>1, Z3
<1> QED
  BY <1>2, <1>3 DEF Masked, IsMasked

LEMMA SudogOwner ==
  ASSUME NEW g \in Goroutine
  PROVE  (CHOOSE h \in Goroutine : SudogOf[h] = SudogOf[g]) = g
  BY SudogAssumption

\* The words of the objects, one kind at a time.
LEMMA WordsOfKinds ==
  /\ \A g \in Goroutine : WordsOf(g) = WordsOfG(g)
  /\ \A g \in Goroutine : WordsOf(SudogOf[g]) = WordsOfSudog(g)
  /\ \A o \in Channel :
       WordsOf(o) = IF queue[o] = <<>> THEN <<>> ELSE <<SudogOf[Head(queue[o])]>>
  /\ WordsOf(AllgsArray) = allgs
  /\ \A o \in Sema : WordsOf(o) = <<>>
<1>1. ASSUME NEW g \in Goroutine PROVE WordsOf(g) = WordsOfG(g)
  <2>1. g \notin Sudog /\ g \notin Channel /\ g # AllgsArray
    BY Disjoint
  <2> QED
    BY <2>1 DEF WordsOf
<1>2. ASSUME NEW g \in Goroutine PROVE WordsOf(SudogOf[g]) = WordsOfSudog(g)
  <2>1. /\ SudogOf[g] \in Sudog /\ SudogOf[g] \notin Goroutine
        /\ SudogOf[g] \notin Channel /\ SudogOf[g] # AllgsArray
    BY Disjoint, AddressAssumption
  <2>2. WordsOf(SudogOf[g]) = WordsOfSudog(CHOOSE h \in Goroutine : SudogOf[h] = SudogOf[g])
    BY <2>1 DEF WordsOf
  <2> QED
    BY <2>2, SudogOwner
<1>3. \A o \in Channel : o \notin Goroutine /\ o \notin Sudog /\ o # AllgsArray
  BY Disjoint
<1>4. \A o \in Sema : o \notin Goroutine /\ o \notin Sudog /\ o \notin Channel /\ o # AllgsArray
  BY Disjoint
<1>5. AllgsArray \notin Goroutine /\ AllgsArray \notin Sudog /\ AllgsArray \notin Channel
  BY AddressAssumption DEF Sync
<1> QED
  BY <1>1, <1>2, <1>3, <1>4, <1>5 DEF WordsOf

\* The sudog after another one is that of somebody in the queue.
LEMMA AfterInQueue ==
  ASSUME ProgramTypes, NEW o \in Sync, NEW s, After(SudogsAt(o), s) # Nil
  PROVE  \E i \in DOMAIN queue[o] : After(SudogsAt(o), s) = SudogOf[queue[o][i]]
<1>1. queue[o] \in Seq(Goroutine)
  BY DEF ProgramTypes
<1>2. Len(SudogsAt(o)) = Len(queue[o])
  BY <1>1 DEF SudogsAt
<1>3. PICK i \in 1 .. (Len(queue[o]) - 1) : After(SudogsAt(o), s) = SudogsAt(o)[1 + i]
  BY <1>2 DEF After
<1>4. 1 + i \in DOMAIN queue[o]
  BY <1>1
<1> QED
  BY <1>3, <1>4 DEF SudogsAt

Less == {p \in Nat \X Nat : p[1] < p[2]}

LEMMA LessWellFounded == IsWellFoundedOn(Less, Nat)
<1>1. OpToRel(<, Nat) = Less
  BY DEF OpToRel, Less
<1> QED
  BY <1>1, NatLessThanWellFounded

LEMMA Least ==
  ASSUME NEW S \in SUBSET Nat, S # {}
  PROVE  \E j \in S : \A k \in S : j <= k
<1>1. PICK j \in S : \A k \in S : <<k, j>> \notin Less
  BY LessWellFounded, WFMin
<1>2. \A k \in S : ~(k < j)
  BY <1>1 DEF Less
<1> QED
  BY <1>2

\* The first waiter found in the treap is the first waiter of a semaphore.
LEMMA FirstIsHead ==
  ASSUME NEW n \in Nat, FirstFrom(n) # Nil
  PROVE  \E o \in Sema : queue[o] # <<>> /\ FirstFrom(n) = SudogOf[Head(queue[o])]
<1> DEFINE rest == {j \in Busy : j >= n}
           first == CHOOSE j \in rest : \A k \in rest : j <= k
<1>1. rest # {} /\ FirstFrom(n) = SudogOf[Head(queue[SemaSeq[first]])]
  BY DEF FirstFrom
<1>2. rest \subseteq Nat
  BY SyncAssumption DEF Busy
<1>3. \E j \in rest : \A k \in rest : j <= k
  BY <1>1, <1>2, Least
<1>4. first \in rest
  BY <1>3
<1> QED
  BY <1>1, <1>4 DEF Busy, Sema

-----------------------------------------------------------------------------
(* Nothing that is not hidden refers to anything hidden.                   *)
LEMMA HiddenKinds ==
  ASSUME ProgramTypes, Waiters, Secluded
  PROVE  /\ \A g \in Goroutine : g \in Hidden <=> g \in DoomedOnChannel
         /\ \A g \in Goroutine : SudogOf[g] \in Hidden <=> g \in DoomedOnChannel
         /\ \A o \in Sync : o \in Hidden <=>
              \/ \E d \in doomed : waitingOn[d] = o
              \/ o \in Channel /\ ~Proper(o)
<1>1. doomed \subseteq Goroutine /\ \A d \in doomed : waitingOn[d] \in Sync
  BY DEF Secluded, Waiting, Waiters, ProgramTypes
<1>2. DoomedOnChannel \subseteq doomed
  BY DEF DoomedOnChannel
<1>3. Channel \subseteq Sync
  BY DEF Sync
<1>4. ASSUME NEW g \in Goroutine PROVE g \in Hidden <=> g \in DoomedOnChannel
  <2>1. g \notin Sync /\ \A h \in Goroutine : SudogOf[h] # g
    BY Disjoint
  <2> QED
    BY <1>1, <1>2, <1>3, <2>1 DEF Hidden
<1>5. ASSUME NEW g \in Goroutine PROVE SudogOf[g] \in Hidden <=> g \in DoomedOnChannel
  <2>1. SudogOf[g] \notin Sync /\ SudogOf[g] \notin Goroutine
    BY Disjoint
  <2>2. \A h \in Goroutine : SudogOf[h] = SudogOf[g] => h = g
    BY SudogAssumption
  <2> QED
    BY <1>1, <1>2, <1>3, <2>1, <2>2 DEF Hidden
<1>6. ASSUME NEW o \in Sync
      PROVE  o \in Hidden <=> \/ \E d \in doomed : waitingOn[d] = o
                              \/ o \in Channel /\ ~Proper(o)
  <2>1. o \notin Goroutine /\ \A h \in Goroutine : SudogOf[h] # o
    BY Disjoint
  <2> QED
    BY <1>1, <1>2, <2>1 DEF Hidden
<1> QED
  BY <1>4, <1>5, <1>6

LEMMA QueueVisible ==
  ASSUME ProgramTypes, Waiters, Secluded, NEW o \in Sync, Proper(o), o \in Sema \/ o \notin Hidden,
         NEW i \in DOMAIN queue[o]
  PROVE  SudogOf[queue[o][i]] \notin Hidden
<1>1. queue[o][i] \in Goroutine /\ waitingOn[queue[o][i]] = o
  BY DEF ProgramTypes, Proper
<1>2. ASSUME queue[o][i] \in DoomedOnChannel PROVE FALSE
  <2>1. queue[o][i] \in doomed /\ o \in Channel
    BY <1>1, <1>2 DEF DoomedOnChannel
  <2>2. o \in Hidden
    BY <1>1, <2>1, HiddenKinds
  <2>3. o \notin Sema
    BY <2>1, Disjoint
  <2> QED
    BY <2>2, <2>3
<1> QED
  BY <1>1, <1>2, HiddenKinds

\* What stacks refer to is in order.
LEMMA OnStack ==
  ASSUME ProgramTypes, Waiters, Secluded, NEW g \in Goroutine \ doomed, NEW o \in stack[g]
  PROVE  o \in Sync /\ Proper(o) /\ o \notin Hidden
<1>1. o \in Sync
  BY DEF ProgramTypes
<1>2. Proper(o)
  BY <1>1 DEF Waiters, Reachable
<1>3. \A d \in doomed : waitingOn[d] # o
  BY DEF Secluded
<1> QED
  BY <1>1, <1>2, <1>3, HiddenKinds

LEMMA SemaProper == ASSUME ProgramTypes, Waiters, NEW o \in Sema PROVE o \in Sync /\ Proper(o)
  BY Disjoint DEF Waiters

LEMMA FirstVisible ==
  ASSUME ProgramTypes, Waiters, Secluded, NEW n \in Nat
  PROVE  FirstFrom(n) \notin Hidden
<1>1. CASE FirstFrom(n) = Nil
  <2>1. Nil \notin Hidden
    <3>1. \A d \in doomed : waitingOn[d] # Nil
      BY DEF Secluded, Waiting, Waiters
    <3>2. DoomedOnChannel \subseteq Goroutine
      BY DEF DoomedOnChannel, Secluded, Waiting
    <3> QED
      BY <3>1, <3>2, Disjoint DEF Hidden
  <2> QED
    BY <1>1, <2>1
<1>2. CASE FirstFrom(n) # Nil
  <2>1. PICK o \in Sema : queue[o] # <<>> /\ FirstFrom(n) = SudogOf[Head(queue[o])]
    BY <1>2, FirstIsHead
  <2>2. o \in Sync /\ Proper(o)
    BY SemaProper
  <2>3. queue[o] \in Seq(Goroutine)
    BY <2>2 DEF ProgramTypes
  <2>4. 1 \in DOMAIN queue[o] /\ Head(queue[o]) = queue[o][1]
    BY <2>1, <2>3
  <2> QED
    BY <2>1, <2>2, <2>4, QueueVisible
<1> QED
  BY <1>1, <1>2

LEMMA PlaceOf ==
  ASSUME NEW o \in Sema
  PROVE  Place(o) \in DOMAIN SemaSeq /\ SemaSeq[Place(o)] = o /\ Place(o) \in Nat
<1>1. \E i \in DOMAIN SemaSeq : SemaSeq[i] = o
  BY DEF Sema
<1>2. Place(o) \in DOMAIN SemaSeq /\ SemaSeq[Place(o)] = o
  BY <1>1 DEF Place
<1> QED
  BY <1>2, SyncAssumption

LEMMA NextVisible ==
  ASSUME ProgramTypes, Waiters, Secluded, NEW o \in Sema, NEW g, NextInTreap(o, g) # Nil
  PROVE  NextInTreap(o, g) \notin Hidden
<1>1. Place(o) + 1 \in Nat
  BY PlaceOf
<1>2. NextInTreap(o, g) = FirstFrom(Place(o) + 1)
  BY DEF NextInTreap
<1> QED
  BY <1>1, <1>2, FirstVisible

LEMMA RefsAreWords ==
  ASSUME NEW words, NEW w \in Refs(words)
  PROVE  \E i \in DOMAIN words : w = words[i] /\ w # Nil /\ ~IsMasked(w)
  BY DEF Refs

LEMMA VisibleWords ==
  ASSUME ProgramTypes, Waiters, Secluded, gcdetectdeadlocks # 0,
         NEW obj \in Goroutine \cup Sudog \cup Channel, obj \notin Hidden
  PROVE  Refs(WordsOf(obj)) \cap Hidden = {}
<1>1. CASE obj \in Goroutine
  <2> SUFFICES ASSUME NEW w \in Refs(WordsOfG(obj)) PROVE w \notin Hidden
    BY <1>1, WordsOfKinds
  <2>1. w # Nil /\ ~IsMasked(w)
    BY RefsAreWords
  <2>2. \E i \in DOMAIN WordsOfG(obj) : w = WordsOfG(obj)[i]
    BY RefsAreWords
  <2>3. \/ waitingOn[obj] \in Channel /\ w = SudogOf[obj]
        \/ waitingOn[obj] \in Sema /\ w = Masked(waitingOn[obj])
    BY <2>1, <2>2 DEF WordsOfG, gcMask
  <2>4. waitingOn[obj] \in Sema => IsMasked(Masked(waitingOn[obj]))
    BY MaskedAddress, Disjoint
  <2> QED
    BY <1>1, <2>1, <2>3, <2>4, HiddenKinds
<1>2. CASE obj \in Sudog
  <2>1. PICK g \in Goroutine : obj = SudogOf[g]
    BY <1>2 DEF Sudog
  <2>2. g \notin DoomedOnChannel /\ g \notin Hidden
    BY <2>1, HiddenKinds
  <2> DEFINE o == waitingOn[g]
  <2> SUFFICES ASSUME NEW w \in Refs(WordsOfSudog(g)) PROVE w \notin Hidden
    BY <2>1, WordsOfKinds
  <2>3. w # Nil /\ ~IsMasked(w)
    BY RefsAreWords
  <2>4. PICK i \in DOMAIN WordsOfSudog(g) : w = WordsOfSudog(g)[i]
    BY RefsAreWords
  <2>5. CASE o \in Channel
    <3>1. o \notin Sema /\ g \notin doomed
      BY <2>2, <2>5, Disjoint DEF DoomedOnChannel
    <3>2. w \in {g, After(SudogsAt(o), SudogOf[g]), o}
      BY <2>3, <2>4, <2>5, <3>1 DEF WordsOfSudog
    <3>3. o \in stack[g]
      BY <2>5, Disjoint DEF Waiters, Sync
    <3>4. o \in Sync /\ Proper(o) /\ o \notin Hidden
      BY <3>1, <3>3, OnStack
    <3>5. CASE w = After(SudogsAt(o), SudogOf[g])
      <4>1. PICK k \in DOMAIN queue[o] : w = SudogOf[queue[o][k]]
        BY <2>3, <3>4, <3>5, AfterInQueue
      <4> QED
        BY <3>4, <4>1, QueueVisible
    <3> QED
      BY <2>2, <3>2, <3>4, <3>5
  <2>6. CASE o \in Sema
    <3>1. o \notin Channel
      BY <2>6, Disjoint
    <3>2. w \in {g, NextInTreap(o, g), Masked(o), After(SudogsAt(o), SudogOf[g])}
      BY <2>3, <2>4, <2>6, <3>1 DEF WordsOfSudog, gcMask
    <3>3. IsMasked(Masked(o)) /\ o \in Sync /\ Proper(o)
      BY <2>6, MaskedAddress, SemaProper
    <3>4. CASE w = After(SudogsAt(o), SudogOf[g])
      <4>1. PICK k \in DOMAIN queue[o] : w = SudogOf[queue[o][k]]
        BY <2>3, <3>3, <3>4, AfterInQueue
      <4> QED
        BY <2>6, <3>3, <4>1, QueueVisible
    <3>5. CASE w = NextInTreap(o, g)
      BY <2>3, <2>6, <3>5, NextVisible
    <3> QED
      BY <2>2, <2>3, <3>2, <3>3, <3>4, <3>5
  <2>7. CASE o \notin Channel /\ o \notin Sema
    <3>1. w = g
      BY <2>4, <2>7 DEF WordsOfSudog
    <3> QED
      BY <2>2, <3>1
  <2> QED
    BY <2>5, <2>6, <2>7
<1>3. CASE obj \in Channel
  <2> SUFFICES ASSUME NEW w \in Refs(WordsOf(obj)) PROVE w \notin Hidden
    OBVIOUS
  <2>1. \E i \in DOMAIN WordsOf(obj) : w = WordsOf(obj)[i]
    BY RefsAreWords
  <2>2. queue[obj] # <<>> /\ w = SudogOf[Head(queue[obj])]
    BY <1>3, <2>1, WordsOfKinds
  <2>3. obj \in Sync /\ Proper(obj)
    BY <1>3, HiddenKinds DEF Sync
  <2>4. queue[obj] \in Seq(Goroutine)
    BY <2>3 DEF ProgramTypes
  <2>5. 1 \in DOMAIN queue[obj] /\ Head(queue[obj]) = queue[obj][1]
    BY <2>2, <2>4
  <2> QED
    BY <2>2, <2>3, <2>5, QueueVisible
<1> QED
  BY <1>1, <1>2, <1>3

LEMMA VisibleTables ==
  ASSUME ProgramTypes, Waiters, Secluded, Tables, gcdetectdeadlocks # 0
  PROVE  Refs(<<Treap>>) \cap Hidden = {} /\ Refs(allgs) = {}
<1>1. Refs(<<Treap>>) \subseteq {Treap}
  BY DEF Refs
<1>2. Treap \notin Hidden
  BY FirstVisible DEF Treap
<1>3. ASSUME NEW i \in DOMAIN allgs PROVE IsMasked(allgs[i])
  <2>1. PICK g \in Goroutine : allgs[i] = gcMask(g)
    BY DEF Tables, MaskedGs
  <2> QED
    BY <2>1, MaskedAddress DEF gcMask
<1>4. Refs(allgs) = {}
  BY <1>3 DEF Refs
<1> QED
  BY <1>1, <1>2, <1>4

-----------------------------------------------------------------------------
(* The program keeps its queues in order.                                  *)
LEMMA ReachableProper ==
  ASSUME ProgramInv, NEW g \in Goroutine, NEW o \in stack[g]
  PROVE  o \in Sync /\ Proper(o)
  BY DEF ProgramInv, ProgramTypes, Waiters, Reachable

LEMMA RunningWaitsForNothing ==
  ASSUME ProgramInv, NEW g \in Goroutine, status[g] \notin {"_Gwaiting", "_Gdeadlocked"}
  PROVE  /\ waitingOn[g] = Nil
         /\ \A o \in Sync : Proper(o) => \A i \in DOMAIN queue[o] : queue[o][i] # g
<1>1. waitingOn[g] = Nil
  BY DEF ProgramInv, Waiters
<1>2. \A o \in Sync : o # Nil
  BY Disjoint
<1> QED
  BY <1>1, <1>2 DEF Proper

\* Steps that make nothing reachable that was not, and leave queues and waiters alone.
LEMMA SameQueues ==
  ASSUME ProgramInv, UNCHANGED <<waitingOn, queue>>, ProgramTypes', InAllgs',
         \A g \in Goroutine : status'[g] \in {"_Gwaiting", "_Gdeadlocked"}
                              <=> status[g] \in {"_Gwaiting", "_Gdeadlocked"},
         \A g \in Goroutine : waitingOn[g] # Nil => stack[g] \subseteq stack'[g],
         \A g \in Goroutine : \A o \in stack'[g] : Reachable(o),
         \A g \in Goroutine : status'[g] = "_Gidle" => stack'[g] = {}
  PROVE  ProgramInv' /\ \A p \in Sync : Proper(p)' <=> Proper(p)
<1>1. \A p \in Sync : Proper(p)' <=> Proper(p)
  BY DEF Proper
<1>2. \A p \in Sync : Reachable(p)' => Reachable(p)
  BY DEF Reachable
<1>3. \A p \in Sync : Proper(p)' \/ (p \in Channel /\ ~Reachable(p)')
  BY <1>1, <1>2 DEF ProgramInv, Waiters
<1>4. \A g \in Goroutine : waitingOn'[g] # Nil <=> status'[g] \in {"_Gwaiting", "_Gdeadlocked"}
  BY DEF ProgramInv, Waiters
<1>5. \A g \in Goroutine : waitingOn'[g] # Nil => waitingOn'[g] \in stack'[g]
  BY DEF ProgramInv, Waiters
<1>6. Waiters'
  BY <1>3, <1>4, <1>5 DEF Waiters
<1> QED
  BY <1>1, <1>6 DEF ProgramInv

LEMMA LoadForgetInv ==
  ASSUME ProgramInv, NEW g \in Goroutine, NEW o \in Sync, LoadGlobal(g, o) \/ Forget(g, o)
  PROVE  ProgramInv' /\ \A p \in Sync : Proper(p)' <=> Proper(p)
<1>1. /\ status[g] = "_Grunning" /\ UNCHANGED <<status, waitingOn, queue, allgs>>
      /\ \/ o \in Globals /\ stack' = [stack EXCEPT ![g] = @ \cup {o}]
         \/ stack' = [stack EXCEPT ![g] = @ \ {o}]
  BY DEF LoadGlobal, Forget, Running
<1>2. waitingOn[g] = Nil
  BY <1>1, RunningWaitsForNothing
<1>3. ProgramTypes'
  BY <1>1 DEF ProgramInv, ProgramTypes
<1>4. InAllgs'
  BY <1>1 DEF ProgramInv, InAllgs, gcUnmask
<1>5. \A h \in Goroutine : h # g => stack'[h] = stack[h]
  BY <1>1 DEF ProgramInv, ProgramTypes
<1>6. \A h \in Goroutine : \A p \in stack'[h] : Reachable(p)
  BY <1>1 DEF ProgramInv, ProgramTypes, Reachable
<1>7. \A h \in Goroutine : waitingOn[h] # Nil => stack[h] \subseteq stack'[h]
  BY <1>2, <1>5
<1>8. \A h \in Goroutine : status'[h] = "_Gidle" => stack'[h] = {}
  BY <1>1, <1>5 DEF ProgramInv, Waiters
<1>9. \A h \in Goroutine : status'[h] \in {"_Gwaiting", "_Gdeadlocked"}
                           <=> status[h] \in {"_Gwaiting", "_Gdeadlocked"}
  BY <1>1
<1> QED
  BY <1>1, <1>3, <1>4, <1>6, <1>7, <1>8, <1>9, SameQueues

LEMMA GoexitInv ==
  ASSUME ProgramInv, NEW g \in Goroutine, Goexit(g)
  PROVE  ProgramInv' /\ \A p \in Sync : Proper(p)' <=> Proper(p)
<1>1. /\ status[g] = "_Grunning" /\ UNCHANGED <<waitingOn, queue, allgs>>
      /\ status' = [status EXCEPT ![g] = "_Gdead"] /\ stack' = [stack EXCEPT ![g] = {}]
  BY DEF Goexit, Running
<1>2. waitingOn[g] = Nil
  BY <1>1, RunningWaitsForNothing
<1>3. ProgramTypes'
  BY <1>1 DEF ProgramInv, ProgramTypes, Statuses
<1>4. \A h \in Goroutine : (status'[h] = "_Gidle" => status[h] = "_Gidle")
                           /\ (status[h] = "_Gidle" => status'[h] = "_Gidle")
  BY <1>1 DEF ProgramInv, ProgramTypes
<1>5. InAllgs'
  BY <1>1, <1>4 DEF ProgramInv, InAllgs, gcUnmask
<1>6. \A h \in Goroutine : stack'[h] = IF h = g THEN {} ELSE stack[h]
  BY <1>1 DEF ProgramInv, ProgramTypes
<1>7. \A h \in Goroutine : \A p \in stack'[h] : Reachable(p)
  BY <1>6 DEF Reachable
<1>8. \A h \in Goroutine : status'[h] \in {"_Gwaiting", "_Gdeadlocked"}
                           <=> status[h] \in {"_Gwaiting", "_Gdeadlocked"}
  BY <1>1 DEF ProgramInv, ProgramTypes
<1>9. \A h \in Goroutine : status'[h] = "_Gidle" => stack'[h] = {}
  BY <1>4, <1>6 DEF ProgramInv, Waiters
<1>10. \A h \in Goroutine : waitingOn[h] # Nil => stack[h] \subseteq stack'[h]
  BY <1>2, <1>6
<1> QED
  BY <1>1, <1>3, <1>5, <1>7, <1>8, <1>9, <1>10, SameQueues

LEMMA GoInv ==
  ASSUME ProgramInv, Tables, UNCHANGED gcdetectdeadlocks,
         NEW g \in Goroutine, NEW h \in Goroutine, NEW args \in SUBSET stack[g], Go(g, h, args)
  PROVE  ProgramInv' /\ \A p \in Sync : Proper(p)' <=> Proper(p)
<1>1. /\ status[g] = "_Grunning" /\ UNCHANGED <<waitingOn, queue>>
      /\ status[h] \in {"_Gdead", "_Gidle"}
      /\ status' = [status EXCEPT ![h] = "_Grunning"] /\ stack' = [stack EXCEPT ![h] = args]
      /\ \/ status[h] # "_Gidle" /\ allgs' = allgs
         \/ allgs' = Append(allgs, gcMask(h))
  BY DEF Go, Running
<1>2. waitingOn[h] = Nil
  BY <1>1, RunningWaitsForNothing
<1>3. ProgramTypes'
  BY <1>1 DEF ProgramInv, ProgramTypes, Statuses
<1>4. \A x \in Goroutine : status'[x] = IF x = h THEN "_Grunning" ELSE status[x]
  BY <1>1 DEF ProgramInv, ProgramTypes
<1>5. InAllgs'
  <2>1. allgs \in Seq(MaskedGs)
    BY DEF Tables
  <2>2. ASSUME NEW x \in Goroutine, status'[x] # "_Gidle"
        PROVE  \E i \in 1 .. Len(allgs') : gcUnmask(allgs'[i]) = x
    <3>1. CASE status[x] # "_Gidle"
      <4>1. PICK i \in 1 .. Len(allgs) : gcUnmask(allgs[i]) = x
        BY <3>1 DEF ProgramInv, InAllgs
      <4>2. i \in 1 .. Len(allgs') /\ allgs'[i] = allgs[i]
        <5>1. CASE allgs' = allgs
          BY <5>1
        <5>2. CASE allgs' = Append(allgs, gcMask(h))
          <6>1. gcMask(h) \in MaskedGs
            BY DEF MaskedGs
          <6> QED
            BY <2>1, <5>2, <6>1
        <5> QED
          BY <1>1, <5>1, <5>2
      <4> QED
        BY <4>1, <4>2
    <3>2. CASE status[x] = "_Gidle"
      <4>1. x = h /\ allgs' = Append(allgs, gcMask(h))
        BY <1>1, <1>4, <2>2, <3>2
      <4>2. gcMask(h) \in MaskedGs
        BY DEF MaskedGs
      <4>3. Len(allgs') = Len(allgs) + 1 /\ allgs'[Len(allgs) + 1] = gcMask(h) /\ Len(allgs) \in Nat
        BY <2>1, <4>1, <4>2
      <4> QED
        BY <4>1, <4>3, MaskOfG
    <3> QED
      BY <3>1, <3>2
  <2> QED
    BY <2>2 DEF InAllgs, gcUnmask
<1>6. \A x \in Goroutine : stack'[x] = IF x = h THEN args ELSE stack[x]
  BY <1>1 DEF ProgramInv, ProgramTypes
<1>7. \A x \in Goroutine : \A p \in stack'[x] : Reachable(p)
  BY <1>6 DEF Reachable
<1>8. \A x \in Goroutine : status'[x] \in {"_Gwaiting", "_Gdeadlocked"}
                           <=> status[x] \in {"_Gwaiting", "_Gdeadlocked"}
  BY <1>1, <1>4
<1>9. \A x \in Goroutine : status'[x] = "_Gidle" => stack'[x] = {}
  BY <1>4, <1>6 DEF ProgramInv, Waiters
<1>10. \A x \in Goroutine : waitingOn[x] # Nil => stack[x] \subseteq stack'[x]
  BY <1>2, <1>6
<1> QED
  BY <1>1, <1>3, <1>5, <1>7, <1>8, <1>9, <1>10, SameQueues

LEMMA ParkInv ==
  ASSUME ProgramInv, NEW g \in Goroutine, NEW o \in Sync, Park(g, o)
  PROVE  ProgramInv' /\ \A p \in Sync : Proper(p) => Proper(p)'
<1>1. /\ status[g] = "_Grunning" /\ o \in stack[g] /\ UNCHANGED <<stack, allgs>>
      /\ status' = [status EXCEPT ![g] = "_Gwaiting"]
      /\ waitingOn' = [waitingOn EXCEPT ![g] = o]
      /\ queue' = [queue EXCEPT ![o] = Append(@, g)]
  BY DEF Park, Running
<1>2. waitingOn[g] = Nil /\ \A p \in Sync : Proper(p) => \A i \in DOMAIN queue[p] : queue[p][i] # g
  BY <1>1, RunningWaitsForNothing
<1>3. ProgramTypes /\ queue[o] \in Seq(Goroutine)
  BY DEF ProgramInv, ProgramTypes
<1>4. ProgramTypes'
  BY <1>1 DEF ProgramInv, ProgramTypes, Statuses
<1>5. /\ \A x \in Goroutine : waitingOn'[x] = IF x = g THEN o ELSE waitingOn[x]
      /\ \A x \in Goroutine : status'[x] = IF x = g THEN "_Gwaiting" ELSE status[x]
      /\ \A p \in Sync : queue'[p] = IF p = o THEN Append(queue[o], g) ELSE queue[p]
  BY <1>1 DEF ProgramInv, ProgramTypes
<1>6. ASSUME NEW p \in Sync, Proper(p) PROVE Proper(p)'
  <2>1. CASE p # o
    <3>1. queue'[p] = queue[p] /\ queue[p] \in Seq(Goroutine)
      BY <1>3, <1>5, <2>1 DEF ProgramTypes
    <3>2. \A i \in DOMAIN queue[p] : waitingOn'[queue[p][i]] = waitingOn[queue[p][i]]
      BY <1>2, <1>5, <1>6, <3>1
    <3> QED
      BY <1>6, <3>1, <3>2 DEF Proper
  <2>2. CASE p = o
    <3> DEFINE n == Len(queue[o])
    <3>0. queue'[o] = Append(queue[o], g)
      BY <1>5
    <3>1. n \in Nat /\ DOMAIN queue[o] = 1 .. n
      BY <1>3
    <3>2. /\ DOMAIN queue'[o] = 1 .. (n + 1) /\ queue'[o][n + 1] = g
          /\ \A i \in 1 .. n : queue'[o][i] = queue[o][i]
      BY <1>3, <3>0, <3>1
    <3>3. ASSUME NEW i \in 1 .. n
          PROVE  queue[o][i] \in Goroutine /\ queue[o][i] # g /\ waitingOn[queue[o][i]] = o
      <4>1. Proper(o) /\ i \in DOMAIN queue[o]
        BY <1>6, <2>2, <3>1
      <4>2. queue[o][i] # g
        BY <1>2, <4>1
      <4>3. waitingOn[queue[o][i]] = o
        BY <4>1 DEF Proper
      <4> QED
        BY <1>3, <4>1, <4>2, <4>3
    <3>4. \A i \in 1 .. (n + 1) : i = n + 1 \/ i \in 1 .. n
      BY <3>1
    <3>5. \A i \in 1 .. (n + 1) : waitingOn'[queue'[o][i]] = o
      BY <1>5, <3>2, <3>3, <3>4
    <3>6. \A i, j \in 1 .. n : queue[o][i] = queue[o][j] => i = j
      BY <1>6, <2>2, <3>1 DEF Proper
    <3>7. \A i, j \in 1 .. (n + 1) : queue'[o][i] = queue'[o][j] => i = j
      BY <3>2, <3>3, <3>4, <3>6
    <3> QED
      BY <2>2, <3>2, <3>5, <3>7 DEF Proper
  <2> QED
    BY <2>1, <2>2
<1>7. \A p \in Sync : Reachable(p)' <=> Reachable(p)
  BY <1>1 DEF Reachable
<1>8. Waiters'
  <2>1. o # Nil
    BY Disjoint
  <2>2. \A p \in Sync : Proper(p)' \/ (p \in Channel /\ ~Reachable(p)')
    BY <1>6, <1>7 DEF ProgramInv, Waiters
  <2>3. \A x \in Goroutine : waitingOn'[x] # Nil <=> status'[x] \in {"_Gwaiting", "_Gdeadlocked"}
    BY <1>5, <2>1 DEF ProgramInv, Waiters
  <2>4. \A x \in Goroutine : waitingOn'[x] # Nil => waitingOn'[x] \in stack'[x]
    BY <1>1, <1>5 DEF ProgramInv, Waiters
  <2>5. \A x \in Goroutine : status'[x] = "_Gidle" => stack'[x] = {}
    BY <1>1, <1>5 DEF ProgramInv, Waiters
  <2> QED
    BY <2>2, <2>3, <2>4, <2>5 DEF Waiters
<1>9. InAllgs'
  BY <1>1, <1>5 DEF ProgramInv, InAllgs, gcUnmask
<1> QED
  BY <1>4, <1>6, <1>8, <1>9 DEF ProgramInv

LEMMA WakeInv ==
  ASSUME ProgramInv, NEW g \in Goroutine, NEW o \in Sync, Wake(g, o)
  PROVE  ProgramInv' /\ \A p \in Sync : Proper(p) => Proper(p)'
<1> DEFINE h == Head(queue[o])
<1>1. /\ status[g] = "_Grunning" /\ o \in stack[g] /\ queue[o] # <<>> /\ UNCHANGED <<stack, allgs>>
      /\ status[h] = "_Gwaiting"
      /\ status' = [status EXCEPT ![h] = "_Grunning"]
      /\ waitingOn' = [waitingOn EXCEPT ![h] = Nil]
      /\ queue' = [queue EXCEPT ![o] = Tail(@)]
  BY DEF Wake, Running
<1>2. Proper(o) /\ ProgramTypes /\ queue[o] \in Seq(Goroutine)
  BY <1>1, ReachableProper DEF ProgramInv, ProgramTypes
<1>3. /\ 1 \in DOMAIN queue[o] /\ h = queue[o][1] /\ h \in Goroutine
      /\ Tail(queue[o]) \in Seq(Goroutine)
  BY <1>1, <1>2
<1>4. waitingOn[h] = o
  BY <1>2, <1>3 DEF Proper
<1> HIDE DEF h
<1>5. ProgramTypes'
  BY <1>1, <1>2, <1>3 DEF ProgramTypes, Statuses
<1>6. /\ \A x \in Goroutine : waitingOn'[x] = IF x = h THEN Nil ELSE waitingOn[x]
      /\ \A x \in Goroutine : status'[x] = IF x = h THEN "_Grunning" ELSE status[x]
      /\ \A p \in Sync : queue'[p] = IF p = o THEN Tail(queue[o]) ELSE queue[p]
  BY <1>1, <1>2 DEF ProgramTypes
<1>7. ASSUME NEW p \in Sync, Proper(p) PROVE Proper(p)'
  <2>1. CASE p # o
    <3>1. queue'[p] = queue[p] /\ queue[p] \in Seq(Goroutine)
      BY <1>2, <1>6, <2>1 DEF ProgramTypes
    <3>2. \A i \in DOMAIN queue[p] : queue[p][i] \in Goroutine /\ waitingOn[queue[p][i]] = p
      BY <1>7, <3>1 DEF Proper
    <3>3. \A i \in DOMAIN queue[p] : queue[p][i] # h
      BY <1>4, <2>1, <3>2
    <3> QED
      BY <1>6, <1>7, <3>1, <3>2, <3>3 DEF Proper
  <2>2. CASE p = o
    <3> DEFINE n == Len(queue[o])
    <3>1. n \in Nat /\ n >= 1 /\ DOMAIN queue[o] = 1 .. n /\ queue'[o] = Tail(queue[o])
      BY <1>1, <1>2, <1>6
    <3>2. /\ DOMAIN queue'[o] = 1 .. (n - 1)
          /\ \A i \in 1 .. (n - 1) : queue'[o][i] = queue[o][i + 1]
      <4>1. \A s \in Seq(Goroutine) : s # <<>> =>
              /\ DOMAIN Tail(s) = 1 .. (Len(s) - 1)
              /\ \A i \in 1 .. (Len(s) - 1) : Tail(s)[i] = s[i + 1]
        OBVIOUS
      <4> QED
        BY <1>1, <1>2, <3>1, <4>1
    <3>3. \A i, j \in 1 .. n : queue[o][i] = queue[o][j] => i = j
      BY <1>2, <3>1 DEF Proper
    <3>4. ASSUME NEW i \in 1 .. (n - 1) PROVE waitingOn'[queue'[o][i]] = o
      <4>1. i + 1 \in 1 .. n /\ 1 \in 1 .. n /\ i + 1 # 1
        BY <3>1
      <4>2. queue[o][i + 1] # h /\ queue[o][i + 1] \in Goroutine /\ waitingOn[queue[o][i + 1]] = o
        BY <1>2, <1>3, <3>1, <3>3, <4>1 DEF Proper
      <4> QED
        BY <1>6, <3>2, <4>2
    <3>5. \A i, j \in 1 .. (n - 1) : queue'[o][i] = queue'[o][j] => i = j
      <4> SUFFICES ASSUME NEW i \in 1 .. (n - 1), NEW j \in 1 .. (n - 1), queue'[o][i] = queue'[o][j]
                   PROVE  i = j
        OBVIOUS
      <4>1. i + 1 \in 1 .. n /\ j + 1 \in 1 .. n
        BY <3>1
      <4>2. queue[o][i + 1] = queue[o][j + 1]
        BY <3>2
      <4>3. i + 1 = j + 1
        BY <3>3, <4>1, <4>2
      <4> QED
        BY <4>3
    <3> QED
      BY <2>2, <3>2, <3>4, <3>5 DEF Proper
  <2> QED
    BY <2>1, <2>2
<1>8. \A p \in Sync : Reachable(p)' <=> Reachable(p)
  BY <1>1 DEF Reachable
<1>9. Waiters'
  <2>1. \A p \in Sync : Proper(p)' \/ (p \in Channel /\ ~Reachable(p)')
    BY <1>7, <1>8 DEF ProgramInv, Waiters
  <2>2. \A x \in Goroutine : waitingOn'[x] # Nil <=> status'[x] \in {"_Gwaiting", "_Gdeadlocked"}
    BY <1>6 DEF ProgramInv, Waiters
  <2>3. \A x \in Goroutine : waitingOn'[x] # Nil => waitingOn'[x] \in stack'[x]
    BY <1>1, <1>6 DEF ProgramInv, Waiters
  <2>4. \A x \in Goroutine : status'[x] = "_Gidle" => stack'[x] = {}
    BY <1>1, <1>6 DEF ProgramInv, Waiters
  <2> QED
    BY <2>1, <2>2, <2>3, <2>4 DEF Waiters
<1>10. InAllgs'
  BY <1>1, <1>6 DEF ProgramInv, InAllgs, gcUnmask
<1> QED
  BY <1>5, <1>7, <1>9, <1>10 DEF ProgramInv

LEMMA MutateInv ==
  ASSUME ProgramInv, Tables, UNCHANGED gcdetectdeadlocks, NEW g \in Goroutine, Mutate(g)
  PROVE  ProgramInv' /\ \A p \in Sync : Proper(p) => Proper(p)'
<1>1. CASE \E o \in Sync : LoadGlobal(g, o) \/ Forget(g, o)
  BY <1>1, LoadForgetInv
<1>2. CASE \E o \in Sync : Park(g, o)
  BY <1>2, ParkInv
<1>3. CASE \E o \in Sync : Wake(g, o)
  BY <1>3, WakeInv
<1>4. CASE Goexit(g)
  BY <1>4, GoexitInv
<1>5. CASE \E h \in Goroutine, args \in SUBSET stack[g] : Go(g, h, args)
  BY <1>5, GoInv
<1> QED
  BY <1>1, <1>2, <1>3, <1>4, <1>5 DEF Mutate

-----------------------------------------------------------------------------
(* Taking goroutines off the queues.                                       *)
\* A set of natural numbers that holds 0 and with each number the next holds all of them.
LEMMA SetInduction ==
  ASSUME NEW S, 0 \in S, \A n \in Nat : n \in S => n + 1 \in S
  PROVE  Nat \subseteq S
<1> SUFFICES ASSUME Nat \ S # {} PROVE FALSE
  OBVIOUS
<1>1. PICK n \in Nat \ S : \A k \in Nat \ S : n <= k
  BY Least
<1>2. n # 0
  OBVIOUS
<1>3. n - 1 \in Nat /\ ~(n <= n - 1)
  BY <1>2
<1>4. n - 1 \in S
  BY <1>1, <1>3
<1> QED
  BY <1>3, <1>4

\* Every rank up to the cardinality is that of some element.
LEMMA RankTaken ==
  ASSUME NEW L \in Nat, NEW K \in SUBSET (1 .. L), NEW n \in 1 .. Cardinality(K)
  PROVE  \E i \in K : Cardinality({j \in K : j <= i}) = n
<1> DEFINE Low(m) == {j \in K : j <= m}
           S == {m \in Nat : \A r \in 1 .. Cardinality(Low(m)) : \E i \in K : Cardinality(Low(i)) = r}
<1>0. \A j \in K : j \in Nat /\ 1 <= j /\ j <= L
  OBVIOUS
<1>1. \A m \in Nat : IsFiniteSet(Low(m)) /\ Cardinality(Low(m)) \in Nat
  <2>1. IsFiniteSet(1 .. L)
    BY FS_Interval
  <2> SUFFICES ASSUME NEW m \in Nat PROVE IsFiniteSet(Low(m)) /\ Cardinality(Low(m)) \in Nat
    OBVIOUS
  <2>2. IsFiniteSet(Low(m))
    <3>1. Low(m) \in SUBSET (1 .. L)
      OBVIOUS
    <3> HIDE DEF Low
    <3> QED
      BY <2>1, <3>1, FS_Subset
  <2> HIDE DEF Low
  <2> QED
    BY <2>2, FS_CardinalityType
<1>2. 0 \in S
  <2>1. Low(0) = {}
    <3>1. \A j \in K : ~(j <= 0)
      BY <1>0
    <3> QED
      BY <3>1
  <2>2. Cardinality(Low(0)) = 0
    BY <2>1, FS_EmptySet
  <2> HIDE DEF Low
  <2> QED
    BY <2>2
<1>3. ASSUME NEW m \in Nat, m \in S PROVE m + 1 \in S
  <2>1. CASE m + 1 \notin K
    <3>1. \A j \in K : j <= m + 1 <=> j <= m
      BY <1>0, <2>1
    <3>2. Low(m + 1) = Low(m)
      BY <3>1
    <3> HIDE DEF Low
    <3> QED
      BY <1>3, <3>2
  <2>2. CASE m + 1 \in K
    <3>0. (\A j \in K : j <= m + 1 <=> j <= m \/ j = m + 1) /\ ~(m + 1 <= m)
      BY <1>0
    <3>1. Low(m + 1) = Low(m) \cup {m + 1} /\ m + 1 \notin Low(m)
      BY <2>2, <3>0
    <3> HIDE DEF Low
    <3>2. Cardinality(Low(m + 1)) = Cardinality(Low(m)) + 1
      BY <1>1, <3>1, FS_AddElement
    <3>3. ASSUME NEW r \in 1 .. Cardinality(Low(m + 1))
          PROVE  \E i \in K : Cardinality(Low(i)) = r
      <4>1. r \in 1 .. Cardinality(Low(m)) \/ r = Cardinality(Low(m + 1))
        BY <1>1, <3>2
      <4> QED
        BY <1>3, <2>2, <4>1
    <3> QED
      BY <3>3
  <2> QED
    BY <2>1, <2>2
<1>4. L \in S
  <2> HIDE DEF S
  <2> QED
    BY <1>2, <1>3, SetInduction
<1>5. Low(L) = K
  BY <1>0
<1> QED
  BY <1>4, <1>5

LEMMA WithoutKeeps ==
  ASSUME NEW q \in Seq(Goroutine), NEW gs
  PROVE  /\ Without(q, gs) \in Seq(Goroutine)
         /\ \A n \in DOMAIN Without(q, gs) :
              \E i \in DOMAIN q : Without(q, gs)[n] = q[i] /\ q[i] \notin gs
         /\ (\A i, j \in DOMAIN q : q[i] = q[j] => i = j)
            => \A m, n \in DOMAIN Without(q, gs) : Without(q, gs)[m] = Without(q, gs)[n] => m = n
<1> DEFINE kept == {i \in DOMAIN q : q[i] \notin gs}
           Rank(i) == Cardinality({j \in kept : j <= i})
           at(n) == CHOOSE i \in kept : Rank(i) = n
<1>1. Len(q) \in Nat /\ DOMAIN q = 1 .. Len(q) /\ kept \in SUBSET (1 .. Len(q))
  OBVIOUS
<1>2. Cardinality(kept) \in Nat
  <2>1. IsFiniteSet(1 .. Len(q))
    BY FS_Interval
  <2>2. IsFiniteSet(kept)
    BY <1>1, <2>1, FS_Subset
  <2> HIDE DEF kept
  <2> QED
    BY <2>2, FS_CardinalityType
<1>3. ASSUME NEW n \in 1 .. Cardinality(kept) PROVE at(n) \in kept /\ Rank(at(n)) = n
  <2>1. \E i \in kept : Rank(i) = n
    <3> HIDE DEF kept
    <3> QED
      BY <1>1, RankTaken
  <2> HIDE DEF kept, Rank
  <2> QED
    BY <2>1
<1>4. Without(q, gs) = [n \in 1 .. Cardinality(kept) |-> q[at(n)]]
  BY DEF Without
<1> HIDE DEF at, Rank
<1>5. \A n \in 1 .. Cardinality(kept) : at(n) \in DOMAIN q /\ q[at(n)] \in Goroutine /\ q[at(n)] \notin gs
  BY <1>3
<1> HIDE DEF kept
<1>6. Without(q, gs) \in Seq(Goroutine) /\ DOMAIN Without(q, gs) = 1 .. Cardinality(kept)
  BY <1>2, <1>4, <1>5
<1>7. ASSUME \A i, j \in DOMAIN q : q[i] = q[j] => i = j,
             NEW m \in DOMAIN Without(q, gs), NEW n \in DOMAIN Without(q, gs),
             Without(q, gs)[m] = Without(q, gs)[n]
      PROVE  m = n
  <2>1. m \in 1 .. Cardinality(kept) /\ n \in 1 .. Cardinality(kept) /\ q[at(m)] = q[at(n)]
    BY <1>4, <1>6, <1>7
  <2>2. at(m) = at(n)
    BY <1>5, <1>7, <2>1
  <2> QED
    BY <1>3, <2>1, <2>2
<1>8. \A n \in DOMAIN Without(q, gs) :
        \E i \in DOMAIN q : Without(q, gs)[n] = q[i] /\ q[i] \notin gs
  BY <1>4, <1>5, <1>6
<1> QED
  BY <1>6, <1>7, <1>8

\* Reclaiming goroutines that wait on nothing that others hold.
LEMMA ReclaimInv ==
  ASSUME ProgramInv, UNCHANGED allgs, NEW gs \in SUBSET Goroutine, gcGoexit(gs),
         \A g \in gs : status[g] = "_Gwaiting",
         \A g \in gs : waitingOn[g] \notin Globals /\ \A h \in Goroutine \ gs : waitingOn[g] \notin stack[h]
  PROVE  ProgramInv'
<1>1. ProgramTypes /\ Sync = Channel \cup Sema
  BY DEF ProgramInv, Sync
<1>2. /\ \A g \in Goroutine : status'[g] = IF g \in gs THEN "_Gdead" ELSE status[g]
      /\ \A g \in Goroutine : stack'[g] = IF g \in gs THEN {} ELSE stack[g]
      /\ \A g \in Goroutine : waitingOn'[g] = IF g \in gs THEN Nil ELSE waitingOn[g]
      /\ \A o \in Sync : queue'[o] = IF o \in Sema THEN Without(queue[o], gs) ELSE queue[o]
  BY DEF gcGoexit
<1>3. ProgramTypes'
  <2>1. \A o \in Sync : queue'[o] \in Seq(Goroutine)
    BY <1>1, <1>2, WithoutKeeps DEF ProgramTypes
  <2>2. queue' = [o \in Sync |-> queue'[o]]
    BY DEF gcGoexit
  <2>3. queue' \in [Sync -> Seq(Goroutine)]
    BY <2>1, <2>2
  <2>4. status' \in [Goroutine -> Statuses]
    BY <1>1 DEF gcGoexit, ProgramTypes, Statuses
  <2>5. stack' \in [Goroutine -> SUBSET Sync]
    BY <1>1 DEF gcGoexit, ProgramTypes
  <2>6. waitingOn' \in [Goroutine -> Sync \cup {Nil}]
    BY <1>1 DEF gcGoexit, ProgramTypes
  <2> QED
    BY <2>3, <2>4, <2>5, <2>6 DEF ProgramTypes
<1>4. \A p \in Sync : Reachable(p)' => Reachable(p) /\ \A g \in gs : waitingOn[g] # p
  BY <1>2 DEF Reachable
<1>5. ASSUME NEW o \in Sync PROVE Proper(o)' \/ (o \in Channel /\ ~Reachable(o)')
  <2>1. CASE o \in Sema
    <3>1. Proper(o) /\ queue[o] \in Seq(Goroutine) /\ queue'[o] = Without(queue[o], gs)
      BY <1>1, <1>2, <2>1, SemaProper DEF ProgramInv, ProgramTypes
    <3>2. \A n \in DOMAIN queue'[o] : \E i \in DOMAIN queue[o] : queue'[o][n] = queue[o][i]
                                                               /\ queue[o][i] \notin gs
      BY <3>1, WithoutKeeps
    <3>3. \A i \in DOMAIN queue[o] : queue[o][i] \in Goroutine /\ waitingOn[queue[o][i]] = o
      BY <3>1 DEF Proper
    <3>4. \A n \in DOMAIN queue'[o] : waitingOn'[queue'[o][n]] = o
      BY <1>2, <3>2, <3>3
    <3>5. \A m, n \in DOMAIN queue'[o] : queue'[o][m] = queue'[o][n] => m = n
      BY <3>1, WithoutKeeps DEF Proper
    <3> QED
      BY <3>4, <3>5 DEF Proper
  <2>2. CASE o \notin Sema /\ Reachable(o)'
    <3>1. Reachable(o) /\ \A g \in gs : waitingOn[g] # o
      BY <1>4, <2>2
    <3>2. Proper(o)
      BY <3>1 DEF ProgramInv, Waiters
    <3>3. queue'[o] = queue[o] /\ queue[o] \in Seq(Goroutine)
      BY <1>1, <1>2, <2>2 DEF ProgramTypes
    <3>4. \A i \in DOMAIN queue[o] : queue[o][i] \in Goroutine \ gs /\ waitingOn[queue[o][i]] = o
      BY <3>1, <3>2, <3>3 DEF Proper
    <3> QED
      BY <1>2, <3>2, <3>3, <3>4 DEF Proper
  <2> QED
    BY <1>1, <2>1, <2>2
<1>6. Waiters'
  <2>1. \A g \in Goroutine : waitingOn'[g] # Nil <=> status'[g] \in {"_Gwaiting", "_Gdeadlocked"}
    BY <1>2 DEF ProgramInv, Waiters
  <2>2. \A g \in Goroutine : waitingOn'[g] # Nil => waitingOn'[g] \in stack'[g]
    BY <1>2 DEF ProgramInv, Waiters
  <2>3. \A g \in Goroutine : status'[g] = "_Gidle" => stack'[g] = {}
    BY <1>2 DEF ProgramInv, Waiters
  <2> QED
    BY <1>5, <2>1, <2>2, <2>3 DEF Waiters
<1>7. InAllgs'
  BY <1>2 DEF ProgramInv, InAllgs, gcUnmask
<1> QED
  BY <1>3, <1>6, <1>7 DEF ProgramInv

LEMMA KeepInv ==
  ASSUME ProgramInv, UNCHANGED allgs, NEW gs \in SUBSET Goroutine, Keep(gs),
         \A g \in gs : status[g] = "_Gwaiting"
  PROVE  ProgramInv'
<1>1. /\ \A g \in Goroutine : status'[g] = IF g \in gs THEN "_Gdeadlocked" ELSE status[g]
      /\ UNCHANGED <<stack, waitingOn, queue>>
  BY DEF Keep
<1>2. ProgramTypes'
  BY DEF Keep, ProgramInv, ProgramTypes, Statuses
<1>3. InAllgs'
  BY <1>1 DEF ProgramInv, InAllgs, gcUnmask
<1>4. \A g \in Goroutine : status'[g] \in {"_Gwaiting", "_Gdeadlocked"}
                           <=> status[g] \in {"_Gwaiting", "_Gdeadlocked"}
  BY <1>1
<1>5. \A g \in Goroutine : \A o \in stack'[g] : Reachable(o)
  BY <1>1 DEF Reachable
<1>6. \A g \in Goroutine : status'[g] = "_Gidle" => stack'[g] = {}
  BY <1>1 DEF ProgramInv, Waiters
<1> QED
  BY <1>1, <1>2, <1>3, <1>4, <1>5, <1>6, SameQueues

-----------------------------------------------------------------------------
(* A sudog that is queued while a cycle marks is shaded: g.waiting, the    *)
(* waitlink of the last waiter, or a link of the treap is set to it.       *)
LEMMA Greatest ==
  ASSUME NEW S \in SUBSET Nat, S # {}, NEW m \in Nat, \A k \in S : k <= m
  PROVE  \E j \in S : \A k \in S : k <= j
<1> DEFINE T == {d \in Nat : \E k \in S : d = m - k}
<1>1. T \in SUBSET Nat
  OBVIOUS
<1>2. T # {}
  <2>1. PICK k \in S : TRUE
    OBVIOUS
  <2>2. m - k \in Nat
    BY <2>1
  <2> QED
    BY <2>1, <2>2
<1>3. PICK d \in T : \A e \in T : d <= e
  <2> HIDE DEF T
  <2> QED
    BY <1>1, <1>2, Least
<1>4. PICK j \in S : d = m - j
  OBVIOUS
<1>5. \A k \in S : m - k \in T
  OBVIOUS
<1>6. \A k \in S : m - j <= m - k
  BY <1>3, <1>4, <1>5
<1>7. \A k \in S : k <= j
  BY <1>6
<1> QED
  BY <1>7

LEMMA StoredWord ==
  ASSUME NEW obj \in Goroutine \cup Sudog \cup Channel, NEW i \in DOMAIN WordsOf(obj)',
         WordsOf(obj)'[i] # Nil, ~IsMasked(WordsOf(obj)'[i]),
         Word(WordsOf(obj), i) # WordsOf(obj)'[i]
  PROVE  WordsOf(obj)'[i] \in Stored
<1> DEFINE old == WordsOf(obj)
           new == WordsOf(obj)'
<1>1. Word(new, i) = new[i]
  BY DEF Word
<1>2. Word(old, i) # Word(new, i)
  BY <1>1
<1>3. old # new
  BY <1>2
<1>4. new[i] \in Changed(old, new)
  <2> HIDE DEF old, new
  <2>1. i \in DOMAIN old \cup DOMAIN new /\ new[i] # Nil /\ ~IsMasked(new[i])
    BY DEF new
  <2> QED
    BY <1>1, <1>2, <2>1 DEF Changed
<1> HIDE DEF old, new
<1>5. <<old, new>>[1] = old /\ <<old, new>>[2] = new
  OBVIOUS
<1>6. Changed(old, new) \subseteq Stored
  BY <1>3, <1>5 DEF Stored, old, new
<1> QED
  BY <1>4, <1>6 DEF new

LEMMA StoredTreap ==
  ASSUME Treap' # Treap, Treap' # Nil, ~IsMasked(Treap')
  PROVE  Treap' \in Stored
<1> DEFINE old == <<Treap>>
           new == <<Treap'>>
<1>1. Word(old, 1) = Treap /\ Word(new, 1) = Treap' /\ 1 \in DOMAIN old
  BY DEF Word
<1>2. Treap' \in Changed(old, new)
  <2> HIDE DEF old, new
  <2> QED
    BY <1>1 DEF Changed
<1>3. old # new
  BY <1>1
<1> HIDE DEF old, new
<1>4. <<old, new>>[1] = old /\ <<old, new>>[2] = new
  OBVIOUS
<1>5. Changed(old, new) \subseteq Stored
  BY <1>3, <1>4 DEF Stored, old, new
<1> QED
  BY <1>2, <1>5

\* Nobody finds the sudog of a running goroutine in the treap.
LEMMA FirstIsQueued ==
  ASSUME ProgramInv, NEW g \in Goroutine, status[g] = "_Grunning", NEW n \in Nat
  PROVE  FirstFrom(n) # SudogOf[g]
<1> SUFFICES ASSUME FirstFrom(n) = SudogOf[g] PROVE FALSE
  OBVIOUS
<1>1. FirstFrom(n) # Nil
  BY Disjoint
<1>2. PICK o \in Sema : queue[o] # <<>> /\ FirstFrom(n) = SudogOf[Head(queue[o])]
  BY <1>1, FirstIsHead
<1>3. o \in Sync /\ Proper(o) /\ queue[o] \in Seq(Goroutine)
  BY SemaProper DEF ProgramInv, ProgramTypes
<1>4. 1 \in DOMAIN queue[o] /\ Head(queue[o]) = queue[o][1] /\ queue[o][1] \in Goroutine
  BY <1>2, <1>3
<1>5. queue[o][1] # g
  BY <1>3, <1>4, RunningWaitsForNothing
<1> QED
  BY <1>2, <1>4, <1>5, SudogAssumption

\* The new waiter is the first one found from every place before which nobody waits.
LEMMA FirstAfterPark ==
  ASSUME ProgramInv, NEW g \in Goroutine, NEW o \in Sema, Park(g, o), queue[o] = <<>>,
         NEW n \in Nat, n <= Place(o), \A k \in Busy : k >= n => k > Place(o)
  PROVE  FirstFrom(n)' = SudogOf[g]
<1> DEFINE m == Place(o)
<1>1. m \in DOMAIN SemaSeq /\ SemaSeq[m] = o /\ m \in Nat
  BY PlaceOf
<1>2. o \in Sync /\ queue \in [Sync -> Seq(Goroutine)] /\ queue' = [queue EXCEPT ![o] = Append(@, g)]
  BY Disjoint DEF Park, ProgramInv, ProgramTypes
<1>3. queue'[o] = <<g>>
  BY <1>2
<1>4. queue'[o] # <<>> /\ Head(queue'[o]) = g
  BY <1>3
<1>5. \A k \in DOMAIN SemaSeq : SemaSeq[k] \in Sync
  BY Disjoint DEF Sema
<1>6. m \in Busy'
  BY <1>1, <1>4 DEF Busy
<1>7. ASSUME NEW k \in Busy', k >= n PROVE m <= k
  <2>1. k \in DOMAIN SemaSeq /\ k \in Nat /\ queue'[SemaSeq[k]] # <<>>
    BY SyncAssumption DEF Busy
  <2>2. CASE k = m
    BY <1>1, <2>2
  <2>3. CASE k # m
    <3>1. SemaSeq[k] # o
      BY <1>1, <2>1, <2>3, SyncAssumption
    <3>2. queue'[SemaSeq[k]] = queue[SemaSeq[k]]
      BY <1>2, <1>5, <2>1, <3>1
    <3>3. k \in Busy
      BY <2>1, <3>2 DEF Busy
    <3>4. k > m
      BY <1>7, <3>3
    <3> QED
      BY <1>1, <2>1, <3>4
  <2> QED
    BY <2>2, <2>3
<1> DEFINE rest == {j \in Busy' : j >= n}
<1>8. m \in rest /\ \A k \in rest : m <= k
  BY <1>6, <1>7
<1>9. \A j \in rest : j \in Nat
  BY SyncAssumption DEF Busy
<1>10. (CHOOSE j \in rest : \A k \in rest : j <= k) = m
  <2> HIDE DEF rest, m
  <2>1. \A j \in rest : (\A k \in rest : j <= k) => j = m
    BY <1>1, <1>8, <1>9
  <2> QED
    BY <1>8, <2>1
<1>11. rest # {}
  BY <1>8
<1>12. FirstFrom(n)' = SudogOf[Head(queue'[SemaSeq[m]])]
  BY <1>10, <1>11 DEF FirstFrom
<1> QED
  BY <1>1, <1>4, <1>12

LEMMA ParkStores ==
  ASSUME ProgramInv, UNCHANGED gcdetectdeadlocks, NEW g \in Goroutine, NEW o \in Sync, Park(g, o)
  PROVE  SudogOf[g] \in Stored
<1>1. /\ status[g] = "_Grunning" /\ o \in stack[g]
      /\ waitingOn' = [waitingOn EXCEPT ![g] = o]
      /\ queue' = [queue EXCEPT ![o] = Append(@, g)]
  BY DEF Park, Running
<1>2. /\ SudogOf[g] # Nil /\ ~IsMasked(SudogOf[g]) /\ SudogOf[g] \in Sudog
      /\ \A h \in Goroutine : SudogOf[h] \in Sudog
  BY Disjoint, MaskedAddress
<1>3. waitingOn[g] = Nil /\ \A p \in Sync : Proper(p) => \A i \in DOMAIN queue[p] : queue[p][i] # g
  BY <1>1, RunningWaitsForNothing
<1>4. ProgramTypes /\ queue[o] \in Seq(Goroutine) /\ Proper(o)
  BY <1>1, ReachableProper DEF ProgramInv, ProgramTypes
<1>5. /\ \A x \in Goroutine : waitingOn'[x] = IF x = g THEN o ELSE waitingOn[x]
      /\ \A p \in Sync : queue'[p] = IF p = o THEN Append(queue[o], g) ELSE queue[p]
  BY <1>1, <1>4 DEF ProgramTypes
<1>6. CASE o \in Channel
  <2>1. WordsOf(g)' = WordsOfG(g)' /\ WordsOf(g) = WordsOfG(g)
    <3>1. g \notin Sudog /\ g \notin Channel /\ g # AllgsArray
      BY Disjoint
    <3> QED
      BY <3>1 DEF WordsOf
  <2>2. 1 \in DOMAIN WordsOfG(g)' /\ WordsOfG(g)'[1] = SudogOf[g]
    BY <1>5, <1>6 DEF WordsOfG
  <2>3. Word(WordsOfG(g), 1) = Nil
    <3>1. Nil \notin Channel
      BY Disjoint DEF Sync
    <3> QED
      BY <1>3, <3>1 DEF WordsOfG, Word
  <2> QED
    BY <1>2, <2>1, <2>2, <2>3, StoredWord
<1>7. ASSUME NEW t \in Goroutine, NEW p \in Sema, t # g, waitingOn[t] = p,
             \/ NextInTreap(p, t)' = SudogOf[g] /\ NextInTreap(p, t) # SudogOf[g]
             \/ /\ After(SudogsAt(p)', SudogOf[t]) = SudogOf[g]
                /\ After(SudogsAt(p), SudogOf[t]) # SudogOf[g]
      PROVE  SudogOf[g] \in Stored
  <2>1. p \notin Channel /\ waitingOn'[t] = p
    BY <1>5, <1>7, Disjoint
  <2>2. WordsOf(SudogOf[t]) = WordsOfSudog(t) /\ WordsOf(SudogOf[t])' = WordsOfSudog(t)'
    <3>1. /\ SudogOf[t] \in Sudog /\ SudogOf[t] \notin Goroutine
          /\ SudogOf[t] \notin Channel /\ SudogOf[t] # AllgsArray
      BY Disjoint, AddressAssumption
    <3>2. (CHOOSE h \in Goroutine : SudogOf[h] = SudogOf[t]) = t
      BY SudogOwner
    <3> QED
      BY <3>1, <3>2 DEF WordsOf
  <2>3. WordsOfSudog(t) = <<t, NextInTreap(p, t), gcMask(p), After(SudogsAt(p), SudogOf[t]), Nil>>
    BY <1>7, <2>1 DEF WordsOfSudog
  <2>4. WordsOfSudog(t)' = <<t, NextInTreap(p, t)', gcMask(p)', After(SudogsAt(p)', SudogOf[t]), Nil>>
    BY <2>1 DEF WordsOfSudog, After
  <2>5. CASE NextInTreap(p, t)' = SudogOf[g] /\ NextInTreap(p, t) # SudogOf[g]
    <3>1. 2 \in DOMAIN WordsOfSudog(t)' /\ WordsOfSudog(t)'[2] = SudogOf[g]
      BY <2>4, <2>5
    <3>2. Word(WordsOfSudog(t), 2) # SudogOf[g]
      BY <2>3, <2>5 DEF Word
    <3> QED
      BY <1>2, <2>2, <3>1, <3>2, StoredWord
  <2>6. CASE /\ After(SudogsAt(p)', SudogOf[t]) = SudogOf[g]
             /\ After(SudogsAt(p), SudogOf[t]) # SudogOf[g]
    <3>1. 4 \in DOMAIN WordsOfSudog(t)' /\ WordsOfSudog(t)'[4] = SudogOf[g]
      BY <2>4, <2>6
    <3>2. Word(WordsOfSudog(t), 4) # SudogOf[g]
      BY <2>3, <2>6 DEF Word
    <3> QED
      BY <1>2, <2>2, <3>1, <3>2, StoredWord
  <2> QED
    BY <1>7, <2>5, <2>6
<1>8. CASE o \in Sema /\ queue[o] # <<>>
  <2> DEFINE n == Len(queue[o])
             t == queue[o][n]
  <2>1. n \in Nat /\ n >= 1 /\ DOMAIN queue[o] = 1 .. n /\ t \in Goroutine
    BY <1>4, <1>8
  <2>2. waitingOn[t] = o /\ t # g
    BY <1>3, <1>4, <2>1 DEF Proper
  <2>3. queue'[o] = Append(queue[o], g)
    BY <1>5
  <2>4. /\ DOMAIN queue'[o] = 1 .. (n + 1) /\ queue'[o][n + 1] = g
        /\ \A k \in 1 .. n : queue'[o][k] = queue[o][k]
    BY <1>4, <2>3
  <2>5. SudogsAt(o)' = [k \in 1 .. (n + 1) |-> SudogOf[queue'[o][k]]]
    BY <2>4 DEF SudogsAt
  <2>6. \A k \in 1 .. n : SudogsAt(o)'[k] = SudogOf[t] <=> k = n
    <3>1. \A k \in 1 .. n : SudogsAt(o)'[k] = SudogOf[queue[o][k]]
      BY <2>1, <2>4, <2>5
    <3>2. \A k \in 1 .. n : queue[o][k] \in Goroutine /\ (queue[o][k] = t => k = n)
      BY <1>4, <2>1 DEF Proper
    <3> QED
      BY <2>1, <3>1, <3>2, SudogAssumption
  <2>7. After(SudogsAt(o)', SudogOf[t]) = SudogOf[g]
    <3>1. Len(SudogsAt(o)') - 1 = n
      BY <2>1, <2>5
    <3>2. n \in 1 .. n /\ SudogsAt(o)'[1 + n] = SudogOf[g]
      BY <2>1, <2>4, <2>5
    <3>3. (CHOOSE k \in 1 .. n : SudogsAt(o)'[k] = SudogOf[t]) = n
      BY <2>6, <3>2
    <3>4. \E k \in 1 .. n : SudogsAt(o)'[k] = SudogOf[t]
      BY <2>6, <3>2
    <3> QED
      BY <3>1, <3>2, <3>3, <3>4 DEF After
  <2>8. After(SudogsAt(o), SudogOf[t]) # SudogOf[g]
    <3> SUFFICES ASSUME After(SudogsAt(o), SudogOf[t]) = SudogOf[g] PROVE FALSE
      OBVIOUS
    <3>1. PICK k \in DOMAIN queue[o] : SudogOf[g] = SudogOf[queue[o][k]]
      BY <1>2, <1>4, AfterInQueue
    <3> QED
      BY <1>3, <1>4, <2>1, <3>1, SudogAssumption
  <2> HIDE DEF t
  <2> QED
    BY <1>7, <1>8, <2>1, <2>2, <2>7, <2>8
<1>9. CASE o \in Sema /\ queue[o] = <<>>
  <2> DEFINE m == Place(o)
             lower == {k \in Busy : k < m}
  <2>1. m \in DOMAIN SemaSeq /\ SemaSeq[m] = o /\ m \in Nat /\ m \notin Busy /\ m >= 1
    BY <1>9, PlaceOf, SyncAssumption DEF Busy
  <2>2. Busy \subseteq Nat /\ \A k \in Busy : k >= 1
    BY SyncAssumption DEF Busy
  <2>3. CASE lower = {}
    <3>1. \A k \in Busy : k >= 1 => k > m
      BY <2>1, <2>2, <2>3
    <3>2. FirstFrom(1)' = SudogOf[g]
      BY <1>1, <1>9, <2>1, <3>1, FirstAfterPark
    <3>3. FirstFrom(1) # SudogOf[g]
      BY <1>1, FirstIsQueued
    <3> QED
      BY <1>2, <3>2, <3>3, StoredTreap DEF Treap
  <2>4. CASE lower # {}
    <3>0. \A k \in lower : k \in Nat /\ k \in Busy /\ k < m /\ k <= m
      <4>1. m \in Nat
        BY <2>1
      <4> HIDE DEF m
      <4> QED
        BY <2>2, <4>1
    <3>1. lower \in SUBSET Nat /\ \A k \in lower : k <= m
      BY <3>0
    <3>2. PICK l \in lower : \A k \in lower : k <= l
      <4>1. m \in Nat
        BY <2>1
      <4> HIDE DEF m, lower
      <4> QED
        BY <2>4, <3>1, <4>1, Greatest
    <3>3. l \in Busy /\ l \in Nat /\ l < m
      BY <3>0
    <3> DEFINE p == SemaSeq[l]
    <3>4. p \in Sema /\ p \in Sync /\ queue[p] # <<>> /\ p # o
      BY <1>9, <3>3, Disjoint DEF Busy, Sema
    <3>5. Proper(p) /\ queue[p] \in Seq(Goroutine)
      BY <1>4, <3>4, SemaProper DEF ProgramInv, ProgramTypes
    <3>6. PICK t \in Goroutine : 1 \in DOMAIN queue[p] /\ t = Head(queue[p]) /\ t = queue[p][1]
      <4>1. 1 \in DOMAIN queue[p] /\ Head(queue[p]) = queue[p][1] /\ queue[p][1] \in Goroutine
        BY <3>4, <3>5
      <4> QED
        BY <4>1
    <3>7. waitingOn[t] = p /\ t # g
      BY <1>3, <3>4, <3>5, <3>6 DEF Proper
    <3>8. Place(p) = l
      BY <3>3, <3>4, PlaceOf, SyncAssumption DEF Busy
    <3>9. \A k \in Busy : k >= l + 1 => k > m
      BY <2>1, <2>2, <3>2, <3>3
    <3>10. l + 1 \in Nat /\ l + 1 <= m
      BY <2>1, <3>3
    <3>11. FirstFrom(l + 1)' = SudogOf[g]
      BY <1>1, <1>9, <3>9, <3>10, FirstAfterPark
    <3>12. NextInTreap(p, t)' = SudogOf[g]
      <4>1. queue'[p] = queue[p]
        BY <1>5, <3>4
      <4> HIDE DEF p
      <4>2. t = Head(queue'[p])
        BY <3>6, <4>1
      <4>3. NextInTreap(p, t)' = FirstFrom(Place(p) + 1)'
        BY <4>2, Zenon DEF NextInTreap
      <4>4. FirstFrom(Place(p) + 1)' = FirstFrom(l + 1)'
        BY <3>8
      <4> QED
        BY <3>11, <4>3, <4>4
    <3>13. NextInTreap(p, t) # SudogOf[g]
      <4>1. NextInTreap(p, t) = FirstFrom(l + 1)
        BY <3>6, <3>8 DEF NextInTreap
      <4> QED
        BY <1>1, <3>10, <4>1, FirstIsQueued
    <3> HIDE DEF p
    <3> QED
      BY <1>7, <3>4, <3>6, <3>7, <3>12, <3>13
  <2> QED
    BY <2>3, <2>4
<1> QED
  BY <1>6, <1>8, <1>9 DEF Sync

-----------------------------------------------------------------------------
(* LinkedInv is inductive.                                                 *)
LEMMA LinkedInit == ASSUME Init PROVE LinkedInv
<1>1. RootsInv
  BY RootsInvInit
<1>2. ProgramTypes
  BY DEF Init, ProgramTypes, Statuses
<1>3. PICK main \in Goroutine : \A g \in Goroutine : status[g] = "_Grunning" <=> g = main
  BY DEF Init
<1>4. (CHOOSE g \in Goroutine : status[g] = "_Grunning") = main
  BY <1>3
<1>5. allgs = <<gcMask(main)>>
  BY <1>4 DEF Init
<1>6. InAllgs
  <2>1. \A g \in Goroutine : status[g] # "_Gidle" => g = main
    BY <1>3 DEF Init
  <2>2. 1 \in 1 .. Len(allgs) /\ gcUnmask(allgs[1]) = main
    BY <1>5, MaskOfG
  <2> QED
    BY <2>1, <2>2 DEF InAllgs
<1>7. \A o \in Sync : Proper(o)
  BY DEF Init, Proper
<1>8. Waiters
  BY <1>7 DEF Init, Waiters
<1>9. Scanned /\ NoneFound /\ SudogsAlive
  BY DEF Init, Scanned, NoneFound, SudogsAlive, Idle, LoopAt
<1> QED
  BY <1>1, <1>2, <1>6, <1>8, <1>9 DEF LinkedInv, ProgramInv

\* Steps that leave the program alone, forget no mark and take no root job.
LEMMA ScannedFrame ==
  ASSUME Scanned, UNCHANGED <<phase, stack, waitingOn, markrootNext>>,
         marked \subseteq marked', grey' \subseteq marked', Pending \subseteq Pending',
         phase = "mark" =>
           (gcdetectdeadlocks' = 0 \/ detectedDeadlocks' => nValidStackRoots' = nStackRoots')
  PROVE  Scanned'
  BY DEF Scanned

LEMMA SamePending == ASSUME UNCHANGED <<stackRoots, markrootNext>> PROVE Pending' = Pending
  BY DEF Pending, Root, gcUnmask, nStackRoots

\* What a step of the program adds to stacks and queues.
LEMMA MutateScanned ==
  ASSUME LinkedInv, UNCHANGED <<phase, gcdetectdeadlocks>>, NEW g \in Goroutine, Mutate(g)
  PROVE  /\ phase = "mark" => marked \subseteq marked'
         /\ grey' \subseteq marked'
         /\ \A h \in Goroutine : \A o \in stack'[h] :
              o \in stack[h] \/ o \in Globals \/ (phase = "mark" => o \in marked')
         /\ \A h \in Goroutine : waitingOn'[h] # Nil =>
              /\ waitingOn[h] # Nil \/ (phase = "mark" => SudogOf[h] \in marked')
              /\ SudogOf[h] \notin freed'
<1>0. /\ ProgramTypes /\ grey \subseteq marked
      /\ \A h \in Goroutine : waitingOn[h] # Nil => SudogOf[h] \notin freed
  BY DEF LinkedInv, ProgramInv, Scanned, SudogsAlive
<1>1. ASSUME WriteBarrier PROVE (phase = "mark" => marked \subseteq marked') /\ grey' \subseteq marked'
  BY <1>0, <1>1 DEF WriteBarrier, Shade
<1>2. CASE \E o \in Sync : (LoadGlobal(g, o) \/ Forget(g, o)) /\ WriteBarrier
  <2>1. PICK o \in Sync : (LoadGlobal(g, o) \/ Forget(g, o)) /\ WriteBarrier
    BY <1>2
  <2>2. UNCHANGED <<waitingOn, freed>>
    BY <2>1 DEF LoadGlobal, Forget
  <2>3. \A h \in Goroutine : \A p \in stack'[h] : p \in stack[h] \/ p \in Globals
    BY <1>0, <2>1 DEF LoadGlobal, Forget, ProgramTypes
  <2> QED
    BY <1>0, <1>1, <2>1, <2>2, <2>3
<1>3. CASE \E o \in Sync : Park(g, o) /\ WriteBarrier
  <2>1. PICK o \in Sync : Park(g, o) /\ WriteBarrier
    BY <1>3
  <2>2. SudogOf[g] \in Stored
    BY <2>1, ParkStores DEF LinkedInv
  <2>3. phase = "mark" => SudogOf[g] \in marked'
    BY <2>1, <2>2 DEF WriteBarrier, Shade
  <2>4. /\ UNCHANGED stack /\ freed' = freed \ {SudogOf[g]}
        /\ waitingOn' = [waitingOn EXCEPT ![g] = o]
    BY <2>1 DEF Park
  <2>5. \A h \in Goroutine : h # g => waitingOn'[h] = waitingOn[h]
    BY <1>0, <2>4 DEF ProgramTypes
  <2>6. \A h \in Goroutine : waitingOn'[h] # Nil => SudogOf[h] \notin freed'
    BY <1>0, <2>4, <2>5
  <2> QED
    BY <1>1, <2>1, <2>3, <2>4, <2>5, <2>6
<1>4. CASE \E o \in Sync : Wake(g, o) /\ WriteBarrier
  <2>1. PICK o \in Sync : Wake(g, o) /\ WriteBarrier
    BY <1>4
  <2>2. UNCHANGED <<stack, freed>> /\ waitingOn' = [waitingOn EXCEPT ![Head(queue[o])] = Nil]
    BY <2>1 DEF Wake
  <2>3. \A h \in Goroutine : waitingOn'[h] # Nil => waitingOn[h] # Nil
    BY <1>0, <2>2 DEF ProgramTypes
  <2> QED
    BY <1>0, <1>1, <2>1, <2>2, <2>3
<1>5. CASE Goexit(g) /\ WriteBarrier
  <2>1. UNCHANGED <<waitingOn, freed>> /\ stack' = [stack EXCEPT ![g] = {}]
    BY <1>5 DEF Goexit
  <2>2. \A h \in Goroutine : \A p \in stack'[h] : p \in stack[h]
    BY <1>0, <2>1 DEF ProgramTypes
  <2> QED
    BY <1>0, <1>1, <1>5, <2>1, <2>2
<1>6. ASSUME NEW h \in Goroutine, NEW args \in SUBSET stack[g], Go(g, h, args),
             IF phase = "mark"
             THEN /\ marked' = marked \cup args \cup IF status[h] = "_Gidle" THEN {h} ELSE {}
                  /\ grey' = grey \cup (args \ marked)
             ELSE UNCHANGED <<marked, grey>>
      PROVE  /\ phase = "mark" => marked \subseteq marked'
             /\ grey' \subseteq marked'
             /\ \A x \in Goroutine : \A o \in stack'[x] :
                  o \in stack[x] \/ o \in Globals \/ (phase = "mark" => o \in marked')
             /\ UNCHANGED <<waitingOn, freed>>
  <2>1. UNCHANGED <<waitingOn, freed>> /\ stack' = [stack EXCEPT ![h] = args]
    BY <1>6 DEF Go
  <2>2. \A x \in Goroutine : stack'[x] = IF x = h THEN args ELSE stack[x]
    BY <1>0, <2>1 DEF ProgramTypes
  <2> QED
    BY <1>0, <1>6, <2>1, <2>2
<1>7. CASE \E h \in Goroutine, args \in SUBSET stack[g] :
             /\ Go(g, h, args)
             /\ IF phase = "mark"
                THEN /\ marked' = marked \cup args \cup IF status[h] = "_Gidle" THEN {h} ELSE {}
                     /\ grey' = grey \cup (args \ marked)
                ELSE UNCHANGED <<marked, grey>>
  BY <1>0, <1>6, <1>7
<1> QED
  BY <1>2, <1>3, <1>4, <1>5, <1>7 DEF Mutate

LEMMA LinkedMutator ==
  ASSUME LinkedInv, Mutator
  PROVE  ProgramInv' /\ Scanned' /\ NoneFound' /\ SudogsAlive'
<1>1. /\ loop.at # "detect" /\ UNCHANGED loop
      /\ UNCHANGED <<phase, stackRoots, nValidStackRoots, markrootNext, detectedDeadlocks, gcdetectdeadlocks>>
  BY DEF Mutator, rootVars
<1>2. PICK g \in Goroutine : Mutate(g)
  BY DEF Mutator
<1>3. ProgramInv'
  BY <1>1, <1>2, MutateInv DEF LinkedInv, RootsInv
<1>4. NoneFound'
  BY <1>1 DEF LinkedInv, NoneFound
<1>5. SudogsAlive'
  BY <1>1, <1>2, MutateScanned DEF SudogsAlive
<1>6. Scanned'
  <2>1. Pending' = Pending /\ nStackRoots' = nStackRoots
    BY <1>1, SamePending DEF nStackRoots
  <2>2. Scanned
    BY DEF LinkedInv
  <2>3. grey' \subseteq marked' /\ (phase = "mark" => marked \subseteq marked')
    BY <1>1, <1>2, MutateScanned
  <2>4. CASE phase # "mark"
    BY <1>1, <2>3, <2>4 DEF Scanned
  <2>5. CASE phase = "mark"
    <3>1. \A h \in Goroutine \ Pending : stack'[h] \subseteq marked' \cup Globals
      <4>1. \A h \in Goroutine : \A o \in stack'[h] : o \in stack[h] \/ o \in Globals \/ o \in marked'
        BY <1>1, <1>2, <2>5, MutateScanned
      <4>2. \A h \in Goroutine \ Pending : stack[h] \subseteq marked \cup Globals
        BY <2>2, <2>5 DEF Scanned
      <4> QED
        BY <2>3, <2>5, <4>1, <4>2
    <3>2. \A h \in Goroutine \ Pending : waitingOn'[h] # Nil => SudogOf[h] \in marked'
      <4>1. \A h \in Goroutine : waitingOn'[h] # Nil => waitingOn[h] # Nil \/ SudogOf[h] \in marked'
        BY <1>1, <1>2, <2>5, MutateScanned
      <4>2. \A h \in Goroutine \ Pending : waitingOn[h] # Nil => SudogOf[h] \in marked
        BY <2>2, <2>5 DEF Scanned
      <4> QED
        BY <2>3, <2>5, <4>1, <4>2
    <3>3. 0 < markrootNext' => Globals \subseteq marked'
      BY <1>1, <2>2, <2>3, <2>5 DEF Scanned
    <3>4. gcdetectdeadlocks' = 0 \/ detectedDeadlocks' => nValidStackRoots' = nStackRoots'
      <4>1. gcdetectdeadlocks = 0 \/ detectedDeadlocks => nValidStackRoots = nStackRoots
        BY <2>2, <2>5 DEF Scanned
      <4>2. detectedDeadlocks' => detectedDeadlocks
        BY <1>1, Zenon
      <4> QED
        BY <1>1, <2>1, <4>1, <4>2
    <3> QED
      BY <2>1, <2>3, <3>1, <3>2, <3>3, <3>4 DEF Scanned
  <2> QED
    BY <2>4, <2>5
<1> QED
  BY <1>3, <1>4, <1>5, <1>6

\* Every goroutine in use is a root of the cycle that starts.
LEMMA LinkedStart ==
  ASSUME LinkedInv, gcStart, RootsInv'
  PROVE  ProgramInv' /\ Scanned' /\ NoneFound' /\ SudogsAlive'
<1>1. /\ UNCHANGED <<status, stack, waitingOn, queue, allgs, loop, freed, gcdetectdeadlocks>>
      /\ loop.at = "idle" /\ detectedDeadlocks' = FALSE /\ markrootNext' = 0
  BY DEF gcStart, LinkedInv, RootsInv, Phases, progVars, bounds
<1>2. ProgramInv'
  BY <1>1 DEF LinkedInv, ProgramInv, ProgramTypes, Waiters, InAllgs, Proper, Reachable, gcUnmask
<1>3. NoneFound' /\ SudogsAlive'
  BY <1>1 DEF LinkedInv, NoneFound, SudogsAlive
<1>4. grey' \subseteq marked'
  BY DEF gcStart
<1>5. Len(allgs) \in Nat
  BY DEF LinkedInv, RootsInv, Tables
<1>6. /\ nStackRoots' = Len(allgs) /\ (gcdetectdeadlocks = 0 => nValidStackRoots' = Len(allgs))
      /\ \A i \in 1 .. Len(allgs) : \E j \in 1 .. Len(allgs) :
           gcUnmask(stackRoots'[j]) = gcUnmask(allgs[i])
  <2>1. CASE gcdetectdeadlocks = 0
    <3>1. stackRoots' = allgs /\ nValidStackRoots' = Len(allgs)
      BY <2>1 DEF gcStart
    <3> QED
      BY <3>1 DEF nStackRoots
  <2>2. CASE gcdetectdeadlocks # 0
    <3>1. PICK p \in Permutations(Len(allgs)), k \in 0 .. Len(allgs) : stackRoots' = Snapshot(p, k)
      BY <2>2 DEF gcStart
    <3>2. \A i \in 1 .. Len(allgs) : \E j \in 1 .. Len(allgs) : p[j] = i
      BY DEF Permutations
    <3>3. /\ nStackRoots' = Len(allgs)
          /\ \A j \in 1 .. Len(allgs) :
               stackRoots'[j] = LET gp == gcUnmask(allgs[p[j]]) IN IF j <= k THEN gp ELSE gcMask(gp)
      BY <1>5, <3>1 DEF Snapshot, nStackRoots
    <3>4. ASSUME NEW i \in 1 .. Len(allgs)
          PROVE  \E j \in 1 .. Len(allgs) : gcUnmask(stackRoots'[j]) = gcUnmask(allgs[i])
      <4>1. PICK j \in 1 .. Len(allgs) : p[j] = i
        BY <3>2
      <4>2. gcUnmask(allgs[i]) \in Goroutine
        BY AllgsEntries DEF LinkedInv, RootsInv
      <4>3. gcUnmask(stackRoots'[j]) = gcUnmask(allgs[i])
        BY <3>3, <4>1, <4>2, MaskOfG, MaskedRoundTrip
      <4> QED
        BY <4>3
    <3> QED
      BY <2>2, <3>3, <3>4
  <2> QED
    BY <2>1, <2>2
<1>7. Pending' = {gcUnmask(stackRoots'[j]) : j \in 1 .. Len(allgs)}
  <2>1. \A j \in 1 .. Len(allgs) : markrootNext' <= j
    BY <1>1, <1>5
  <2> QED
    BY <1>6, <2>1 DEF Pending, Root, gcUnmask
<1>8. ASSUME NEW g \in Goroutine, status[g] # "_Gidle" PROVE g \in Pending'
  <2>1. PICK i \in 1 .. Len(allgs) : gcUnmask(allgs[i]) = g
    BY <1>8 DEF LinkedInv, ProgramInv, InAllgs
  <2>2. PICK j \in 1 .. Len(allgs) : gcUnmask(stackRoots'[j]) = gcUnmask(allgs[i])
    BY <1>6
  <2> QED
    BY <1>7, <2>1, <2>2
<1>9. \A g \in Goroutine : status[g] = "_Gidle" => stack[g] = {} /\ waitingOn[g] = Nil
  BY DEF LinkedInv, ProgramInv, Waiters
<1>10. Scanned'
  <2>1. \A g \in Goroutine \ Pending' : stack'[g] = {} /\ waitingOn'[g] = Nil
    BY <1>1, <1>8, <1>9
  <2>2. gcdetectdeadlocks' = 0 \/ detectedDeadlocks' => nValidStackRoots' = nStackRoots'
    BY <1>1, <1>6
  <2>3. ~(0 < markrootNext')
    BY <1>1
  <2> QED
    BY <1>4, <2>1, <2>2, <2>3 DEF Scanned
<1> QED
  BY <1>2, <1>3, <1>10

\* Steps that leave the program alone and forget nothing.
LEMMA ProgramFrame ==
  ASSUME LinkedInv, UNCHANGED <<progVars, freed>>
  PROVE  ProgramInv' /\ SudogsAlive'
  BY DEF LinkedInv, ProgramInv, ProgramTypes, Waiters, InAllgs, Proper, Reachable, gcUnmask,
         SudogsAlive, progVars

LEMMA LinkedMark ==
  ASSUME LinkedInv, MarkGlobals \/ MarkStack \/ \E obj \in grey : ScanObject(obj)
  PROVE  ProgramInv' /\ Scanned' /\ NoneFound' /\ SudogsAlive'
<1>1. /\ UNCHANGED <<progVars, freed, phase, stackRoots, nValidStackRoots, detectedDeadlocks, loop,
                     gcdetectdeadlocks>>
      /\ loop.at # "detect" /\ phase = "mark"
  BY DEF MarkGlobals, MarkStack, ScanObject, unscanned, rootVars, bounds
<1>2. UNCHANGED <<stack, waitingOn>>
  BY <1>1 DEF progVars
<1>3. ProgramInv' /\ SudogsAlive' /\ NoneFound'
  <2>1. markrootNext \in Nat /\ markrootNext <= markrootNext'
    BY DEF MarkGlobals, MarkStack, ScanObject, unscanned, rootVars, LinkedInv, RootsInv, Tables
  <2>2. nValidStackRoots \in Nat /\ markrootNext' \in Nat
    BY DEF MarkGlobals, MarkStack, ScanObject, unscanned, rootVars, LinkedInv, RootsInv, Tables
  <2>3. loop.at = "barrier" => markrootNext > nValidStackRoots
    BY DEF LinkedInv, NoneFound
  <2> QED
    BY <1>1, <2>1, <2>2, <2>3, ProgramFrame DEF NoneFound
<1>4. Scanned /\ (gcdetectdeadlocks' = 0 \/ detectedDeadlocks' => nValidStackRoots' = nStackRoots')
  <2>1. gcdetectdeadlocks = 0 \/ detectedDeadlocks => nValidStackRoots = nStackRoots
    BY <1>1 DEF LinkedInv, Scanned
  <2>2. (gcdetectdeadlocks = 0 \/ detectedDeadlocks => nValidStackRoots = nStackRoots)'
    BY <1>1, <2>1 DEF nStackRoots
  <2> QED
    BY <2>2 DEF LinkedInv
<1>5. marked \subseteq marked' /\ grey' \subseteq marked'
  BY <1>4 DEF MarkGlobals, MarkStack, ScanObject, Shade, Scanned
<1>6. nStackRoots' = nStackRoots
  BY <1>1 DEF nStackRoots
<1>7. CASE \E obj \in grey : ScanObject(obj)
  <2>1. UNCHANGED markrootNext
    BY <1>7 DEF ScanObject
  <2>2. Pending' = Pending
    BY <1>1, <2>1, SamePending
  <2> QED
    BY <1>1, <1>2, <1>3, <1>4, <1>5, <2>1, <2>2, ScannedFrame
<1>8. CASE MarkGlobals
  <2>1. markrootNext = 0 /\ markrootNext' = 1 /\ Globals \subseteq marked'
    BY <1>8 DEF MarkGlobals, Shade
  <2>2. Pending' = Pending
    <3>1. \A j \in 1 .. nStackRoots : markrootNext <= j /\ markrootNext' <= j
      BY <2>1
    <3> QED
      BY <1>1, <1>6, <3>1 DEF Pending, Root, gcUnmask
  <2>3. /\ \A g \in Goroutine \ Pending : stack[g] \subseteq marked \cup Globals
        /\ \A g \in Goroutine \ Pending : waitingOn[g] # Nil => SudogOf[g] \in marked
    BY <1>1, <1>4 DEF Scanned
  <2>4. /\ \A g \in Goroutine \ Pending' : stack'[g] \subseteq marked' \cup Globals
        /\ \A g \in Goroutine \ Pending' : waitingOn'[g] # Nil => SudogOf[g] \in marked'
    BY <1>2, <1>5, <2>2, <2>3
  <2> QED
    BY <1>3, <1>4, <1>5, <2>1, <2>4 DEF Scanned
<1>9. CASE MarkStack
  <2> DEFINE n == markrootNext
  <2>1. /\ 0 < n /\ n <= nValidStackRoots /\ n' = n + 1
        /\ n \in Nat /\ nStackRoots \in Nat /\ nValidStackRoots \in Nat
        /\ StackRefs(stackRoots[n]) \subseteq marked'
    <3>1. n \in Nat /\ nStackRoots \in Nat /\ nValidStackRoots \in Nat
      BY LoopFacts DEF LinkedInv, RootsInv, Tables
    <3>2. 0 < n /\ n < markrootJobs /\ n' = n + 1 /\ StackRefs(stackRoots[n]) \subseteq marked'
      BY <1>9 DEF MarkStack, Shade
    <3> QED
      BY <3>1, <3>2 DEF markrootJobs
  <2>2. stackRoots[n] \in Goroutine
    <3>1. nValidStackRoots <= ValidEnd /\ ValidEnd \in Nat
      BY LoopFacts DEF LinkedInv, RootsInv, Indices, ValidEnd
    <3>2. n \in 1 .. ValidEnd
      BY <2>1, <3>1
    <3> QED
      BY <3>2 DEF LinkedInv, RootsInv, Entries
  <2>3. Root(n) = stackRoots[n]
    BY <2>2, MaskedRoundTrip DEF Root
  <2>4. ASSUME NEW g \in Goroutine \ Pending', g # stackRoots[n] PROVE g \notin Pending
    <3> SUFFICES ASSUME g \in Pending PROVE FALSE
      OBVIOUS
    <3>1. PICK j \in 1 .. nStackRoots : n <= j /\ g = Root(j)
      BY DEF Pending
    <3>2. j # n
      BY <2>3, <2>4, <3>1
    <3>3. j \in 1 .. nStackRoots' /\ n' <= j
      BY <1>6, <2>1, <3>1, <3>2
    <3>4. g = Root(j)'
      BY <1>1, <3>1 DEF Root, gcUnmask
    <3> QED
      BY <2>4, <3>3, <3>4 DEF Pending
  <2>5. /\ 0 < n => Globals \subseteq marked
        /\ \A g \in Goroutine \ Pending : stack[g] \subseteq marked \cup Globals
        /\ \A g \in Goroutine \ Pending : waitingOn[g] # Nil => SudogOf[g] \in marked
    BY <1>1, <1>4 DEF Scanned
  <2>6. /\ stack[stackRoots[n]] \subseteq marked'
        /\ waitingOn[stackRoots[n]] # Nil => SudogOf[stackRoots[n]] \in marked'
    BY <2>1 DEF StackRefs
  <2>7. /\ \A g \in Goroutine \ Pending' : stack'[g] \subseteq marked' \cup Globals
        /\ \A g \in Goroutine \ Pending' : waitingOn'[g] # Nil => SudogOf[g] \in marked'
    BY <1>2, <1>5, <2>4, <2>5, <2>6
  <2>8. Globals \subseteq marked'
    BY <1>5, <2>1, <2>5
  <2> QED
    BY <1>3, <1>4, <1>5, <2>7, <2>8 DEF Scanned
<1> QED
  BY <1>7, <1>8, <1>9

\* Steps that only move the loops.
LEMMA LinkedSameEntries ==
  ASSUME LinkedInv, gcMarkDone \/ DiscoverPublish \/ MarkDoneReturns \/ PassBarrier \/ Restart \/ StopTheWorld \/ DetectResume
  PROVE  ProgramInv' /\ Scanned' /\ NoneFound' /\ SudogsAlive'
<1>1. UNCHANGED <<progVars, freed, phase, stackRoots, detectedDeadlocks, gcdetectdeadlocks, marked,
                  grey, markrootNext>>
  BY DEF gcMarkDone, DiscoverPublish, MarkDoneReturns, PassBarrier, Restart, StopTheWorld, DetectResume, notDiscover,
         notDetect, rootVars, bounds
<1>2. nValidStackRoots' = ValidEnd
  BY DEF gcMarkDone, DiscoverPublish, MarkDoneReturns, PassBarrier, Restart, StopTheWorld, DetectResume,
         rootVars, ValidEnd
<1>3. /\ nStackRoots \in Nat /\ nValidStackRoots \in Nat /\ ValidEnd \in Nat
      /\ nValidStackRoots <= ValidEnd /\ ValidEnd <= nStackRoots
  BY LoopFacts DEF LinkedInv, RootsInv, Indices, ValidEnd
<1>4. ProgramInv' /\ SudogsAlive'
  BY <1>1, ProgramFrame
<1>5. Scanned'
  <2>1. Pending' = Pending /\ nStackRoots' = nStackRoots
    BY <1>1, SamePending DEF nStackRoots
  <2>2. Scanned /\ UNCHANGED <<stack, waitingOn>>
    BY <1>1 DEF LinkedInv, progVars
  <2>3. grey' \subseteq marked'
    BY <1>1, <2>2 DEF Scanned
  <2>4. ASSUME phase = "mark", gcdetectdeadlocks' = 0 \/ detectedDeadlocks'
        PROVE  nValidStackRoots' = nStackRoots'
    <3>1. gcdetectdeadlocks = 0 \/ detectedDeadlocks
      BY <1>1, <2>4, Zenon
    <3>2. nValidStackRoots = nStackRoots
      BY <2>2, <2>4, <3>1 DEF Scanned
    <3> QED
      BY <1>2, <1>3, <2>1, <3>2
  <2> QED
    BY <1>1, <2>1, <2>2, <2>3, <2>4, ScannedFrame
<1>6. CASE ~StopTheWorld
  <2>1. loop'.at # "detect" /\ (loop'.at = "barrier" => PassBarrier)
    BY <1>6 DEF gcMarkDone, DiscoverPublish, MarkDoneReturns, PassBarrier, Restart, DetectResume,
                LoopAt, Idle, Top
  <2>2. ASSUME PassBarrier PROVE markrootNext' > nValidStackRoots'
    <3>1. ~(markrootNext < markrootJobs) /\ UNCHANGED nValidStackRoots
      BY <2>2 DEF PassBarrier, WorkAvailable, rootVars
    <3>2. markrootNext \in Nat
      BY DEF LinkedInv, RootsInv, Tables
    <3> QED
      BY <1>1, <1>3, <3>1, <3>2 DEF markrootJobs
  <2> QED
    BY <1>4, <1>5, <2>1, <2>2 DEF NoneFound
<1>7. CASE StopTheWorld
  <2>1. /\ markrootNext > nValidStackRoots /\ ~detectedDeadlocks
        /\ loop' = LoopAt("detect", nValidStackRoots, nStackRoots, FALSE)
        /\ UNCHANGED nValidStackRoots
    BY <1>7 DEF StopTheWorld, LinkedInv, NoneFound, rootVars
  <2>2. loop'.v = nValidStackRoots
    BY <2>1 DEF LoopAt
  <2>3. loop'.at = "detect"
    BY <2>1 DEF LoopAt
  <2>4. ~detectedDeadlocks'
    BY <1>1, <2>1, Zenon
  <2>5. \A i \in (nValidStackRoots' + 1) .. loop'.v : FALSE
    <3>1. \A m \in Nat : \A i \in (m + 1) .. m : FALSE
      OBVIOUS
    <3>2. nValidStackRoots' \in Nat /\ loop'.v = nValidStackRoots'
      BY <1>3, <2>1, <2>2
    <3> QED
      BY <3>1, <3>2, Zenon
  <2>6. markrootNext' > nValidStackRoots'
    BY <1>1, <2>1
  <2>7. NoneFound'
    BY <2>3, <2>4, <2>5, <2>6 DEF NoneFound
  <2> QED
    BY <1>4, <1>5, <2>7
<1> QED
  BY <1>6, <1>7

\* An accepted entry i takes place n, which no root job has reached.
LEMMA LinkedAccept ==
  ASSUME LinkedInv, phase = "mark", UNCHANGED markrootNext,
         NEW n \in 1 .. nStackRoots, NEW i \in 1 .. nStackRoots, n = ValidEnd + 1, n <= i,
         Len(stackRoots') = nStackRoots,
         \A j \in 1 .. nStackRoots :
           stackRoots'[j] = IF j = n THEN Root(i) ELSE IF j = i THEN stackRoots[n] ELSE stackRoots[j],
         marked' = marked \cup {Root(i)}, grey' = grey \cup ({Root(i)} \ marked)
  PROVE  marked \subseteq marked' /\ grey' \subseteq marked' /\ Pending \subseteq Pending'
<1>1. /\ nStackRoots' = nStackRoots /\ nStackRoots \in Nat /\ nValidStackRoots \in Nat
      /\ markrootNext \in Nat /\ ValidEnd \in Nat
  BY LoopFacts DEF nStackRoots, LinkedInv, RootsInv, Tables, ValidEnd
<1>2. Root(i) \in Goroutine /\ gcUnmask(Root(i)) = Root(i)
  BY RootIsG, MaskedRoundTrip DEF LinkedInv
<1>3. markrootNext <= n
  <2>1. markrootNext <= 1 + nValidStackRoots /\ nValidStackRoots <= ValidEnd
    BY DEF LinkedInv, RootsInv, Entries, Indices
  <2> QED
    BY <1>1, <2>1
<1>4. Pending' = {gcUnmask(stackRoots'[m]) : m \in {k \in 1 .. nStackRoots : markrootNext <= k}}
  BY <1>1 DEF Pending, Root, gcUnmask
<1>5. ASSUME NEW j \in 1 .. nStackRoots, markrootNext <= j PROVE Root(j) \in Pending'
  <2>0. i \in {k \in 1 .. nStackRoots : markrootNext <= k} /\ n \in {k \in 1 .. nStackRoots : markrootNext <= k}
    BY <1>1, <1>3
  <2>1. CASE j = i
    <3>1. gcUnmask(stackRoots'[n]) = Root(i)
      BY <1>2
    <3> QED
      BY <1>4, <2>0, <2>1, <3>1
  <2>2. CASE j = n /\ n # i
    <3>1. gcUnmask(stackRoots'[i]) = Root(n)
      BY <2>2 DEF Root
    <3> QED
      BY <1>4, <2>0, <2>2, <3>1
  <2>3. CASE j # n /\ j # i
    <3>1. gcUnmask(stackRoots'[j]) = Root(j)
      BY <2>3 DEF Root
    <3> QED
      BY <1>4, <1>5, <3>1
  <2> QED
    BY <2>1, <2>2, <2>3
<1>6. Pending \subseteq Pending'
  BY <1>5 DEF Pending
<1>7. grey \subseteq marked
  BY DEF LinkedInv, Scanned
<1> QED
  BY <1>6, <1>7

LEMMA LinkedFirst ==
  ASSUME LinkedInv, DiscoverFirst
  PROVE  ProgramInv' /\ Scanned' /\ NoneFound' /\ SudogsAlive'
<1> DEFINE n == loop.v + 1
<1>1. /\ loop.at = "outer" /\ loop.v < loop.iv
      /\ UNCHANGED <<progVars, freed, phase, markrootNext, nValidStackRoots, detectedDeadlocks,
                     gcdetectdeadlocks>>
  BY DEF DiscoverFirst, notDiscover, bounds
<1>2. /\ phase = "mark" /\ loop.iv <= nStackRoots /\ ValidEnd = loop.v
  BY <1>1 DEF LinkedInv, RootsInv, Phases, Indices, ValidEnd
<1>3. /\ stackRoots \in Seq(Nat) /\ nStackRoots = Len(stackRoots) /\ nStackRoots \in Nat
      /\ loop.v \in Nat /\ loop.iv \in Nat /\ nValidStackRoots \in Nat
  BY LoopFacts DEF LinkedInv
<1>4. n \in 1 .. nStackRoots /\ n <= n /\ n = ValidEnd + 1
  BY <1>1, <1>2, <1>3
<1>5. \/ /\ stackRoots' = [stackRoots EXCEPT ![n] = Root(n)]
         /\ marked' = marked \cup {Root(n)} /\ grey' = grey \cup ({Root(n)} \ marked)
      \/ UNCHANGED <<stackRoots, marked, grey>>
  BY DEF DiscoverFirst, StoreRoot, Shade
<1>6. ProgramInv' /\ SudogsAlive'
  BY <1>1, ProgramFrame
<1>7. NoneFound'
  BY DEF DiscoverFirst, NoneFound, LoopAt
<1>8. /\ marked \subseteq marked' /\ grey' \subseteq marked' /\ Pending \subseteq Pending'
      /\ nStackRoots' = nStackRoots
  <2>1. CASE /\ stackRoots' = [stackRoots EXCEPT ![n] = Root(n)]
             /\ marked' = marked \cup {Root(n)} /\ grey' = grey \cup ({Root(n)} \ marked)
    <3>1. /\ Len(stackRoots') = nStackRoots
          /\ \A j \in 1 .. nStackRoots :
               stackRoots'[j] = IF j = n THEN Root(n) ELSE IF j = n THEN stackRoots[n] ELSE stackRoots[j]
      BY <1>3, <1>4, <2>1
    <3>2. nStackRoots' = nStackRoots
      BY <3>1 DEF nStackRoots
    <3> HIDE DEF n
    <3> QED
      BY <1>1, <1>2, <1>4, <2>1, <3>1, <3>2, LinkedAccept
  <2>2. CASE UNCHANGED <<stackRoots, marked, grey>>
    BY <1>1, <2>2, SamePending DEF LinkedInv, Scanned, nStackRoots
  <2> QED
    BY <1>5, <2>1, <2>2
<1>9. gcdetectdeadlocks' = 0 \/ detectedDeadlocks' => nValidStackRoots' = nStackRoots'
  <2>1. gcdetectdeadlocks = 0 \/ detectedDeadlocks => nValidStackRoots = nStackRoots
    BY <1>2 DEF LinkedInv, Scanned
  <2>2. detectedDeadlocks' => detectedDeadlocks
    BY <1>1, Zenon
  <2> QED
    BY <1>1, <1>8, <2>1, <2>2
<1>10. Scanned'
  <2>1. Scanned /\ UNCHANGED <<stack, waitingOn, phase, markrootNext>>
    BY <1>1 DEF LinkedInv, progVars
  <2> QED
    BY <1>8, <1>9, <2>1, ScannedFrame
<1> QED
  BY <1>6, <1>7, <1>10

LEMMA LinkedSwap ==
  ASSUME LinkedInv, DiscoverSwap
  PROVE  ProgramInv' /\ Scanned' /\ NoneFound' /\ SudogsAlive'
<1> DEFINE n == loop.v + 1
           i == loop.iv
<1>1. /\ loop.at = "inner"
      /\ UNCHANGED <<progVars, freed, phase, markrootNext, nValidStackRoots, detectedDeadlocks,
                     gcdetectdeadlocks>>
  BY DEF DiscoverSwap, notDiscover, bounds
<1>2. phase = "mark" /\ loop.v < loop.iv /\ loop.iv <= nStackRoots /\ ValidEnd = loop.v
  BY <1>1 DEF LinkedInv, RootsInv, Phases, Indices, ValidEnd
<1>3. /\ stackRoots \in Seq(Nat) /\ nStackRoots = Len(stackRoots) /\ nStackRoots \in Nat
      /\ loop.v \in Nat /\ loop.iv \in Nat /\ nValidStackRoots \in Nat
  BY LoopFacts DEF LinkedInv
<1>4. n \in 1 .. nStackRoots /\ i \in 1 .. nStackRoots /\ n <= i /\ n = ValidEnd + 1
  BY <1>1, <1>2, <1>3
<1>5. \/ /\ stackRoots' = [stackRoots EXCEPT ![i] = stackRoots[n], ![n] = Root(i)]
         /\ marked' = marked \cup {Root(i)} /\ grey' = grey \cup ({Root(i)} \ marked)
      \/ UNCHANGED <<stackRoots, marked, grey>>
  BY DEF DiscoverSwap, StoreRoot, Shade
<1>6. ProgramInv' /\ SudogsAlive'
  BY <1>1, ProgramFrame
<1>7. NoneFound'
  BY DEF DiscoverSwap, NoneFound, LoopAt
<1>8. /\ marked \subseteq marked' /\ grey' \subseteq marked' /\ Pending \subseteq Pending'
      /\ nStackRoots' = nStackRoots
  <2>1. CASE /\ stackRoots' = [stackRoots EXCEPT ![i] = stackRoots[n], ![n] = Root(i)]
             /\ marked' = marked \cup {Root(i)} /\ grey' = grey \cup ({Root(i)} \ marked)
    <3>1. /\ Len(stackRoots') = nStackRoots
          /\ \A j \in 1 .. nStackRoots :
               stackRoots'[j] = IF j = n THEN Root(i) ELSE IF j = i THEN stackRoots[n] ELSE stackRoots[j]
      BY <1>3, <1>4, <2>1
    <3>2. nStackRoots' = nStackRoots
      BY <3>1 DEF nStackRoots
    <3> HIDE DEF n, i
    <3> QED
      BY <1>1, <1>2, <1>4, <2>1, <3>1, <3>2, LinkedAccept
  <2>2. CASE UNCHANGED <<stackRoots, marked, grey>>
    BY <1>1, <2>2, SamePending DEF LinkedInv, Scanned, nStackRoots
  <2> QED
    BY <1>5, <2>1, <2>2
<1>9. gcdetectdeadlocks' = 0 \/ detectedDeadlocks' => nValidStackRoots' = nStackRoots'
  <2>1. gcdetectdeadlocks = 0 \/ detectedDeadlocks => nValidStackRoots = nStackRoots
    BY <1>2 DEF LinkedInv, Scanned
  <2>2. detectedDeadlocks' => detectedDeadlocks
    BY <1>1, Zenon
  <2> QED
    BY <1>1, <1>8, <2>1, <2>2
<1>10. Scanned'
  <2>1. Scanned /\ UNCHANGED <<stack, waitingOn, phase, markrootNext>>
    BY <1>1 DEF LinkedInv, progVars
  <2> QED
    BY <1>8, <1>9, <2>1, ScannedFrame
<1> QED
  BY <1>6, <1>7, <1>10

LEMMA LinkedPass ==
  ASSUME LinkedInv, DetectPass
  PROVE  ProgramInv' /\ Scanned' /\ NoneFound' /\ SudogsAlive'
<1> DEFINE n == nValidStackRoots + 1
           i == loop.v + 1
<1>1. /\ loop.at = "detect" /\ loop.v < loop.iv
      /\ UNCHANGED <<progVars, freed, phase, markrootNext, detectedDeadlocks, gcdetectdeadlocks>>
  BY DEF DetectPass, notDetect, bounds
<1>2. /\ phase = "mark" /\ gcdetectdeadlocks # 0 /\ nValidStackRoots <= loop.v /\ loop.iv = nStackRoots
      /\ ValidEnd = nValidStackRoots
  BY <1>1 DEF LinkedInv, RootsInv, Phases, Indices, ValidEnd
<1>3. /\ stackRoots \in Seq(Nat) /\ nStackRoots = Len(stackRoots) /\ nStackRoots \in Nat
      /\ loop.v \in Nat /\ loop.iv \in Nat /\ nValidStackRoots \in Nat
  BY LoopFacts DEF LinkedInv
<1>4. n \in 1 .. nStackRoots /\ i \in 1 .. nStackRoots /\ n <= i /\ n = ValidEnd + 1
  BY <1>1, <1>2, <1>3
<1>5. \/ /\ stackRoots' = [stackRoots EXCEPT ![i] = stackRoots[n], ![n] = Root(i)]
         /\ marked' = marked \cup {Root(i)} /\ grey' = grey \cup ({Root(i)} \ marked)
         /\ loop' = LoopAt("detect", i, loop.iv, TRUE)
      \/ /\ status[Root(i)] = "_Gwaiting" /\ StackRootValid(Root(i)) = {FALSE}
         /\ loop' = LoopAt("detect", i, loop.iv, loop.found)
         /\ UNCHANGED <<stackRoots, marked, grey, nValidStackRoots>>
  BY DEF DetectPass, StoreRoot, Shade, rootVars
<1>6. ProgramInv' /\ SudogsAlive'
  BY <1>1, ProgramFrame
<1>7. ~detectedDeadlocks
  <2>1. nValidStackRoots # nStackRoots
    BY <1>1, <1>2, <1>3
  <2> QED
    BY <1>2, <2>1 DEF LinkedInv, Scanned
<1>8. gcdetectdeadlocks' # 0 /\ ~detectedDeadlocks'
  BY <1>1, <1>2, <1>7, Zenon
<1>9. Scanned /\ UNCHANGED <<stack, waitingOn, phase, markrootNext>>
  BY <1>1 DEF LinkedInv, progVars
<1>10. CASE /\ stackRoots' = [stackRoots EXCEPT ![i] = stackRoots[n], ![n] = Root(i)]
            /\ marked' = marked \cup {Root(i)} /\ grey' = grey \cup ({Root(i)} \ marked)
            /\ loop' = LoopAt("detect", i, loop.iv, TRUE)
  <2>1. /\ Len(stackRoots') = nStackRoots
        /\ \A j \in 1 .. nStackRoots :
             stackRoots'[j] = IF j = n THEN Root(i) ELSE IF j = i THEN stackRoots[n] ELSE stackRoots[j]
    BY <1>3, <1>4, <1>10
  <2>2. loop'.found /\ loop'.at = "detect"
    BY <1>10 DEF LoopAt
  <2>3. NoneFound'
    BY <2>2 DEF NoneFound
  <2>4. marked \subseteq marked' /\ grey' \subseteq marked' /\ Pending \subseteq Pending'
    <3> HIDE DEF n, i
    <3> QED
      BY <1>1, <1>2, <1>4, <1>10, <2>1, LinkedAccept
  <2>5. Scanned'
    BY <1>8, <1>9, <2>4, ScannedFrame
  <2> QED
    BY <1>6, <2>3, <2>5
<1>11. CASE /\ status[Root(i)] = "_Gwaiting" /\ StackRootValid(Root(i)) = {FALSE}
            /\ loop' = LoopAt("detect", i, loop.iv, loop.found)
            /\ UNCHANGED <<stackRoots, marked, grey, nValidStackRoots>>
  <2>1. Scanned'
    BY <1>1, <1>8, <1>9, <1>11, SamePending, ScannedFrame DEF Scanned
  <2>2. waitingOn[Root(i)] \notin marked
    BY <1>11 DEF StackRootValid
  <2>3. loop'.v = i /\ loop'.found = loop.found
    BY <1>11 DEF LoopAt
  <2>4. ASSUME ~loop.found
        PROVE  /\ markrootNext > nValidStackRoots
               /\ \A j \in n .. i : status[Root(j)] = "_Gwaiting" /\ waitingOn[Root(j)] \notin marked
    <3>1. /\ markrootNext > nValidStackRoots
          /\ \A j \in n .. loop.v : status[Root(j)] = "_Gwaiting" /\ waitingOn[Root(j)] \notin marked
      BY <1>1, <2>4 DEF LinkedInv, NoneFound
    <3>2. \A j \in n .. i : j = i \/ j \in n .. loop.v
      BY <1>3
    <3> QED
      BY <1>11, <2>2, <3>1, <3>2
  <2>5. \A j : Root(j)' = Root(j)
    BY <1>11 DEF Root, gcUnmask
  <2>6. status' = status
    BY <1>1 DEF progVars
  <2>7. ASSUME ~loop'.found
        PROVE  /\ markrootNext' > nValidStackRoots'
               /\ \A j \in (nValidStackRoots' + 1) .. loop'.v :
                    status'[Root(j)'] = "_Gwaiting" /\ waitingOn'[Root(j)'] \notin marked'
    BY <1>1, <1>9, <1>11, <2>3, <2>4, <2>5, <2>6, <2>7
  <2>8. NoneFound'
    BY <1>8, <1>11, <2>7 DEF NoneFound, LoopAt
  <2> QED
    BY <1>6, <2>1, <2>8
<1> QED
  BY <1>5, <1>10, <1>11

\* Everything that is not reported has been scanned by then.
LEMMA ReportFacts ==
  ASSUME LinkedInv, DetectReport
  PROVE  /\ phase = "mark" /\ Rest \in SUBSET Goroutine
         /\ \A g \in Rest : status[g] = "_Gwaiting" /\ waitingOn[g] \notin marked
         /\ Pending \subseteq Rest /\ Globals \subseteq marked
         /\ \A g \in Rest : waitingOn[g] \notin Globals
         /\ \A g \in Rest : \A h \in Goroutine \ Rest : waitingOn[g] \notin stack[h]
<1>1. loop.at = "detect" /\ loop.v = loop.iv /\ ~loop.found
  BY DEF DetectReport
<1>2. phase = "mark" /\ nValidStackRoots <= loop.v /\ loop.iv = nStackRoots
  BY <1>1 DEF LinkedInv, RootsInv, Phases, Indices
<1>3. nValidStackRoots \in Nat /\ nStackRoots \in Nat /\ markrootNext \in Nat
  BY LoopFacts DEF LinkedInv, RootsInv, Tables
<1>4. /\ markrootNext > nValidStackRoots
      /\ \A i \in (nValidStackRoots + 1) .. nStackRoots :
           status[Root(i)] = "_Gwaiting" /\ waitingOn[Root(i)] \notin marked
  BY <1>1, <1>2 DEF LinkedInv, NoneFound
<1>5. \A i \in (nValidStackRoots + 1) .. nStackRoots : i \in 1 .. nStackRoots
  BY <1>3
<1>6. Rest \in SUBSET Goroutine
  BY <1>5, RootIsG DEF LinkedInv, Rest
<1>7. \A g \in Rest : status[g] = "_Gwaiting" /\ waitingOn[g] \notin marked
  BY <1>4 DEF Rest
<1>8. Pending \subseteq Rest
  <2>1. \A j \in 1 .. nStackRoots : markrootNext <= j => j \in (nValidStackRoots + 1) .. nStackRoots
    BY <1>3, <1>4
  <2> QED
    BY <2>1 DEF Pending, Rest
<1>9. Globals \subseteq marked
  <2>1. 0 < markrootNext
    BY <1>3, <1>4
  <2> QED
    BY <1>2, <2>1 DEF LinkedInv, Scanned
<1>10. \A h \in Goroutine \ Rest : stack[h] \subseteq marked
  BY <1>2, <1>8, <1>9 DEF LinkedInv, Scanned
<1> QED
  BY <1>2, <1>6, <1>7, <1>8, <1>9, <1>10

LEMMA LinkedReport ==
  ASSUME LinkedInv, DetectReport
  PROVE  ProgramInv' /\ Scanned' /\ NoneFound' /\ SudogsAlive'
<1>1. /\ loop' = LoopAt("top", 0, 0, FALSE)
      /\ stackRoots' = [j \in DOMAIN stackRoots |-> Root(j)]
      /\ nValidStackRoots' = nStackRoots /\ markrootNext' = 1 + nStackRoots
      /\ UNCHANGED <<allgs, phase, freed>>
  BY DEF DetectReport, Top
<1>2. phase = "mark" /\ Rest \in SUBSET Goroutine
  BY ReportFacts
<1>3. nStackRoots \in Nat /\ nStackRoots = Len(stackRoots) /\ stackRoots \in Seq(Nat)
  BY LoopFacts DEF LinkedInv
<1>4. nStackRoots' = nStackRoots
  BY <1>1, <1>3 DEF nStackRoots
<1>5. Pending' = {}
  <2>1. \A j \in 1 .. nStackRoots : ~(1 + nStackRoots <= j)
    BY <1>3
  <2> QED
    BY <1>1, <1>4, <2>1 DEF Pending
<1>6. ProgramInv
  BY DEF LinkedInv
<1>7. \A g \in Rest : status[g] = "_Gwaiting"
  BY ReportFacts
<1>8. Scanned /\ Globals \subseteq marked
  BY ReportFacts DEF LinkedInv
<1>9. marked \subseteq marked' /\ grey' \subseteq marked'
  BY <1>8 DEF DetectReport, Shade, Scanned
<1>10. /\ \A g \in Goroutine \ Rest : stack[g] \subseteq marked'
       /\ \A g \in Goroutine \ Rest : waitingOn[g] # Nil => SudogOf[g] \in marked'
  <2>1. \A g \in Goroutine \ Rest : g \notin Pending
    BY ReportFacts
  <2> QED
    BY <1>2, <1>8, <1>9, <2>1 DEF Scanned
<1>11. ASSUME gcdetectdeadlocks = 1
      PROVE  /\ ProgramInv'
             /\ \A g \in Goroutine : stack'[g] \subseteq marked'
             /\ \A g \in Goroutine : waitingOn'[g] # Nil => waitingOn[g] # Nil /\ SudogOf[g] \in marked'
  <2>1. gcGoexit(Rest)
    BY <1>11 DEF DetectReport
  <2>2. ProgramInv'
    BY <1>1, <1>2, <1>6, <2>1, ReportFacts, ReclaimInv
  <2>3. /\ \A g \in Goroutine : stack'[g] = IF g \in Rest THEN {} ELSE stack[g]
        /\ \A g \in Goroutine : waitingOn'[g] = IF g \in Rest THEN Nil ELSE waitingOn[g]
    BY <2>1 DEF gcGoexit
  <2>4. /\ \A g \in Goroutine : stack'[g] \subseteq marked'
        /\ \A g \in Goroutine : waitingOn'[g] # Nil => waitingOn[g] # Nil /\ SudogOf[g] \in marked'
    BY <1>10, <2>3
  <2> QED
    BY <2>2, <2>4
<1>12. ASSUME gcdetectdeadlocks # 1
      PROVE  /\ ProgramInv'
             /\ \A g \in Goroutine : stack'[g] \subseteq marked'
             /\ \A g \in Goroutine : waitingOn'[g] # Nil => waitingOn[g] # Nil /\ SudogOf[g] \in marked'
  <2>1. Keep(Rest) /\ marked' = marked \cup (Rest \cup UNION {StackRefs(g) : g \in Rest})
    BY <1>12 DEF DetectReport, Shade
  <2>2. ProgramInv'
    BY <1>1, <1>2, <1>6, <1>7, <2>1, KeepInv
  <2>3. UNCHANGED <<stack, waitingOn>>
    BY <2>1 DEF Keep
  <2>4. \A g \in Rest : StackRefs(g) \subseteq marked'
    BY <2>1
  <2>5. \A g \in Rest : stack[g] \subseteq marked' /\ (waitingOn[g] # Nil => SudogOf[g] \in marked')
    BY <2>4 DEF StackRefs
  <2>6. /\ \A g \in Goroutine : stack'[g] \subseteq marked'
        /\ \A g \in Goroutine : waitingOn'[g] # Nil => waitingOn[g] # Nil /\ SudogOf[g] \in marked'
    BY <1>10, <2>3, <2>5
  <2> QED
    BY <2>2, <2>6
<1>13. /\ ProgramInv'
       /\ \A g \in Goroutine : stack'[g] \subseteq marked'
       /\ \A g \in Goroutine : waitingOn'[g] # Nil => waitingOn[g] # Nil /\ SudogOf[g] \in marked'
  BY <1>11, <1>12
<1>14. Scanned'
  <2>1. nValidStackRoots' = nStackRoots'
    BY <1>1, <1>4
  <2>2. Globals \subseteq marked'
    BY <1>8, <1>9
  <2> QED
    BY <1>9, <1>13, <2>1, <2>2 DEF Scanned
<1>15. NoneFound'
  BY <1>1 DEF NoneFound, LoopAt
<1>16. SudogsAlive'
  BY <1>1, <1>13 DEF LinkedInv, SudogsAlive
<1> QED
  BY <1>13, <1>14, <1>15, <1>16

\* The sweep frees no sudog that somebody waits with.
LEMMA LinkedTermination ==
  ASSUME LinkedInv, MarkTermination
  PROVE  ProgramInv' /\ Scanned' /\ NoneFound' /\ SudogsAlive'
<1>1. /\ phase = "mark" /\ ~(markrootNext < markrootJobs)
      /\ detectedDeadlocks \/ gcdetectdeadlocks = 0
      /\ freed' = freed \cup (InUse \ marked) /\ phase' = "off" /\ loop' = LoopAt("idle", 0, 0, FALSE)
      /\ marked' = {} /\ grey' = {}
      /\ UNCHANGED <<status, stack, waitingOn, queue, allgs>>
  BY DEF MarkTermination, WorkAvailable, Idle, progVars, LinkedInv, RootsInv, Phases
<1>2. ProgramInv'
  BY <1>1 DEF LinkedInv, ProgramInv, ProgramTypes, Waiters, InAllgs, Proper, Reachable, gcUnmask
<1>3. Scanned'
  BY <1>1 DEF Scanned
<1>4. NoneFound'
  BY <1>1 DEF NoneFound, LoopAt
<1>5. Pending = {}
  <2>1. nValidStackRoots = nStackRoots
    BY <1>1 DEF LinkedInv, Scanned
  <2>2. nStackRoots \in Nat /\ markrootNext \in Nat
    BY LoopFacts DEF LinkedInv, RootsInv, Tables
  <2>3. \A j \in 1 .. nStackRoots : ~(markrootNext <= j)
    BY <1>1, <2>1, <2>2 DEF markrootJobs
  <2> QED
    BY <2>3 DEF Pending
<1>6. \A g \in Goroutine : waitingOn[g] # Nil => SudogOf[g] \in marked /\ SudogOf[g] \notin freed
  BY <1>1, <1>5 DEF LinkedInv, Scanned, SudogsAlive
<1>7. SudogsAlive'
  BY <1>1, <1>6 DEF SudogsAlive
<1> QED
  BY <1>2, <1>3, <1>4, <1>7

LEMMA LinkedStutter ==
  ASSUME LinkedInv, UNCHANGED vars
  PROVE  ProgramInv' /\ Scanned' /\ NoneFound' /\ SudogsAlive'
<1>1. UNCHANGED <<progVars, freed, phase, marked, grey, stackRoots, nValidStackRoots, markrootNext,
                  detectedDeadlocks, gcdetectdeadlocks, loop>>
  BY DEF vars, rootVars, bounds
<1>2. UNCHANGED <<status, stack, waitingOn>>
  BY <1>1 DEF progVars
<1>3. /\ Pending' = Pending /\ nStackRoots' = nStackRoots
      /\ \A i : Root(i)' = Root(i)
  BY <1>1, SamePending DEF nStackRoots, Root, gcUnmask
<1>4. Scanned /\ NoneFound
  BY DEF LinkedInv
<1>5. detectedDeadlocks' <=> detectedDeadlocks
  BY <1>1, Zenon
<1>6. Scanned'
  BY <1>1, <1>2, <1>3, <1>4, <1>5 DEF Scanned
<1>7. NoneFound'
  BY <1>1, <1>2, <1>3, <1>4, <1>5 DEF NoneFound
<1> QED
  BY <1>1, <1>6, <1>7, ProgramFrame

LEMMA LinkedStep == ASSUME LinkedInv, [Next]_vars PROVE LinkedInv'
<1>1. RootsInv'
  BY RootsInvStep DEF LinkedInv
<1> QED
  BY <1>1, LinkedMutator, LinkedStart, LinkedMark, LinkedFirst, LinkedSwap, LinkedSameEntries,
     LinkedPass, LinkedReport, LinkedTermination, LinkedStutter DEF LinkedInv, Next, Detecting

(* No sudog in the wait list of a semaphore or in use by a waiter is ever  *)
(* freed, though scanning follows those lists no further than the masked   *)
(* elem of their first entry: the sudog of a goroutine that was waiting is *)
(* marked from its stack, and that of one that blocks later by the write   *)
(* barrier on the link that is set to it (semaRoot.queue, gcScanStack).    *)
THEOREM LinkedSudogsAliveHolds == Spec => []LinkedSudogsAlive
<1>1. Init => LinkedInv
  BY LinkedInit
<1>2. LinkedInv /\ [Next]_vars => LinkedInv'
  BY LinkedStep
<1>3. LinkedInv => LinkedSudogsAlive
  <2> SUFFICES ASSUME LinkedInv PROVE LinkedSudogsAlive
    OBVIOUS
  <2>1. SudogsAlive
    BY DEF LinkedInv
  <2>2. ASSUME NEW o \in Sema, NEW i \in DOMAIN queue[o] PROVE SudogOf[queue[o][i]] \notin freed
    <3>1. o \in Sync /\ Proper(o) /\ queue[o] \in Seq(Goroutine)
      BY SemaProper DEF LinkedInv, ProgramInv, ProgramTypes
    <3>2. queue[o][i] \in Goroutine /\ waitingOn[queue[o][i]] = o /\ o # Nil
      BY <3>1, Disjoint DEF Proper
    <3> QED
      BY <2>1, <3>2 DEF SudogsAlive
  <2> QED
    BY <2>1, <2>2 DEF LinkedSudogsAlive, SudogsAlive
<1> QED
  BY <1>1, <1>2, <1>3, PTL DEF Spec

-----------------------------------------------------------------------------
(* Nothing marks what only the doomed refer to.                            *)
ValidVisible ==
  ProgramTypes /\ Waiters /\ Secluded /\ Tables /\ gcdetectdeadlocks # 0 =>
    /\ \A obj \in Goroutine \cup Sudog \cup Channel : obj \notin Hidden =>
         Refs(WordsOf(obj)) \cap Hidden = {}
    /\ Refs(<<Treap>>) \cap Hidden = {} /\ Refs(allgs) = {}

LEMMA VisibleNow == ValidVisible
  BY VisibleWords, VisibleTables DEF ValidVisible

LEMMA VisibleNext == ValidVisible'
  BY VisibleNow, PTL

LEMMA ChangedRefs ==
  ASSUME NEW old, NEW new
  PROVE  Changed(old, new) \subseteq Refs(old) \cup Refs(new)
<1> SUFFICES ASSUME NEW w \in Changed(old, new) PROVE w \in Refs(old) \cup Refs(new)
  OBVIOUS
<1>1. /\ w # Nil /\ ~IsMasked(w)
      /\ \E i \in DOMAIN old \cup DOMAIN new : w = Word(old, i) \/ w = Word(new, i)
  BY DEF Changed
<1>2. PICK i \in DOMAIN old \cup DOMAIN new : w = Word(old, i) \/ w = Word(new, i)
  BY <1>1
<1>3. \/ i \in DOMAIN old /\ w = old[i]
      \/ i \in DOMAIN new /\ w = new[i]
  BY <1>1, <1>2 DEF Word
<1> QED
  BY <1>1, <1>3 DEF Refs

\* What the write barrier shades if the objects it must not shade stay as they are.
LEMMA StoredVisible ==
  ASSUME NEW H,
         \A obj \in Goroutine \cup Sudog \cup Channel :
           \/ WordsOf(obj)' = WordsOf(obj)
           \/ Refs(WordsOf(obj)) \cap H = {} /\ Refs(WordsOf(obj)') \cap H = {},
         Refs(allgs) \cap H = {}, Refs(allgs') \cap H = {},
         Refs(<<Treap>>) \cap H = {}, Refs(<<Treap'>>) \cap H = {}
  PROVE  Stored \cap H = {}
<1> SUFFICES ASSUME NEW w \in Stored PROVE w \notin H
  OBVIOUS
<1> DEFINE changes == {<<WordsOf(obj), WordsOf(obj)'>> : obj \in Goroutine \cup Sudog \cup Channel}
                      \cup {<<allgs, allgs'>>, <<<<Treap>>, <<Treap'>> >>}
<1>1. PICK c \in changes : c[1] # c[2] /\ w \in Changed(c[1], c[2])
  BY DEF Stored
<1>2. w \in Refs(c[1]) \cup Refs(c[2])
  BY <1>1, ChangedRefs
<1>3. CASE \E obj \in Goroutine \cup Sudog \cup Channel : c = <<WordsOf(obj), WordsOf(obj)'>>
  <2>1. PICK obj \in Goroutine \cup Sudog \cup Channel : c = <<WordsOf(obj), WordsOf(obj)'>>
    BY <1>3
  <2>2. c[1] = WordsOf(obj) /\ c[2] = WordsOf(obj)'
    BY <2>1
  <2>3. Refs(c[1]) \cap H = {} /\ Refs(c[2]) \cap H = {}
    BY <1>1, <2>2
  <2> QED
    BY <1>2, <2>3
<1>4. CASE c = <<allgs, allgs'>>
  <2>1. c[1] = allgs /\ c[2] = allgs'
    BY <1>4
  <2> QED
    BY <1>2, <2>1
<1>5. CASE c = <<<<Treap>>, <<Treap'>> >>
  <2>1. c[1] = <<Treap>> /\ c[2] = <<Treap'>>
    BY <1>5
  <2> QED
    BY <1>2, <2>1
<1> QED
  BY <1>1, <1>3, <1>4, <1>5

\* A goroutine that is not doomed cannot wake one that is.
LEMMA MutateSecluded ==
  ASSUME ProgramInv, Secluded, UNCHANGED doomed, NEW g \in Goroutine, Mutate(g)
  PROVE  /\ Secluded'
         /\ \A d \in doomed : waitingOn'[d] = waitingOn[d]
         /\ \A o \in Sync : (\A h \in Goroutine \ doomed : o \notin stack[h]) => queue'[o] = queue[o]
<1>0. ProgramTypes /\ Waiters /\ doomed \subseteq Goroutine
  BY DEF ProgramInv, Secluded, Waiting
<1>1. status[g] = "_Grunning" /\ g \notin doomed
  BY DEF Mutate, LoadGlobal, Forget, Park, Wake, Goexit, Go, Running, Secluded, Waiting
<1>2. ASSUME \A d \in doomed : status'[d] = status[d] /\ waitingOn'[d] = waitingOn[d],
             \A h \in Goroutine : \A o \in stack'[h] :
               o \in Globals \/ o \in stack[h] \/ (h \notin doomed /\ o \in stack[g])
      PROVE  Secluded'
  <2>1. \A d \in doomed : \A h \in Goroutine \ doomed :
          waitingOn[d] \notin stack[h] /\ waitingOn[d] \notin stack[g] /\ waitingOn[d] \notin Globals
    BY <1>1 DEF Secluded
  <2>2. \A d \in doomed : status'[d] = "_Gwaiting"
    BY <1>2 DEF Secluded, Waiting
  <2> QED
    BY <1>0, <1>2, <2>1, <2>2 DEF Secluded, Waiting
<1>3. CASE \E o \in Sync : LoadGlobal(g, o) \/ Forget(g, o)
  <2>1. UNCHANGED <<status, waitingOn, queue>>
    BY <1>3 DEF LoadGlobal, Forget
  <2>2. \A h \in Goroutine : \A p \in stack'[h] : p \in stack[h] \/ p \in Globals
    <3>1. PICK o \in Sync : LoadGlobal(g, o) \/ Forget(g, o)
      BY <1>3
    <3>2. CASE LoadGlobal(g, o)
      BY <1>0, <3>2 DEF LoadGlobal, ProgramTypes
    <3>3. CASE Forget(g, o)
      BY <1>0, <3>3 DEF Forget, ProgramTypes
    <3> QED
      BY <3>1, <3>2, <3>3
  <2> QED
    BY <1>2, <2>1, <2>2
<1>4. CASE \E o \in Sync : Park(g, o)
  <2>1. PICK o \in Sync : Park(g, o)
    BY <1>4
  <2>2. /\ UNCHANGED stack /\ o \in stack[g]
        /\ status' = [status EXCEPT ![g] = "_Gwaiting"] /\ waitingOn' = [waitingOn EXCEPT ![g] = o]
        /\ queue' = [queue EXCEPT ![o] = Append(@, g)]
    BY <2>1 DEF Park
  <2>3. \A d \in doomed : status'[d] = status[d] /\ waitingOn'[d] = waitingOn[d]
    BY <1>0, <1>1, <2>2 DEF ProgramTypes
  <2>4. \A p \in Sync : p # o => queue'[p] = queue[p]
    BY <1>0, <2>2 DEF ProgramTypes
  <2> QED
    BY <1>1, <1>2, <2>2, <2>3, <2>4
<1>5. CASE \E o \in Sync : Wake(g, o)
  <2>1. PICK o \in Sync : Wake(g, o)
    BY <1>5
  <2> DEFINE h == Head(queue[o])
  <2>2. /\ UNCHANGED stack /\ o \in stack[g] /\ queue[o] # <<>>
        /\ status' = [status EXCEPT ![h] = "_Grunning"] /\ waitingOn' = [waitingOn EXCEPT ![h] = Nil]
        /\ queue' = [queue EXCEPT ![o] = Tail(@)]
    BY <2>1 DEF Wake
  <2>3. Proper(o) /\ queue[o] \in Seq(Goroutine)
    BY <1>0, <2>2, ReachableProper DEF ProgramTypes
  <2>4. 1 \in DOMAIN queue[o] /\ h = queue[o][1]
    BY <2>2, <2>3
  <2>5. waitingOn[h] = o
    BY <2>3, <2>4 DEF Proper
  <2>6. h \notin doomed
    BY <1>1, <2>2, <2>5 DEF Secluded
  <2> HIDE DEF h
  <2>7. \A d \in doomed : status'[d] = status[d] /\ waitingOn'[d] = waitingOn[d]
    BY <1>0, <2>2, <2>6 DEF ProgramTypes
  <2>8. \A p \in Sync : p # o => queue'[p] = queue[p]
    BY <1>0, <2>2 DEF ProgramTypes
  <2> QED
    BY <1>1, <1>2, <2>2, <2>7, <2>8
<1>6. CASE Goexit(g)
  <2>1. /\ UNCHANGED <<waitingOn, queue>> /\ status' = [status EXCEPT ![g] = "_Gdead"]
        /\ stack' = [stack EXCEPT ![g] = {}]
    BY <1>6 DEF Goexit
  <2>2. \A d \in doomed : status'[d] = status[d]
    BY <1>0, <1>1, <2>1 DEF ProgramTypes
  <2>3. \A x \in Goroutine : \A p \in stack'[x] : p \in stack[x]
    BY <1>0, <2>1 DEF ProgramTypes
  <2> QED
    BY <1>2, <2>1, <2>2, <2>3
<1>7. CASE \E h \in Goroutine, args \in SUBSET stack[g] : Go(g, h, args)
  <2>1. PICK h \in Goroutine, args \in SUBSET stack[g] : Go(g, h, args)
    BY <1>7
  <2>2. /\ UNCHANGED <<waitingOn, queue>> /\ status[h] \in {"_Gdead", "_Gidle"}
        /\ status' = [status EXCEPT ![h] = "_Grunning"] /\ stack' = [stack EXCEPT ![h] = args]
    BY <2>1 DEF Go
  <2>3. h \notin doomed
    BY <2>2 DEF Secluded, Waiting
  <2>4. \A d \in doomed : status'[d] = status[d]
    BY <1>0, <2>2, <2>3 DEF ProgramTypes
  <2>5. \A x \in Goroutine : stack'[x] = IF x = h THEN args ELSE stack[x]
    BY <1>0, <2>2 DEF ProgramTypes
  <2> QED
    BY <1>2, <2>2, <2>3, <2>4, <2>5
<1> QED
  BY <1>3, <1>4, <1>5, <1>6, <1>7 DEF Mutate

\* Nobody reaches what is hidden, so it stays as it is.
LEMMA HiddenWordsStay ==
  ASSUME ProgramInv, Secluded, UNCHANGED gcdetectdeadlocks,
         \A d \in doomed : waitingOn'[d] = waitingOn[d],
         \A o \in Sync : (\A h \in Goroutine \ doomed : o \notin stack[h]) => queue'[o] = queue[o],
         NEW obj \in Goroutine \cup Sudog \cup Channel, obj \in Hidden
  PROVE  WordsOf(obj)' = WordsOf(obj)
<1>0. /\ ProgramTypes /\ Waiters /\ doomed \subseteq Goroutine
      /\ \A o \in Sync : o \in Hidden => queue'[o] = queue[o]
  <2>1. ProgramTypes /\ Waiters /\ doomed \subseteq Goroutine
    BY DEF ProgramInv, Secluded, Waiting
  <2>2. ASSUME NEW o \in Sync, o \in Hidden PROVE queue'[o] = queue[o]
    <3>1. \A h \in Goroutine \ doomed : o \notin stack[h]
      BY <2>1, <2>2, OnStack
    <3> QED
      BY <3>1
  <2> QED
    BY <2>1, <2>2
<1>1. CASE obj \in Goroutine
  <2>1. obj \in doomed
    BY <1>0, <1>1, HiddenKinds DEF DoomedOnChannel
  <2>2. waitingOn'[obj] = waitingOn[obj]
    BY <2>1
  <2>3. WordsOfG(obj)' = WordsOfG(obj)
    BY <2>2 DEF WordsOfG, gcMask, Masked
  <2>4. obj \notin Sudog /\ obj \notin Channel /\ obj # AllgsArray
    BY <1>1, Disjoint
  <2> QED
    BY <1>1, <2>3, <2>4 DEF WordsOf
<1>2. CASE obj \in Sudog
  <2>1. PICK g \in Goroutine : obj = SudogOf[g]
    BY <1>2 DEF Sudog
  <2>2. g \in doomed /\ waitingOn[g] \in Channel
    BY <1>0, <1>2, <2>1, HiddenKinds DEF DoomedOnChannel
  <2> DEFINE o == waitingOn[g]
  <2>3. waitingOn'[g] = waitingOn[g]
    BY <2>2
  <2>4. o \in Sync /\ o \in Hidden
    BY <2>2 DEF Sync, Hidden
  <2>5. queue'[o] = queue[o]
    BY <1>0, <2>4
  <2>6. SudogsAt(o)' = SudogsAt(o)
    BY <2>3, <2>5 DEF SudogsAt
  <2>7. /\ WordsOfSudog(g) = <<g, After(SudogsAt(o), SudogOf[g]), Nil, Nil, o>>
        /\ WordsOfSudog(g)' = <<g, After(SudogsAt(o)', SudogOf[g]), Nil, Nil, o>>
    <3>1. o \in Channel /\ o \notin Sema
      BY <2>2, Disjoint
    <3>2. WordsOfSudog(g) = <<g, After(SudogsAt(o), SudogOf[g]), Nil, Nil, o>>
      BY <3>1 DEF WordsOfSudog
    <3>3. WordsOfSudog(g)' = <<g, After(SudogsAt(o)', SudogOf[g]), Nil, Nil, o>>
      BY <2>3, <3>1 DEF WordsOfSudog, After
    <3> QED
      BY <3>2, <3>3
  <2>8. WordsOfSudog(g)' = WordsOfSudog(g)
    BY <2>6, <2>7
  <2>9. obj \notin Goroutine /\ (CHOOSE h \in Goroutine : SudogOf[h] = obj) = g
    BY <1>2, <2>1, AddressAssumption, SudogOwner
  <2>10. WordsOf(obj) = WordsOfSudog(g) /\ WordsOf(obj)' = WordsOfSudog(g)'
    <3>1. obj \notin Channel /\ obj # AllgsArray
      BY <1>2, Disjoint DEF Sync
    <3> QED
      BY <1>2, <2>9, <3>1 DEF WordsOf
  <2> QED
    BY <2>8, <2>10
<1>3. CASE obj \in Channel
  <2>1. obj \in Sync /\ obj \notin Goroutine /\ obj \notin Sudog /\ obj # AllgsArray
    BY <1>3, Disjoint
  <2>2. queue'[obj] = queue[obj]
    BY <1>0, <2>1
  <2> QED
    BY <1>3, <2>1, <2>2 DEF WordsOf
<1> QED
  BY <1>1, <1>2, <1>3

LEMMA HiddenShrinks ==
  ASSUME \A d \in doomed : waitingOn'[d] = waitingOn[d], UNCHANGED doomed,
         \A o \in Channel : Proper(o) => Proper(o)'
  PROVE  Hidden' \subseteq Hidden
<1>1. DoomedOnChannel' = DoomedOnChannel
  BY DEF DoomedOnChannel
<1>2. {waitingOn[d] : d \in doomed}' = {waitingOn[d] : d \in doomed}
  OBVIOUS
<1> QED
  BY <1>1, <1>2 DEF Hidden

LEMMA DoomMutator ==
  ASSUME LinkedInv, LinkedInv', Unfound, gcdetectdeadlocks # 0, phase = "mark", Mutator
  PROVE  Unfound'
<1>1. /\ UNCHANGED <<phase, stackRoots, nValidStackRoots, loop, doomed, gcdetectdeadlocks>>
  BY DEF Mutator, rootVars, history
<1>2. PICK g \in Goroutine : Mutate(g)
  BY DEF Mutator
<1>3. ProgramInv /\ Secluded /\ Tables /\ ProgramTypes /\ Waiters
  BY DEF LinkedInv, RootsInv, ProgramInv, Unfound
<1>4. /\ Secluded'
      /\ \A d \in doomed : waitingOn'[d] = waitingOn[d]
      /\ \A o \in Sync : (\A h \in Goroutine \ doomed : o \notin stack[h]) => queue'[o] = queue[o]
  BY <1>1, <1>2, <1>3, MutateSecluded
<1>5. Hidden' \subseteq Hidden
  <2>1. \A o \in Channel : Proper(o) => Proper(o)'
    BY <1>1, <1>2, <1>3, MutateInv DEF Sync
  <2> QED
    BY <1>1, <1>4, <2>1, HiddenShrinks
<1>6. ValidVisible /\ ValidVisible'
  BY VisibleNow, VisibleNext
<1>7. /\ \A obj \in Goroutine \cup Sudog \cup Channel : obj \notin Hidden =>
           Refs(WordsOf(obj)) \cap Hidden = {}
      /\ Refs(<<Treap>>) \cap Hidden = {} /\ Refs(allgs) = {}
  BY <1>3, <1>6 DEF ValidVisible
<1>8. /\ \A obj \in Goroutine \cup Sudog \cup Channel : obj \notin Hidden' =>
           Refs(WordsOf(obj)') \cap Hidden' = {}
      /\ Refs(<<Treap'>>) \cap Hidden' = {} /\ Refs(allgs') = {}
  <2>1. ProgramTypes' /\ Waiters' /\ Secluded' /\ Tables' /\ gcdetectdeadlocks' # 0
    BY <1>1, <1>4 DEF LinkedInv, RootsInv, ProgramInv
  <2> QED
    BY <1>6, <2>1 DEF ValidVisible
<1>9. Stored \cap Hidden' = {}
  <2>1. ASSUME NEW obj \in Goroutine \cup Sudog \cup Channel
        PROVE  \/ WordsOf(obj)' = WordsOf(obj)
               \/ Refs(WordsOf(obj)) \cap Hidden' = {} /\ Refs(WordsOf(obj)') \cap Hidden' = {}
    <3>1. CASE obj \in Hidden
      BY <1>1, <1>3, <1>4, <3>1, HiddenWordsStay
    <3>2. CASE obj \notin Hidden
      BY <1>5, <1>7, <1>8, <3>2
    <3> QED
      BY <3>1, <3>2
  <2>2. /\ Refs(<<Treap>>) \cap Hidden' = {} /\ Refs(allgs) \cap Hidden' = {}
        /\ Refs(<<Treap'>>) \cap Hidden' = {} /\ Refs(allgs') \cap Hidden' = {}
    BY <1>5, <1>7, <1>8
  <2>3. \A H : H = Hidden' => Stored \cap H = {}
    <3> SUFFICES ASSUME NEW H, H = Hidden' PROVE Stored \cap H = {}
      OBVIOUS
    <3>1. \A obj \in Goroutine \cup Sudog \cup Channel :
           \/ WordsOf(obj)' = WordsOf(obj)
           \/ Refs(WordsOf(obj)) \cap H = {} /\ Refs(WordsOf(obj)') \cap H = {}
      BY <2>1
    <3>2. /\ Refs(<<Treap>>) \cap H = {} /\ Refs(allgs) \cap H = {}
          /\ Refs(<<Treap'>>) \cap H = {} /\ Refs(allgs') \cap H = {}
      BY <2>2
    <3> QED
      BY <3>1, <3>2, StoredVisible
  <2> QED
    BY <2>3
<1>10. marked \cap Hidden = {}
  BY DEF Unfound
<1>11. marked' \cap Hidden' = {}
  <2>1. CASE WriteBarrier
    <3>1. marked' = marked \cup Stored
      BY <2>1 DEF WriteBarrier, Shade
    <3> QED
      BY <1>5, <1>9, <1>10, <3>1
  <2>2. CASE \E h \in Goroutine, args \in SUBSET stack[g] :
               /\ Go(g, h, args)
               /\ marked' = marked \cup args \cup IF status[h] = "_Gidle" THEN {h} ELSE {}
    <3>1. PICK h \in Goroutine, args \in SUBSET stack[g] :
               /\ Go(g, h, args)
               /\ marked' = marked \cup args \cup IF status[h] = "_Gidle" THEN {h} ELSE {}
      BY <2>2
    <3>2. status[h] \in {"_Gdead", "_Gidle"} /\ status[g] = "_Grunning"
      BY <3>1 DEF Go, Running
    <3>3. h \notin doomed /\ g \notin doomed
      BY <1>3, <3>2 DEF Secluded, Waiting
    <3>4. h \notin Hidden
      BY <1>3, <3>3, HiddenKinds DEF DoomedOnChannel
    <3>5. \A o \in args : o \notin Hidden
      BY <1>3, <3>3, OnStack
    <3> QED
      BY <1>5, <1>10, <3>1, <3>4, <3>5
  <2> QED
    BY <1>2, <2>1, <2>2 DEF Mutate
<1>12. /\ \A i : Root(i)' = Root(i)
       /\ nStackRoots' = nStackRoots /\ ValidEnd' = ValidEnd
  BY <1>1 DEF Root, gcUnmask, nStackRoots, ValidEnd
<1>13. doomed' \subseteq {Root(i)' : i \in 1 .. nStackRoots'}
  BY <1>1, <1>12 DEF Unfound
<1>14. \A i \in 1 .. ValidEnd' : stackRoots'[i] \notin doomed'
  BY <1>1, <1>12 DEF Unfound
<1> QED
  BY <1>4, <1>11, <1>13, <1>14 DEF Unfound

LEMMA DoomStart ==
  ASSUME LinkedInv, LinkedInv', gcdetectdeadlocks # 0, gcStart
  PROVE  Unfound'
<1>1. /\ UNCHANGED <<status, stack, waitingOn, queue, allgs, loop, gcdetectdeadlocks>>
      /\ loop.at = "idle" /\ doomed' = Doomed
  BY DEF gcStart, LinkedInv, RootsInv, Phases, progVars, bounds
<1>2. ASSUME NEW d \in Doomed
      PROVE  /\ d \in Waiting /\ waitingOn[d] \notin Globals
             /\ \A g \in Goroutine \ Doomed : waitingOn[d] \notin stack[g]
  <2>1. PICK D \in SUBSET Waiting :
          /\ \A g \in D : waitingOn[g] \notin Globals \cup UNION {stack[h] : h \in Goroutine \ D}
          /\ d \in D
    BY <1>2 DEF Doomed
  <2>2. D \subseteq Doomed
    BY <2>1 DEF Doomed
  <2> QED
    BY <2>1, <2>2
<1>3. Secluded'
  BY <1>1, <1>2 DEF Secluded, Waiting
<1>4. PICK p \in Permutations(Len(allgs)), k \in 0 .. Len(allgs) :
        /\ SnapshotOrder(p, k)
        /\ stackRoots' = Snapshot(p, k) /\ nValidStackRoots' = k
        /\ marked' = Refs(Snapshot(p, k))
  BY DEF gcStart
<1>5. /\ p \in [1 .. Len(allgs) -> 1 .. Len(allgs)] /\ Len(allgs) \in Nat
      /\ \A i \in 1 .. Len(allgs) : \E j \in 1 .. Len(allgs) : p[j] = i
  BY <1>4 DEF Permutations, LinkedInv, RootsInv, Tables
<1>6. /\ nStackRoots' = Len(allgs) /\ ValidEnd' = k /\ DOMAIN stackRoots' = 1 .. Len(allgs)
      /\ \A j \in 1 .. Len(allgs) :
           stackRoots'[j] = LET gp == gcUnmask(allgs[p[j]]) IN IF j <= k THEN gp ELSE gcMask(gp)
  BY <1>1, <1>4, <1>5 DEF Snapshot, nStackRoots, ValidEnd
<1>7. ASSUME NEW j \in 1 .. Len(allgs)
      PROVE  /\ gcUnmask(allgs[p[j]]) \in Goroutine
             /\ j <= k => status[stackRoots'[j]] # "_Gwaiting" /\ stackRoots'[j] \in Goroutine
             /\ j > k => IsMasked(stackRoots'[j])
  <2>1. gcUnmask(allgs[p[j]]) \in Goroutine
    BY <1>5, AllgsEntries DEF LinkedInv, RootsInv
  <2>2. j <= k => status[gcUnmask(allgs[p[j]])] # "_Gwaiting"
    BY <1>4, <1>5 DEF SnapshotOrder
  <2>3. IsMasked(Masked(gcUnmask(allgs[p[j]])))
    BY <2>1, MaskedAddress
  <2>4. stackRoots'[j] = IF j <= k THEN gcUnmask(allgs[p[j]]) ELSE Masked(gcUnmask(allgs[p[j]]))
    BY <1>6 DEF gcMask
  <2>5. j \in Nat /\ k \in Nat
    BY <1>5
  <2> QED
    BY <2>1, <2>2, <2>3, <2>4, <2>5
<1>8. Doomed \subseteq Waiting
  BY <1>2
<1>9. ASSUME NEW i \in 1 .. ValidEnd' PROVE stackRoots'[i] \notin doomed'
  <2>1. i \in 1 .. Len(allgs) /\ i <= k
    BY <1>5, <1>6
  <2> QED
    BY <1>1, <1>7, <1>8, <2>1 DEF Waiting
<1>10. \A w \in marked' : w \in Goroutine /\ w \notin doomed'
  <2> SUFFICES ASSUME NEW w \in marked' PROVE w \in Goroutine /\ w \notin doomed'
    OBVIOUS
  <2>1. w \in Refs(stackRoots')
    BY <1>4, Zenon
  <2>2. PICK j \in 1 .. Len(allgs) : w = stackRoots'[j] /\ ~IsMasked(w)
    BY <1>6, <2>1, RefsAreWords
  <2>3. j <= k
    BY <1>5, <1>7, <2>2
  <2> QED
    BY <1>1, <1>7, <1>8, <2>2, <2>3 DEF Waiting
<1>11. marked' \cap Hidden' = {}
  <2>1. doomed' \subseteq Goroutine /\ \A d \in doomed' : waitingOn'[d] \in Sync
    BY <1>3 DEF LinkedInv, ProgramInv, ProgramTypes, Waiters, Secluded, Waiting
  <2>2. ASSUME NEW w \in Hidden', w \in Goroutine PROVE w \in doomed'
    <3>1. w \notin Sync /\ (\A h \in Goroutine : SudogOf[h] # w) /\ Channel \subseteq Sync
      BY <2>2, Disjoint DEF Sync
    <3>2. DoomedOnChannel' \subseteq doomed'
      BY DEF DoomedOnChannel
    <3>3. \/ \E d \in doomed' : w = waitingOn'[d]
          \/ w \in DoomedOnChannel'
          \/ \E h \in DoomedOnChannel' : w = SudogOf[h]
          \/ w \in Channel
      BY <2>2 DEF Hidden
    <3> QED
      BY <2>1, <3>1, <3>2, <3>3
  <2> QED
    BY <1>10, <2>2
<1>12. doomed' \subseteq {Root(i)' : i \in 1 .. nStackRoots'}
  <2> SUFFICES ASSUME NEW d \in doomed' PROVE \E i \in 1 .. nStackRoots' : Root(i)' = d
    OBVIOUS
  <2>1. d \in Goroutine /\ status[d] # "_Gidle"
    BY <1>1, <1>8 DEF Waiting
  <2>2. PICK i \in 1 .. Len(allgs) : gcUnmask(allgs[i]) = d
    BY <2>1 DEF LinkedInv, ProgramInv, InAllgs
  <2>3. PICK j \in 1 .. Len(allgs) : p[j] = i
    BY <1>5
  <2>4. gcUnmask(stackRoots'[j]) = d
    BY <1>6, <2>1, <2>2, <2>3, MaskOfG, MaskedRoundTrip
  <2>5. Root(j)' = gcUnmask(stackRoots'[j])
    BY DEF Root, gcUnmask
  <2> QED
    BY <1>6, <2>4, <2>5
<1> QED
  BY <1>3, <1>9, <1>11, <1>12 DEF Unfound

\* Steps that leave the program alone, mark nothing hidden and lose no entry.
LEMMA UnfoundFrame ==
  ASSUME Unfound, UNCHANGED <<progVars, doomed>>, NEW new, marked' = marked \cup new,
         new \cap Hidden = {},
         \A j \in 1 .. nStackRoots : Root(j) \in {Root(i)' : i \in 1 .. nStackRoots'},
         \A i \in 1 .. ValidEnd' : stackRoots'[i] \notin doomed
  PROVE  Unfound'
<1>1. UNCHANGED <<status, stack, waitingOn, queue>>
  BY DEF progVars
<1>2. Secluded'
  BY <1>1 DEF Unfound, Secluded, Waiting
<1>3. Hidden' = Hidden
  BY <1>1 DEF Hidden, DoomedOnChannel, Proper
<1>4. marked' \cap Hidden' = {}
  BY <1>3 DEF Unfound
<1> QED
  BY <1>2, <1>4 DEF Unfound

LEMMA SameRootEntries ==
  ASSUME UNCHANGED stackRoots
  PROVE  \A j \in 1 .. nStackRoots : Root(j) \in {Root(i)' : i \in 1 .. nStackRoots'}
  BY DEF nStackRoots, Root, gcUnmask

LEMMA DoomMark ==
  ASSUME LinkedInv, Unfound, gcdetectdeadlocks # 0,
         MarkGlobals \/ MarkStack \/ \E obj \in grey : ScanObject(obj)
  PROVE  Unfound'
<1>1. UNCHANGED <<progVars, doomed, stackRoots, nValidStackRoots, loop>>
  BY DEF MarkGlobals, MarkStack, ScanObject, unscanned, rootVars, history
<1>2. ValidEnd' = ValidEnd
  BY <1>1 DEF ValidEnd
<1>3. \A i \in 1 .. ValidEnd' : stackRoots'[i] \notin doomed
  BY <1>1, <1>2 DEF Unfound
<1>4. ProgramInv /\ ProgramTypes /\ Waiters /\ Secluded /\ Tables /\ doomed \subseteq Goroutine
  BY DEF LinkedInv, RootsInv, ProgramInv, Unfound, Secluded, Waiting
<1>5. /\ \A obj \in Goroutine \cup Sudog \cup Channel : obj \notin Hidden =>
           Refs(WordsOf(obj)) \cap Hidden = {}
      /\ Refs(<<Treap>>) \cap Hidden = {} /\ Refs(allgs) = {}
  BY <1>4, VisibleNow DEF ValidVisible
<1>6. AllgsArray \notin Hidden
  <2>1. Hidden \subseteq Goroutine \cup Sudog \cup Sync
    BY <1>4, Disjoint DEF Hidden, DoomedOnChannel, Secluded, Waiting, Waiters, ProgramTypes
  <2> QED
    BY <2>1, Disjoint
<1>7. \A o \in Globals : o \notin Hidden
  <2> SUFFICES ASSUME NEW o \in Globals PROVE o \notin Hidden
    OBVIOUS
  <2>1. o \in Sync
    BY SyncAssumption
  <2>2. Proper(o) /\ \A d \in doomed : waitingOn[d] # o
    BY <1>4, <2>1 DEF Waiters, Reachable, Secluded
  <2> QED
    BY <1>4, <2>1, <2>2, HiddenKinds
<1>8. \E new : marked' = marked \cup new /\ new \cap Hidden = {}
  <2>1. CASE MarkGlobals
    <3>1. marked' = marked \cup (Globals \cup {AllgsArray} \cup Refs(<<Treap>>))
      BY <2>1 DEF MarkGlobals, Shade
    <3>2. (Globals \cup {AllgsArray} \cup Refs(<<Treap>>)) \cap Hidden = {}
      BY <1>5, <1>6, <1>7
    <3> QED
      BY <3>1, <3>2
  <2>2. CASE MarkStack
    <3> DEFINE g == stackRoots[markrootNext]
    <3>1. marked' = marked \cup StackRefs(g)
      BY <2>2 DEF MarkStack, Shade
    <3>2. markrootNext \in 1 .. ValidEnd
      <4>1. 0 < markrootNext /\ markrootNext < 1 + nValidStackRoots
        BY <2>2 DEF MarkStack, markrootJobs
      <4>2. nValidStackRoots <= ValidEnd /\ nValidStackRoots \in Nat /\ markrootNext \in Nat /\ ValidEnd \in Nat
        BY LoopFacts DEF LinkedInv, RootsInv, Indices, Tables, ValidEnd
      <4> QED
        BY <4>1, <4>2
    <3>3. g \in Goroutine \ doomed
      BY <3>2 DEF LinkedInv, RootsInv, Entries, Unfound
    <3>4. \A o \in stack[g] : o \notin Hidden
      BY <1>4, <3>3, OnStack
    <3>5. SudogOf[g] \notin Hidden
      BY <1>4, <3>3, HiddenKinds DEF DoomedOnChannel
    <3>6. StackRefs(g) \cap Hidden = {}
      BY <3>4, <3>5 DEF StackRefs
    <3> QED
      BY <3>1, <3>6
  <2>3. CASE \E obj \in grey : ScanObject(obj)
    <3>1. PICK obj \in grey : ScanObject(obj)
      BY <2>3
    <3>2. marked' = marked \cup ScannedRefs(WordsOf(obj))
      BY <3>1 DEF ScanObject
    <3>3. obj \notin Hidden
      BY DEF LinkedInv, Scanned, Unfound
    <3>4. ScannedRefs(WordsOf(obj)) \subseteq Refs(WordsOf(obj))
      <4>1. \A words : DOMAIN words \subseteq Nat \ {0} => ScannedRefs(words) \subseteq Refs(words)
        <5> SUFFICES ASSUME NEW words, DOMAIN words \subseteq Nat \ {0},
                            NEW w \in ScannedRefs(words)
                     PROVE  w \in Refs(words)
          OBVIOUS
        <5>1. PICK j \in DOMAIN words : /\ w = words[j] /\ words[j] # Nil
                                        /\ \A k \in 1 .. j : ~IsMasked(words[k])
          BY DEF ScannedRefs
        <5>2. j \in 1 .. j
          OBVIOUS
        <5> QED
          BY <5>1, <5>2 DEF Refs
      <4>2. DOMAIN WordsOf(obj) \subseteq Nat \ {0}
        <5>1. CASE obj \in Goroutine
          BY <5>1, WordsOfKinds DEF WordsOfG
        <5>2. CASE obj \in Sudog
          <6>1. PICK g \in Goroutine : obj = SudogOf[g]
            BY <5>2 DEF Sudog
          <6>2. WordsOf(obj) = WordsOfSudog(g)
            BY <6>1, WordsOfKinds
          <6>3. CASE waitingOn[g] \in Channel
            <7>1. waitingOn[g] \notin Sema
              BY <6>3, Disjoint
            <7> QED
              BY <6>2, <6>3, <7>1 DEF WordsOfSudog
          <6>4. CASE waitingOn[g] \in Sema
            <7>1. waitingOn[g] \notin Channel
              BY <6>4, Disjoint
            <7> QED
              BY <6>2, <6>4, <7>1 DEF WordsOfSudog
          <6>5. CASE waitingOn[g] \notin Channel /\ waitingOn[g] \notin Sema
            BY <6>2, <6>5 DEF WordsOfSudog
          <6> QED
            BY <6>3, <6>4, <6>5
        <5>3. CASE obj \in Channel
          BY <5>3, WordsOfKinds
        <5>4. CASE obj = AllgsArray
          <6>1. WordsOf(obj) = allgs /\ DOMAIN allgs = 1 .. Len(allgs) /\ Len(allgs) \in Nat
            BY <1>4, <5>4, WordsOfKinds DEF Tables
          <6> QED
            BY <6>1
        <5>5. CASE obj \notin Goroutine /\ obj \notin Sudog /\ obj \notin Channel /\ obj # AllgsArray
          BY <5>5 DEF WordsOf
        <5> QED
          BY <5>1, <5>2, <5>3, <5>4, <5>5
      <4> QED
        BY <4>1, <4>2
    <3>5. Refs(WordsOf(obj)) \cap Hidden = {}
      <4>1. CASE obj \in Goroutine \cup Sudog \cup Channel
        BY <1>5, <3>3, <4>1
      <4>2. CASE obj = AllgsArray
        BY <1>5, <4>2, WordsOfKinds
      <4>3. CASE obj \notin Goroutine \cup Sudog \cup Channel /\ obj # AllgsArray
        <5>1. WordsOf(obj) = <<>>
          BY <4>3 DEF WordsOf
        <5>2. Refs(<<>>) = {}
          BY DEF Refs
        <5> QED
          BY <5>1, <5>2
      <4> QED
        BY <4>1, <4>2, <4>3
    <3> QED
      BY <3>2, <3>4, <3>5
  <2> QED
    BY <2>1, <2>2, <2>3
<1> QED
  BY <1>1, <1>3, <1>8, SameRootEntries, UnfoundFrame

LEMMA ValidIsBoolean ==
  /\ \A g : StackRootValid(g) \in {{TRUE}, {FALSE}, BOOLEAN}
  /\ \A g : \A valid \in StackRootValid(g) : valid \in BOOLEAN
<1>1. ASSUME NEW g PROVE StackRootValid(g) \in {{TRUE}, {FALSE}, BOOLEAN}
  <2> DEFINE isMarked == waitingOn[g] \in marked
  <2>1. StackRootValid(g) = IF status[g] = "_Gwaiting" THEN {isMarked} ELSE BOOLEAN
    BY DEF StackRootValid
  <2>2. isMarked \in BOOLEAN
    OBVIOUS
  <2> HIDE DEF isMarked
  <2> QED
    BY <2>1, <2>2
<1>2. ASSUME NEW g, NEW valid \in StackRootValid(g) PROVE valid \in BOOLEAN
  <2> DEFINE S == StackRootValid(g)
  <2>1. S \in {{TRUE}, {FALSE}, BOOLEAN}
    BY <1>1
  <2>2. S \subseteq BOOLEAN
    <3> HIDE DEF S
    <3> QED
      BY <2>1
  <2> QED
    BY <2>2, Zenon
<1> QED
  BY <1>1, <1>2

\* An entry that is taken for valid is none of the doomed.
LEMMA ValidNotDoomed ==
  ASSUME LinkedInv, Unfound, NEW g \in Goroutine,
         status[g] # "_Gwaiting" \/ TRUE \in StackRootValid(g)
  PROVE  g \notin doomed
<1> SUFFICES ASSUME g \in doomed PROVE FALSE
  OBVIOUS
<1>1. status[g] = "_Gwaiting" /\ waitingOn[g] \in Hidden
  BY DEF Unfound, Secluded, Waiting, Hidden
<1>2. waitingOn[g] \in marked
  BY <1>1 DEF StackRootValid
<1> QED
  BY <1>1, <1>2 DEF Unfound

LEMMA DoomAccept ==
  ASSUME LinkedInv, Unfound, UNCHANGED <<progVars, doomed>>,
         NEW n \in 1 .. nStackRoots, NEW i \in 1 .. nStackRoots, n = ValidEnd + 1, n <= i,
         Len(stackRoots') = nStackRoots,
         \A j \in 1 .. nStackRoots :
           stackRoots'[j] = IF j = n THEN Root(i) ELSE IF j = i THEN stackRoots[n] ELSE stackRoots[j],
         ValidEnd' = n, marked' = marked \cup {Root(i)}, Root(i) \notin doomed
  PROVE  Unfound'
<1>1. nStackRoots' = nStackRoots /\ nStackRoots \in Nat /\ ValidEnd \in Nat
  BY LoopFacts DEF nStackRoots, LinkedInv, ValidEnd
<1>2. Root(i) \in Goroutine /\ gcUnmask(Root(i)) = Root(i)
  BY RootIsG, MaskedRoundTrip DEF LinkedInv
<1>3. {Root(m)' : m \in 1 .. nStackRoots'} = {gcUnmask(stackRoots'[m]) : m \in 1 .. nStackRoots}
  BY <1>1 DEF Root, gcUnmask
<1>4. ASSUME NEW j \in 1 .. nStackRoots PROVE Root(j) \in {Root(m)' : m \in 1 .. nStackRoots'}
  <2>1. CASE j = i
    <3>1. gcUnmask(stackRoots'[n]) = Root(i)
      BY <1>2
    <3> QED
      BY <1>3, <2>1, <3>1
  <2>2. CASE j = n /\ n # i
    <3>1. gcUnmask(stackRoots'[i]) = Root(n)
      BY <2>2 DEF Root
    <3> QED
      BY <1>3, <2>2, <3>1
  <2>3. CASE j # n /\ j # i
    <3>1. gcUnmask(stackRoots'[j]) = Root(j)
      BY <2>3 DEF Root
    <3> QED
      BY <1>3, <3>1
  <2> QED
    BY <2>1, <2>2, <2>3
<1>5. ASSUME NEW j \in 1 .. ValidEnd' PROVE stackRoots'[j] \notin doomed
  <2>1. j \in 1 .. nStackRoots /\ (j = n \/ (j \in 1 .. ValidEnd /\ j # n /\ j # i))
    BY <1>1
  <2> QED
    BY <2>1 DEF Unfound
<1>6. Root(i) \notin Hidden
  <2>1. ProgramTypes /\ Waiters /\ Secluded
    BY DEF LinkedInv, ProgramInv, Unfound
  <2> QED
    BY <1>2, <2>1, HiddenKinds DEF DoomedOnChannel
<1>7. {Root(i)} \cap Hidden = {}
  BY <1>6
<1> QED
  BY <1>4, <1>5, <1>7, UnfoundFrame

\* Steps that leave the entries and the marks alone.
LEMMA DoomSame ==
  ASSUME Unfound, UNCHANGED <<progVars, doomed, stackRoots, marked>>, ValidEnd' = ValidEnd
  PROVE  Unfound'
<1>1. marked' = marked \cup {} /\ {} \cap Hidden = {}
  OBVIOUS
<1>2. \A i \in 1 .. ValidEnd' : stackRoots'[i] \notin doomed
  BY DEF Unfound
<1> QED
  BY <1>1, <1>2, SameRootEntries, UnfoundFrame

LEMMA DoomSameEntries ==
  ASSUME LinkedInv, Unfound,
         gcMarkDone \/ DiscoverPublish \/ MarkDoneReturns \/ PassBarrier \/ Restart \/ StopTheWorld \/ DetectResume
  PROVE  Unfound'
<1>1. UNCHANGED <<progVars, doomed, stackRoots, marked>>
  BY DEF gcMarkDone, DiscoverPublish, MarkDoneReturns, PassBarrier, Restart, StopTheWorld, DetectResume, notDiscover,
         notDetect, rootVars, history
<1>2. nValidStackRoots' = ValidEnd
  BY DEF gcMarkDone, DiscoverPublish, MarkDoneReturns, PassBarrier, Restart, StopTheWorld, DetectResume,
         rootVars, ValidEnd
<1>3. loop'.at \in {"idle", "outer", "top", "barrier", "detect"} /\ (loop'.at = "outer" => loop'.v = ValidEnd)
  BY DEF gcMarkDone, DiscoverPublish, MarkDoneReturns, PassBarrier, Restart, StopTheWorld, DetectResume,
         LoopAt, Idle, Top, ValidEnd
<1>4. ValidEnd' = ValidEnd
  BY <1>2, <1>3 DEF ValidEnd
<1> QED
  BY <1>1, <1>4, DoomSame

LEMMA DoomFirst ==
  ASSUME LinkedInv, Unfound, DiscoverFirst
  PROVE  Unfound'
<1> DEFINE n == loop.v + 1
<1>1. /\ loop.at = "outer" /\ loop.v < loop.iv
      /\ UNCHANGED <<progVars, doomed, nValidStackRoots>>
  BY DEF DiscoverFirst, notDiscover, history
<1>2. loop.iv <= nStackRoots /\ ValidEnd = loop.v
  BY <1>1 DEF LinkedInv, RootsInv, Indices, ValidEnd
<1>3. /\ stackRoots \in Seq(Nat) /\ nStackRoots = Len(stackRoots) /\ nStackRoots \in Nat
      /\ loop.v \in Nat /\ loop.iv \in Nat
  BY LoopFacts DEF LinkedInv
<1>4. n \in 1 .. nStackRoots /\ n <= n /\ n = ValidEnd + 1
  BY <1>1, <1>2, <1>3
<1>5. \/ /\ TRUE \in StackRootValid(Root(n))
         /\ stackRoots' = [stackRoots EXCEPT ![n] = Root(n)]
         /\ marked' = marked \cup {Root(n)}
         /\ loop' = LoopAt("outer", n, loop.iv, FALSE)
      \/ /\ loop' = LoopAt("inner", loop.v, loop.iv, FALSE)
         /\ UNCHANGED <<stackRoots, marked>>
  <2>1. PICK valid \in StackRootValid(Root(n)) :
          IF valid
          THEN /\ stackRoots' = [stackRoots EXCEPT ![n] = Root(n)]
               /\ StoreRoot(Root(n))
               /\ loop' = LoopAt("outer", n, loop.iv, FALSE)
          ELSE /\ loop' = LoopAt("inner", loop.v, loop.iv, FALSE)
               /\ UNCHANGED <<stackRoots, marked, grey>>
    BY DEF DiscoverFirst
  <2>2. valid \in BOOLEAN
    BY ValidIsBoolean, Zenon
  <2>3. CASE valid = TRUE
    BY <2>1, <2>3 DEF StoreRoot, Shade
  <2>4. CASE valid = FALSE
    BY <2>1, <2>4
  <2> QED
    BY <2>2, <2>3, <2>4
<1>6. CASE /\ TRUE \in StackRootValid(Root(n))
           /\ stackRoots' = [stackRoots EXCEPT ![n] = Root(n)]
           /\ marked' = marked \cup {Root(n)}
           /\ loop' = LoopAt("outer", n, loop.iv, FALSE)
  <2>1. ValidEnd' = n
    BY <1>6 DEF ValidEnd, LoopAt
  <2>2. /\ Len(stackRoots') = nStackRoots
        /\ \A j \in 1 .. nStackRoots :
             stackRoots'[j] = IF j = n THEN Root(n) ELSE IF j = n THEN stackRoots[n] ELSE stackRoots[j]
    BY <1>3, <1>4, <1>6
  <2>3. Root(n) \notin doomed
    <3>1. Root(n) \in Goroutine
      BY <1>4, RootIsG DEF LinkedInv
    <3> HIDE DEF n
    <3> QED
      BY <1>6, <3>1, ValidNotDoomed
  <2>4. marked' = marked \cup {Root(n)}
    BY <1>6
  <2> HIDE DEF n
  <2> QED
    BY <1>1, <1>4, <2>1, <2>2, <2>3, <2>4, DoomAccept
<1>7. CASE /\ loop' = LoopAt("inner", loop.v, loop.iv, FALSE)
           /\ UNCHANGED <<stackRoots, marked>>
  <2>1. ValidEnd' = ValidEnd
    BY <1>2, <1>7 DEF ValidEnd, LoopAt
  <2> QED
    BY <1>1, <1>7, <2>1, DoomSame
<1> QED
  BY <1>5, <1>6, <1>7

LEMMA DoomSwap ==
  ASSUME LinkedInv, Unfound, DiscoverSwap
  PROVE  Unfound'
<1> DEFINE n == loop.v + 1
           i == loop.iv
<1>1. loop.at = "inner" /\ UNCHANGED <<progVars, doomed, nValidStackRoots>>
  BY DEF DiscoverSwap, notDiscover, history
<1>2. loop.v < loop.iv /\ loop.iv <= nStackRoots /\ ValidEnd = loop.v
  BY <1>1 DEF LinkedInv, RootsInv, Indices, ValidEnd
<1>3. /\ stackRoots \in Seq(Nat) /\ nStackRoots = Len(stackRoots) /\ nStackRoots \in Nat
      /\ loop.v \in Nat /\ loop.iv \in Nat
  BY LoopFacts DEF LinkedInv
<1>4. n \in 1 .. nStackRoots /\ i \in 1 .. nStackRoots /\ n <= i /\ n = ValidEnd + 1
  BY <1>1, <1>2, <1>3
<1>5. \/ /\ TRUE \in StackRootValid(Root(i))
         /\ stackRoots' = [stackRoots EXCEPT ![i] = stackRoots[n], ![n] = Root(i)]
         /\ marked' = marked \cup {Root(i)}
         /\ loop' = LoopAt("outer", n, i - 1, FALSE)
      \/ /\ \E label \in {"outer", "inner"} : loop' = LoopAt(label, loop.v, i - 1, FALSE)
         /\ UNCHANGED <<stackRoots, marked>>
  <2>1. CASE i = n
    BY <2>1 DEF DiscoverSwap
  <2>2. CASE i # n
    <3>1. PICK valid \in StackRootValid(Root(i)) :
            IF valid
            THEN /\ stackRoots' = [stackRoots EXCEPT ![i] = stackRoots[n], ![n] = Root(i)]
                 /\ StoreRoot(Root(i))
                 /\ loop' = LoopAt("outer", n, i - 1, FALSE)
            ELSE /\ loop' = LoopAt("inner", loop.v, i - 1, FALSE)
                 /\ UNCHANGED <<stackRoots, marked, grey>>
      BY <2>2 DEF DiscoverSwap
    <3>2. valid \in BOOLEAN
      BY ValidIsBoolean, Zenon
    <3>3. CASE valid = TRUE
      BY <3>1, <3>3 DEF StoreRoot, Shade
    <3>4. CASE valid = FALSE
      BY <3>1, <3>4
    <3> QED
      BY <3>2, <3>3, <3>4
  <2> QED
    BY <2>1, <2>2
<1>6. CASE /\ TRUE \in StackRootValid(Root(i))
           /\ stackRoots' = [stackRoots EXCEPT ![i] = stackRoots[n], ![n] = Root(i)]
           /\ marked' = marked \cup {Root(i)}
           /\ loop' = LoopAt("outer", n, i - 1, FALSE)
  <2>1. ValidEnd' = n
    BY <1>6 DEF ValidEnd, LoopAt
  <2>2. /\ Len(stackRoots') = nStackRoots
        /\ \A j \in 1 .. nStackRoots :
             stackRoots'[j] = IF j = n THEN Root(i) ELSE IF j = i THEN stackRoots[n] ELSE stackRoots[j]
    BY <1>3, <1>4, <1>6
  <2>3. Root(i) \notin doomed
    <3>1. Root(i) \in Goroutine
      BY <1>4, RootIsG DEF LinkedInv
    <3> HIDE DEF i
    <3> QED
      BY <1>6, <3>1, ValidNotDoomed
  <2>4. marked' = marked \cup {Root(i)}
    BY <1>6
  <2> HIDE DEF n, i
  <2> QED
    BY <1>1, <1>4, <2>1, <2>2, <2>3, <2>4, DoomAccept
<1>7. CASE /\ \E label \in {"outer", "inner"} : loop' = LoopAt(label, loop.v, i - 1, FALSE)
           /\ UNCHANGED <<stackRoots, marked>>
  <2>1. ValidEnd' = ValidEnd
    BY <1>2, <1>7 DEF ValidEnd, LoopAt
  <2> QED
    BY <1>1, <1>7, <2>1, DoomSame
<1> QED
  BY <1>5, <1>6, <1>7

LEMMA DoomPass ==
  ASSUME LinkedInv, Unfound, DetectPass
  PROVE  Unfound'
<1> DEFINE n == nValidStackRoots + 1
           i == loop.v + 1
<1>1. /\ loop.at = "detect" /\ loop.v < loop.iv /\ UNCHANGED <<progVars, doomed>>
  BY DEF DetectPass, notDetect, history
<1>2. nValidStackRoots <= loop.v /\ loop.iv = nStackRoots /\ ValidEnd = nValidStackRoots
  BY <1>1 DEF LinkedInv, RootsInv, Indices, ValidEnd
<1>3. /\ stackRoots \in Seq(Nat) /\ nStackRoots = Len(stackRoots) /\ nStackRoots \in Nat
      /\ loop.v \in Nat /\ loop.iv \in Nat /\ nValidStackRoots \in Nat
  BY LoopFacts DEF LinkedInv
<1>4. n \in 1 .. nStackRoots /\ i \in 1 .. nStackRoots /\ n <= i /\ n = ValidEnd + 1
  BY <1>1, <1>2, <1>3
<1>5. \/ /\ status[Root(i)] # "_Gwaiting" \/ StackRootValid(Root(i)) # {FALSE}
         /\ stackRoots' = [stackRoots EXCEPT ![i] = stackRoots[n], ![n] = Root(i)]
         /\ nValidStackRoots' = n
         /\ marked' = marked \cup {Root(i)}
      \/ UNCHANGED <<stackRoots, marked, nValidStackRoots>>
  BY DEF DetectPass, StoreRoot, Shade, rootVars
<1>6. ValidEnd' = nValidStackRoots'
  <2>1. \E found : loop' = LoopAt("detect", i, loop.iv, found)
    BY DEF DetectPass
  <2>2. loop'.at = "detect"
    BY <2>1 DEF LoopAt
  <2> QED
    BY <2>2 DEF ValidEnd
<1>7. CASE /\ status[Root(i)] # "_Gwaiting" \/ StackRootValid(Root(i)) # {FALSE}
           /\ stackRoots' = [stackRoots EXCEPT ![i] = stackRoots[n], ![n] = Root(i)]
           /\ nValidStackRoots' = n
           /\ marked' = marked \cup {Root(i)}
  <2>1. /\ Len(stackRoots') = nStackRoots
        /\ \A j \in 1 .. nStackRoots :
             stackRoots'[j] = IF j = n THEN Root(i) ELSE IF j = i THEN stackRoots[n] ELSE stackRoots[j]
    BY <1>3, <1>4, <1>7
  <2>2. Root(i) \notin doomed
    <3>1. Root(i) \in Goroutine
      BY <1>4, RootIsG DEF LinkedInv
    <3>2. status[Root(i)] # "_Gwaiting" \/ TRUE \in StackRootValid(Root(i))
      BY <1>7, ValidIsBoolean
    <3> HIDE DEF i
    <3> QED
      BY <3>1, <3>2, ValidNotDoomed
  <2>3. marked' = marked \cup {Root(i)} /\ ValidEnd' = n
    BY <1>6, <1>7
  <2> HIDE DEF n, i
  <2> QED
    BY <1>1, <1>4, <2>1, <2>2, <2>3, DoomAccept
<1>8. CASE UNCHANGED <<stackRoots, marked, nValidStackRoots>>
  <2>1. ValidEnd' = ValidEnd
    BY <1>2, <1>6, <1>8
  <2> QED
    BY <1>1, <1>8, <2>1, DoomSame
<1> QED
  BY <1>5, <1>7, <1>8

\* The doomed are all among the rest when it is reported.
LEMMA DoomReport ==
  ASSUME LinkedInv, DoomInv, DetectReport
  PROVE  detectedDeadlocks' /\ doomed' \subseteq reported'
<1>1. /\ loop.at = "detect" /\ ~loop.found /\ reported' = Rest /\ UNCHANGED doomed
      /\ detectedDeadlocks'
  BY DEF DetectReport
<1>2. phase = "mark" /\ gcdetectdeadlocks # 0 /\ ValidEnd = nValidStackRoots /\ ~detectedDeadlocks
  BY <1>1 DEF LinkedInv, RootsInv, Phases, NoneFound, ValidEnd
<1>3. Unfound
  BY <1>2 DEF DoomInv
<1>4. nStackRoots \in Nat /\ nValidStackRoots \in Nat
  BY LoopFacts DEF LinkedInv
<1>5. ASSUME NEW d \in doomed PROVE d \in Rest
  <2>1. PICK i \in 1 .. nStackRoots : d = Root(i)
    BY <1>3 DEF Unfound
  <2>2. ASSUME i \in 1 .. nValidStackRoots PROVE FALSE
    <3>1. stackRoots[i] \in Goroutine /\ stackRoots[i] \notin doomed
      BY <1>2, <1>3, <2>2 DEF LinkedInv, RootsInv, Entries, Unfound
    <3>2. Root(i) = stackRoots[i]
      BY <3>1, MaskedRoundTrip DEF Root
    <3> QED
      BY <2>1, <3>1, <3>2
  <2>3. i \in (nValidStackRoots + 1) .. nStackRoots
    BY <1>4, <2>2
  <2> QED
    BY <2>1, <2>3 DEF Rest
<1> QED
  BY <1>1, <1>5

LEMMA DoomStep == ASSUME LinkedInv, DoomInv, [Next]_vars PROVE DoomInv'
<1>1. LinkedInv'
  BY LinkedStep
<1>2. UNCHANGED gcdetectdeadlocks
  BY DEF Next, vars, bounds, Mutator, gcStart, MarkGlobals, MarkStack, ScanObject, unscanned,
         gcMarkDone, DiscoverFirst, DiscoverSwap, DiscoverPublish, MarkDoneReturns, PassBarrier, Restart, notDiscover,
         Detecting, StopTheWorld, DetectPass, DetectResume, DetectReport, notDetect, MarkTermination
<1>3. CASE DetectReport
  BY <1>3, DoomReport DEF DoomInv, TablesHideDoomed
<1>4. CASE gcStart
  <2>1. ~detectedDeadlocks'
    BY <1>4 DEF gcStart
  <2>2. gcdetectdeadlocks' # 0 => Unfound'
    BY <1>1, <1>2, <1>4, DoomStart
  <2> QED
    BY <2>1, <2>2 DEF DoomInv, TablesHideDoomed
<1>5. CASE MarkTermination
  <2>1. phase' = "off" /\ UNCHANGED <<detectedDeadlocks, doomed, reported>>
    BY <1>5 DEF MarkTermination, history
  <2>2. detectedDeadlocks' => detectedDeadlocks
    BY <2>1, Zenon
  <2>3. TablesHideDoomed'
    BY <2>1, <2>2 DEF DoomInv, TablesHideDoomed
  <2> QED
    BY <2>1, <2>3 DEF DoomInv
<1>6. ASSUME UNCHANGED <<phase, detectedDeadlocks, doomed, reported>>,
             phase = "mark" /\ gcdetectdeadlocks # 0 /\ Unfound => Unfound'
      PROVE  DoomInv'
  <2>1. detectedDeadlocks' <=> detectedDeadlocks
    BY <1>6, Zenon
  <2>2. TablesHideDoomed'
    BY <1>6, <2>1 DEF DoomInv, TablesHideDoomed
  <2>3. (phase = "mark" /\ ~detectedDeadlocks /\ gcdetectdeadlocks # 0)' => Unfound'
    BY <1>2, <1>6, <2>1 DEF DoomInv
  <2> QED
    BY <2>2, <2>3 DEF DoomInv
<1>7. CASE Mutator
  <2>1. UNCHANGED <<phase, detectedDeadlocks, doomed, reported>>
    BY <1>7 DEF Mutator, history
  <2> QED
    BY <1>1, <1>6, <1>7, <2>1, DoomMutator
<1>8. CASE MarkGlobals \/ MarkStack \/ \E obj \in grey : ScanObject(obj)
  <2>1. UNCHANGED <<phase, detectedDeadlocks, doomed, reported>>
    BY <1>8 DEF MarkGlobals, MarkStack, ScanObject, unscanned, history
  <2> QED
    BY <1>6, <1>8, <2>1, DoomMark
<1>9. CASE gcMarkDone \/ DiscoverPublish \/ MarkDoneReturns \/ PassBarrier \/ Restart \/ StopTheWorld \/ DetectResume
  <2>1. UNCHANGED <<phase, detectedDeadlocks, doomed, reported>>
    BY <1>9 DEF gcMarkDone, DiscoverPublish, MarkDoneReturns, PassBarrier, Restart, StopTheWorld, DetectResume,
                notDiscover, notDetect, history
  <2> QED
    BY <1>6, <1>9, <2>1, DoomSameEntries
<1>10. CASE DiscoverFirst \/ DiscoverSwap \/ DetectPass
  <2>1. UNCHANGED <<phase, detectedDeadlocks, doomed, reported>>
    BY <1>10 DEF DiscoverFirst, DiscoverSwap, DetectPass, notDiscover, notDetect, history
  <2> QED
    BY <1>6, <1>10, <2>1, DoomFirst, DoomSwap, DoomPass
<1>11. CASE UNCHANGED vars
  <2>1. UNCHANGED <<phase, detectedDeadlocks, doomed, reported, progVars, stackRoots, marked, loop,
                    nValidStackRoots>>
    BY <1>11 DEF vars, history, rootVars
  <2>2. ValidEnd' = ValidEnd
    BY <2>1 DEF ValidEnd
  <2> QED
    BY <1>6, <2>1, <2>2, DoomSame
<1> QED
  BY <1>3, <1>4, <1>5, <1>7, <1>8, <1>9, <1>10, <1>11 DEF Next, Detecting

(* A goroutine that nobody could wake any more when the cycle started is   *)
(* reported by it, whatever the others do meanwhile: neither allgs nor     *)
(* stackRoots, neither the semaphore table nor the links of the sudogs,    *)
(* and no store that the write barrier shades, lead marking to what it     *)
(* waits on (gcMask in newproc, acquireSudog's users, stackRootValid).     *)
THEOREM TablesHideDoomedHolds == Spec => []TablesHideDoomed
<1>1. Init => LinkedInv /\ DoomInv
  <2> SUFFICES ASSUME Init PROVE LinkedInv /\ DoomInv
    OBVIOUS
  <2>1. phase = "off" /\ detectedDeadlocks = FALSE
    BY DEF Init
  <2> QED
    BY <2>1, LinkedInit DEF DoomInv, TablesHideDoomed
<1>2. LinkedInv /\ DoomInv /\ [Next]_vars => (LinkedInv /\ DoomInv)'
  BY LinkedStep, DoomStep
<1>3. LinkedInv /\ DoomInv => TablesHideDoomed
  BY DEF DoomInv
<1> QED
  BY <1>1, <1>2, <1>3, PTL DEF Spec

=============================================================================
