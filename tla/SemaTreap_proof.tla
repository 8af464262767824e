-------------------------- MODULE SemaTreap_proof --------------------------
(***************************************************************************)
(* The treap and its wait lists keep their shape and implement SemaQueue,  *)
(* for every number of sudogs, addresses and tickets and every sequence of *)
(* operations.                                                             *)
(*                                                                         *)
(* The program has only pointers.  Two things are no part of its state and *)
(* the invariant says only that they can be given: sub, the set of nodes   *)
(* from a node down, and line, the queue of every key.                     *)
(***************************************************************************)
EXTENDS SemaTreap, FiniteSetTheorems, SequenceTheorems, WellFoundedInduction, TLAPS

(* sub describes the binary tree with the links L and R and the parent     *)
(* pointers par.  Nothing in it depends on which link is the left one.     *)
Tree(sub, root, L, R, par) ==
  /\ sub \in [Pointer -> SUBSET Sudog] /\ sub[Nil] = {}
  /\ root \in Pointer
  /\ L \in [Sudog -> Pointer] /\ R \in [Sudog -> Pointer] /\ par \in [Sudog -> Pointer]
  /\ root # Nil => root \in sub[root] /\ par[root] = Nil
  /\ \A n \in sub[root] :
       /\ sub[n] = {n} \cup sub[L[n]] \cup sub[R[n]]
       /\ n \notin sub[L[n]] /\ n \notin sub[R[n]] /\ sub[L[n]] \cap sub[R[n]] = {}
       /\ L[n] # Nil => L[n] \in sub[L[n]] /\ par[L[n]] = n
       /\ R[n] # Nil => R[n] \in sub[R[n]] /\ par[R[n]] = n
  /\ \A n \in sub[root] : \A m \in sub[n] :
       /\ sub[m] \subseteq sub[n]
       /\ m # n => par[m] \in sub[n]
  /\ \A n \in sub[root] : n = root \/ (par[n] \in sub[root] /\ n \in {L[par[n]], R[par[n]]})
  /\ \A n \in Sudog : n \notin sub[root] => par[n] = Nil

LEMMA TreeTwoSided == \A sub, root, L, R, par : Tree(sub, root, L, R, par) => Tree(sub, root, R, L, par)
  BY DEF Tree

(* What a tree gives of a node. *)
Node(sub, root, L, R, par, n) ==
  /\ n \in Sudog /\ n \in sub[n] /\ n # Nil /\ root # Nil
  /\ sub[n] = {n} \cup sub[L[n]] \cup sub[R[n]]
  /\ n \notin sub[L[n]] /\ n \notin sub[R[n]] /\ sub[L[n]] \cap sub[R[n]] = {}
  /\ L[n] # Nil => L[n] \in sub[root] /\ L[n] \in Sudog /\ L[n] # n /\ L[n] \in sub[L[n]] /\ par[L[n]] = n
  /\ R[n] # Nil => R[n] \in sub[root] /\ R[n] \in Sudog /\ R[n] # n /\ R[n] \in sub[R[n]] /\ par[R[n]] = n
  /\ L[n] = R[n] => L[n] = Nil
  /\ L[n] \in Pointer /\ R[n] \in Pointer /\ par[n] \in Pointer
  /\ sub[L[n]] \subseteq sub[n] /\ sub[R[n]] \subseteq sub[n] /\ sub[n] \subseteq sub[root]
  /\ par[n] = Nil <=> n = root

LEMMA TreeNode ==
  ASSUME NEW sub, NEW root, NEW L, NEW R, NEW par, Tree(sub, root, L, R, par), Nil \notin Sudog,
         NEW n \in sub[root]
  PROVE  Node(sub, root, L, R, par, n)
<1>1. root \in Pointer /\ root # Nil /\ n \in Sudog
  BY DEF Tree
<1>2. sub[n] = {n} \cup sub[L[n]] \cup sub[R[n]]
  BY DEF Tree
<1>3. n \notin sub[L[n]] /\ n \notin sub[R[n]] /\ sub[L[n]] \cap sub[R[n]] = {}
  BY DEF Tree
<1>4. sub[n] \subseteq sub[root]
  BY <1>1 DEF Tree
<1>5. L[n] \in Pointer /\ R[n] \in Pointer /\ par[n] \in Pointer
  BY <1>1 DEF Tree
<1>6. L[n] # Nil => L[n] \in sub[L[n]] /\ par[L[n]] = n
  BY DEF Tree
<1>7. R[n] # Nil => R[n] \in sub[R[n]] /\ par[R[n]] = n
  BY DEF Tree
<1>8. par[n] = Nil <=> n = root
  <2>1. n = root => par[n] = Nil
    BY <1>1 DEF Tree
  <2>2. n # root => par[n] \in sub[root]
    BY DEF Tree
  <2>3. sub[root] \subseteq Sudog
    BY <1>1 DEF Tree
  <2> QED
    BY <2>1, <2>2, <2>3
<1> QED
  BY <1>1, <1>2, <1>3, <1>4, <1>5, <1>6, <1>7, <1>8 DEF Node, Pointer

(* A rotation: y, a child of x, takes the place of x, and x becomes a      *)
(* child of y; only the sets of these two change.                          *)
Turn(root, L, R, par, x, root2, L2, R2, par2) ==
  /\ R[x] # Nil
  /\ root2 = IF par[x] = Nil THEN R[x] ELSE root
  /\ L2 \in [Sudog -> Pointer] /\ R2 \in [Sudog -> Pointer] /\ par2 \in [Sudog -> Pointer]
  /\ \A q \in Sudog :
       /\ L2[q] = IF q = R[x] THEN x ELSE IF q = par[x] /\ L[q] = x THEN R[x] ELSE L[q]
       /\ R2[q] = IF q = x THEN L[R[x]] ELSE IF q = par[x] /\ R[q] = x THEN R[x] ELSE R[q]
       /\ par2[q] = IF q = x THEN R[x] ELSE IF q = R[x] THEN par[x] ELSE IF q = L[R[x]] THEN x ELSE par[q]

Rotated(sub, root, L, R, x, sub2, root2, L2, R2, par2) ==
  /\ Tree(sub2, root2, L2, R2, par2) /\ sub2[root2] = sub[root]
  /\ \A n \in sub[root] : n \notin {x, R[x]} =>
       sub2[n] = sub[n] /\ sub2[L2[n]] = sub[L[n]] /\ sub2[R2[n]] = sub[R[n]]
  /\ sub2[R[x]] = sub[x] /\ sub2[L2[R[x]]] = sub2[x] /\ sub2[R2[R[x]]] = sub[R[R[x]]]
  /\ sub2[x] = {x} \cup sub[L[x]] \cup sub[L[R[x]]] /\ sub2[L2[x]] = sub[L[x]] /\ sub2[R2[x]] = sub[L[R[x]]]

LEMMA Rotation ==
  ASSUME NEW sub, NEW root, NEW L, NEW R, NEW par, Tree(sub, root, L, R, par), Nil \notin Sudog,
         NEW x \in sub[root], NEW root2, NEW L2, NEW R2, NEW par2,
         Turn(root, L, R, par, x, root2, L2, R2, par2)
  PROVE  \E sub2 : Rotated(sub, root, L, R, x, sub2, root2, L2, R2, par2)
<1> PICK y : y = R[x]
  OBVIOUS
<1> PICK p : p = par[x]
  OBVIOUS
<1> PICK b : b = L[y]
  OBVIOUS
<1> PICK sub2 : sub2 = [sub EXCEPT ![y] = sub[x], ![x] = {x} \cup sub[L[x]] \cup sub[b]]
  OBVIOUS
<1> y # Nil /\ root2 = IF p = Nil THEN y ELSE root
  BY DEF Turn
<1> L2 \in [Sudog -> Pointer] /\ R2 \in [Sudog -> Pointer] /\ par2 \in [Sudog -> Pointer]
  BY DEF Turn
<1> \A q \in Sudog : /\ L2[q] = IF q = y THEN x ELSE IF q = p /\ L[q] = x THEN y ELSE L[q]
                     /\ R2[q] = IF q = x THEN b ELSE IF q = p /\ R[q] = x THEN y ELSE R[q]
                     /\ par2[q] = IF q = x THEN y ELSE IF q = y THEN p ELSE IF q = b THEN x ELSE par[q]
  BY DEF Turn
<1> SUFFICES Rotated(sub, root, L, R, x, sub2, root2, L2, R2, par2)
  OBVIOUS
<1>1. PICK N : N = sub[root]
  OBVIOUS
<1>2. PICK a : a = L[x]
  OBVIOUS
<1>3. PICK c : c = R[y]
  OBVIOUS
<1>t. /\ sub \in [Pointer -> SUBSET Sudog] /\ sub[Nil] = {} /\ root \in Pointer /\ root # Nil
      /\ L \in [Sudog -> Pointer] /\ R \in [Sudog -> Pointer] /\ par \in [Sudog -> Pointer]
      /\ root \in N /\ par[root] = Nil /\ N \subseteq Sudog
  <2>1. /\ sub \in [Pointer -> SUBSET Sudog] /\ sub[Nil] = {} /\ root \in Pointer
        /\ L \in [Sudog -> Pointer] /\ R \in [Sudog -> Pointer] /\ par \in [Sudog -> Pointer]
    BY DEF Tree
  <2>2. root # Nil
    BY <2>1
  <2>3. root \in sub[root] /\ par[root] = Nil
    BY <2>2 DEF Tree
  <2> QED
    BY <2>1, <2>2, <2>3, <1>1
<1>x. /\ x \in Sudog /\ x \in N /\ x \in sub[x] /\ x # Nil
      /\ sub[x] = {x} \cup sub[a] \cup sub[y]
      /\ x \notin sub[a] /\ x \notin sub[y] /\ sub[a] \cap sub[y] = {}
      /\ a # Nil => a \in N /\ a \in Sudog /\ a # x /\ a \in sub[a] /\ par[a] = x
      /\ y \in N /\ y \in Sudog /\ y # x /\ y \in sub[y] /\ par[y] = x
      /\ a # y /\ a \in Pointer /\ p \in Pointer
      /\ sub[a] \subseteq sub[x] /\ sub[y] \subseteq sub[x] /\ sub[x] \subseteq N
      /\ p = Nil <=> x = root
  <2>1. a = L[x] /\ y = R[x] /\ p = par[x] /\ N = sub[root] /\ y # Nil
    BY <1>1, <1>2
  <2>2. Node(sub, root, L, R, par, x)
    BY TreeNode
  <2> QED
    BY <2>1, <2>2 DEF Node
<1>y. /\ sub[y] = {y} \cup sub[b] \cup sub[c]
      /\ y \notin sub[b] /\ y \notin sub[c] /\ sub[b] \cap sub[c] = {}
      /\ b # Nil => b \in N /\ b \in Sudog /\ b # y /\ b \in sub[b] /\ par[b] = y
      /\ c # Nil => c \in N /\ c \in Sudog /\ c # y /\ c \in sub[c] /\ par[c] = y
      /\ b = c => b = Nil
      /\ b \in Pointer /\ c \in Pointer
      /\ sub[b] \subseteq sub[y] /\ sub[c] \subseteq sub[y]
  <2>1. y \in sub[root] /\ b = L[y] /\ c = R[y] /\ N = sub[root]
    BY <1>1, <1>3, <1>x
  <2>2. Node(sub, root, L, R, par, y)
    BY <2>1, TreeNode
  <2> QED
    BY <2>1, <2>2 DEF Node
<1>p. ASSUME p # Nil
      PROVE  /\ p \in N /\ p \in Sudog /\ p # x /\ p # y /\ x \in {L[p], R[p]}
             /\ L[p] = R[p] => L[p] = Nil
  <2>1. p \in sub[root] /\ x \in {L[p], R[p]}
    BY <1>x, <1>p, <1>1 DEF Tree
  <2>2. /\ p \in Sudog /\ (L[p] = R[p] => L[p] = Nil)
        /\ sub[p] = {p} \cup sub[L[p]] \cup sub[R[p]] /\ p \notin sub[L[p]] /\ p \notin sub[R[p]]
        /\ L[p] # Nil => L[p] # p
        /\ R[p] # Nil => R[p] # p
    BY <2>1, TreeNode DEF Node
  <2>3. p # x
    BY <2>1, <2>2, <1>x
  <2>4. p # y
    BY <2>1, <2>2, <1>x
  <2> QED
    BY <1>1, <2>1, <2>2, <2>3, <2>4
<1>s. /\ sub2 \in [Pointer -> SUBSET Sudog] /\ sub2[Nil] = {}
      /\ sub2[y] = sub[x] /\ sub2[x] = {x} \cup sub[a] \cup sub[b]
      /\ \A q \in Pointer : q # x /\ q # y => sub2[q] = sub[q]
  <2>1. x \in Pointer /\ y \in Pointer /\ x # y /\ x # Nil /\ y # Nil
    BY <1>x DEF Pointer
  <2>2. {x} \cup sub[a] \cup sub[b] \in SUBSET Sudog /\ sub[x] \in SUBSET Sudog
    BY <1>t, <1>x, <1>y, <2>1
  <2> QED
    BY <1>t, <1>2, <2>1, <2>2
<1>r. root2 \in Pointer /\ root2 # Nil /\ sub2[root2] = N
  <2>1. CASE p = Nil
    BY <2>1, <1>1, <1>x, <1>s DEF Pointer
  <2>2. CASE p # Nil
    <3>1. root # x /\ root # y
      BY <2>2, <1>x, <1>t
    <3> QED
      BY <2>2, <3>1, <1>1, <1>t, <1>s
  <2> QED
    BY <2>1, <2>2
<1>l. /\ L2[y] = x /\ L2[x] = a /\ R2[x] = b /\ R2[y] = c
      /\ \A q \in Sudog : q \notin {x, y, p} => L2[q] = L[q] /\ R2[q] = R[q]
      /\ p # Nil => /\ L2[p] = IF L[p] = x THEN y ELSE L[p]
                    /\ R2[p] = IF R[p] = x THEN y ELSE R[p]
  <2>1. x # p /\ y # p
    BY <1>x, <1>p
  <2> QED
    BY <2>1, <1>x, <1>y, <1>p, <1>2, <1>3
<1>q. /\ par2[x] = y /\ par2[y] = p /\ (b # Nil => par2[b] = x)
      /\ \A q \in Sudog : q \notin {x, y, b} => par2[q] = par[q]
  <2>1. b # x /\ b # y
    BY <1>x, <1>y
  <2> QED
    BY <2>1, <1>x, <1>y
<1>d. /\ a \notin {x, y} /\ b \notin {x, y} /\ c \notin {x, y} /\ a \in Pointer
      /\ sub2[a] = sub[a] /\ sub2[b] = sub[b] /\ sub2[c] = sub[c]
  <2>1. a \notin {x, y} /\ b \notin {x, y} /\ c \notin {x, y}
    BY <1>x, <1>y
  <2> QED
    BY <2>1, <1>s, <1>x, <1>y
<1> DEFINE Fits(n) ==
       /\ sub2[n] = {n} \cup sub2[L2[n]] \cup sub2[R2[n]]
       /\ n \notin sub2[L2[n]] /\ n \notin sub2[R2[n]] /\ sub2[L2[n]] \cap sub2[R2[n]] = {}
       /\ L2[n] # Nil => L2[n] \in sub2[L2[n]] /\ par2[L2[n]] = n
       /\ R2[n] # Nil => R2[n] \in sub2[R2[n]] /\ par2[R2[n]] = n
<1> DEFINE Kept(n) ==
       n \notin {x, y} => sub2[n] = sub[n] /\ sub2[L2[n]] = sub[L[n]] /\ sub2[R2[n]] = sub[R[n]]
<1>n. ASSUME NEW n \in N PROVE Fits(n) /\ Kept(n)
  <2>1. CASE n = y
    <3>1. sub2[y] = {y} \cup sub2[x] \cup sub[c]
      BY <1>s, <1>x, <1>y
    <3>2. y \notin sub2[x] /\ y \notin sub[c] /\ sub2[x] \cap sub[c] = {}
      BY <1>s, <1>x, <1>y
    <3>3. x \in sub2[x] /\ par2[x] = y
      BY <1>s, <1>q
    <3>4. c # Nil => c \in sub[c] /\ par2[c] = y
      BY <1>y, <1>d, <1>q
    <3>5. Kept(n)
      BY <2>1
    <3>6. L2[y] = x /\ R2[y] = c /\ sub2[R2[y]] = sub[c]
      BY <1>l, <1>d
    <3> HIDE DEF Kept
    <3>7. Fits(y)
      BY <3>1, <3>2, <3>3, <3>4, <3>6
    <3> QED
      BY <2>1, <3>5, <3>7
  <2>2. CASE n = x
    <3>1. x \notin sub[a] /\ x \notin sub[b] /\ sub[a] \cap sub[b] = {}
      BY <1>x, <1>y
    <3>2. a # Nil => a \in sub[a] /\ par2[a] = x
      BY <1>x, <1>d, <1>y, <1>q
    <3>3. b # Nil => b \in sub[b] /\ par2[b] = x
      BY <1>y, <1>q
    <3>4. L2[x] = a /\ R2[x] = b /\ sub2[L2[x]] = sub[a] /\ sub2[R2[x]] = sub[b]
      BY <1>l, <1>d
    <3>5. sub2[x] = {x} \cup sub2[L2[x]] \cup sub2[R2[x]]
      BY <3>4, <1>s
    <3>6. Kept(n)
      BY <2>2
    <3> HIDE DEF Kept
    <3>7. Fits(x)
      BY <3>1, <3>2, <3>3, <3>4, <3>5
    <3> QED
      BY <2>2, <3>6, <3>7
  <2>3. CASE n # x /\ n # y
    <3>1. /\ n \in Sudog /\ sub[n] = {n} \cup sub[L[n]] \cup sub[R[n]]
          /\ n \notin sub[L[n]] /\ n \notin sub[R[n]] /\ sub[L[n]] \cap sub[R[n]] = {}
          /\ L[n] # Nil => L[n] \in sub[L[n]] /\ par[L[n]] = n
          /\ R[n] # Nil => R[n] \in sub[R[n]] /\ par[R[n]] = n
          /\ L[n] = R[n] => L[n] = Nil
          /\ L[n] \in Pointer /\ R[n] \in Pointer
      <4>1. Node(sub, root, L, R, par, n)
        BY <1>1, TreeNode
      <4> QED
        BY <4>1 DEF Node
    <3>2. L[n] # y /\ R[n] # y /\ (b # Nil => L[n] # b /\ R[n] # b)
      BY <2>3, <3>1, <1>x, <1>y
    <3> DEFINE Same(k, k2) ==
           sub2[k2] = sub[k] /\ (k # Nil => k2 # Nil /\ k2 \in sub[k] /\ par2[k2] = n) /\ (k = Nil => k2 = Nil)
    <3>3. ASSUME NEW k \in Pointer, NEW k2, (k = L[n] /\ k2 = L2[n]) \/ (k = R[n] /\ k2 = R2[n])
          PROVE  Same(k, k2)
      <4>1. CASE k = x
        <5>1. n = p
          BY <4>1, <3>3, <3>1, <1>x
        <5>2. k2 = y
          BY <5>1, <4>1, <3>3, <1>l, <1>p, <1>x, <3>1
        <5> QED
          BY <5>1, <5>2, <4>1, <1>s, <1>x, <1>q
      <4>2. CASE k # x
        <5>1. k2 = k
          BY <4>2, <3>3, <3>1, <2>3, <1>l, <1>p, <1>x
        <5>2. k # y /\ (k # Nil => k # b)
          BY <3>2, <3>3
        <5>3. k # Nil => k \in Sudog
          BY DEF Pointer
        <5> QED
          BY <5>1, <5>2, <5>3, <4>2, <3>1, <3>3, <1>s, <1>q
      <4> QED
        BY <4>1, <4>2
    <3> HIDE DEF Same
    <3>4. Same(L[n], L2[n]) /\ Same(R[n], R2[n])
      BY <3>1, <3>3, Zenon
    <3>5. /\ Same(L[n], L2[n]) <=> sub2[L2[n]] = sub[L[n]]
              /\ (L[n] # Nil => L2[n] # Nil /\ L2[n] \in sub[L[n]] /\ par2[L2[n]] = n) /\ (L[n] = Nil => L2[n] = Nil)
          /\ Same(R[n], R2[n]) <=> sub2[R2[n]] = sub[R[n]]
              /\ (R[n] # Nil => R2[n] # Nil /\ R2[n] \in sub[R[n]] /\ par2[R2[n]] = n) /\ (R[n] = Nil => R2[n] = Nil)
      BY DEF Same
    <3>6. sub2[n] = sub[n]
      BY <2>3, <3>1, <1>s DEF Pointer
    <3> QED
      BY <3>1, <3>4, <3>5, <3>6
  <2> QED
    BY <2>1, <2>2, <2>3
<1> HIDE DEF Fits, Kept
<1>m. ASSUME NEW n \in N, NEW m \in sub[n]
      PROVE  m \in Sudog /\ m \in N /\ sub[m] \subseteq sub[n] /\ (m # n => par[m] \in sub[n])
  <2>1. sub[n] \subseteq N
    BY <1>1, TreeNode DEF Node
  <2> QED
    BY <2>1, <1>1, <1>t DEF Tree
<1>u. ASSUME NEW n \in N, NEW m \in sub2[n]
      PROVE  sub2[m] \subseteq sub2[n] /\ (m # n => par2[m] \in sub2[n])
  <2>1. CASE n = y
    <3>1. m \in sub[x] /\ m \in Sudog
      BY <2>1, <1>s, <1>x, <1>m
    <3>2. sub2[m] \subseteq sub[x]
      <4>1. CASE m = x
        BY <4>1, <1>s, <1>x, <1>y
      <4>2. CASE m = y
        BY <4>2, <1>s
      <4>3. CASE m # x /\ m # y
        BY <4>3, <3>1, <1>s, <1>m, <1>x DEF Pointer
      <4> QED
        BY <4>1, <4>2, <4>3
    <3>3. m # y => par2[m] \in sub[x]
      BY <3>1, <1>m, <1>q, <1>x, <1>y
    <3> QED
      BY <2>1, <3>2, <3>3, <1>s
  <2>2. CASE n = x
    <3>1. CASE m = x
      BY <3>1, <2>2, <1>s
    <3>2. CASE m \in sub[a]
      <4>1. a # Nil /\ a \in N
        BY <3>2, <1>x, <1>t
      <4>2. m \in Sudog /\ sub[m] \subseteq sub[a] /\ (m # a => par[m] \in sub[a])
        BY <4>1, <3>2, <1>m
      <4>3. m # x /\ m # y /\ m # b
        BY <3>2, <1>x, <1>y, <4>2
      <4>4. par2[m] = par[m] /\ sub2[m] = sub[m]
        BY <4>2, <4>3, <1>q, <1>s DEF Pointer
      <4> QED
        BY <4>1, <4>2, <4>4, <2>2, <1>s, <1>x
    <3>3. CASE m \in sub[b]
      <4>1. b # Nil /\ b \in N
        BY <3>3, <1>y, <1>t
      <4>2. m \in Sudog /\ sub[m] \subseteq sub[b] /\ (m # b => par[m] \in sub[b])
        BY <4>1, <3>3, <1>m
      <4>3. m # x /\ m # y
        BY <3>3, <1>x, <1>y
      <4>4. (m # b => par2[m] = par[m]) /\ sub2[m] = sub[m]
        BY <4>2, <4>3, <1>q, <1>s DEF Pointer
      <4> QED
        BY <4>1, <4>2, <4>4, <2>2, <1>s, <1>q
    <3> QED
      BY <3>1, <3>2, <3>3, <2>2, <1>s
  <2>3. CASE n # x /\ n # y
    <3>1. sub2[n] = sub[n] /\ n \in Pointer
      BY <2>3, <1>s, <1>t DEF Pointer
    <3>2. m \in sub[n] /\ m \in Sudog /\ sub[m] \subseteq sub[n] /\ (m # n => par[m] \in sub[n])
      BY <3>1, <1>m
    <3>3. y \in sub[n] => x \in sub[n]
      BY <2>3, <1>m, <1>x
    <3>4. x \in sub[n] => sub[x] \subseteq sub[n] /\ p \in sub[n]
      BY <2>3, <1>m, <1>x
    <3>5. sub2[m] \subseteq sub[n]
      BY <3>2, <3>3, <3>4, <1>s, <1>x, <1>y DEF Pointer
    <3>6. m # n => par2[m] \in sub[n]
      <4>1. m = b /\ m # n => y \in sub[n]
        BY <3>2, <1>y
      <4> QED
        BY <4>1, <3>2, <3>3, <3>4, <1>q, <1>x
    <3> QED
      BY <3>1, <3>5, <3>6
  <2> QED
    BY <2>1, <2>2, <2>3
<1>v. ASSUME NEW n \in N PROVE n = root2 \/ (par2[n] \in N /\ n \in {L2[par2[n]], R2[par2[n]]})
  <2>0. n = root \/ (par[n] \in N /\ n \in {L[par[n]], R[par[n]]})
    BY <1>1 DEF Tree
  <2>1. CASE n = x
    BY <2>1, <1>q, <1>l, <1>x
  <2>2. CASE n = y
    BY <2>2, <1>q, <1>l, <1>p
  <2>3. CASE n = b
    BY <2>3, <1>q, <1>l, <1>x, <1>t
  <2>4. CASE n \notin {x, y, b}
    <3>1. par2[n] = par[n]
      BY <2>4, <1>q, <1>t
    <3>2. CASE n = root
      BY <3>2, <1>x, <2>4
    <3>3. CASE n # root
      <4>1. par[n] \in N /\ par[n] \in Sudog /\ n \in {L[par[n]], R[par[n]]}
        BY <2>0, <3>3, <1>t
      <4>2. CASE par[n] = y
        BY <4>1, <4>2, <3>1, <2>4, <1>l, <1>3
      <4>3. CASE par[n] = x
        BY <4>1, <4>3, <3>1, <2>4, <1>l, <1>2
      <4>4. CASE par[n] \notin {x, y}
        BY <4>1, <4>4, <3>1, <2>4, <1>l
      <4> QED
        BY <4>2, <4>3, <4>4
    <3> QED
      BY <3>2, <3>3
  <2> QED
    BY <2>1, <2>2, <2>3, <2>4
<1>w. ASSUME NEW n \in Sudog, n \notin N PROVE par2[n] = Nil
  <2>1. par[n] = Nil
    BY <1>1, <1>w DEF Tree
  <2> QED
    BY <2>1, <1>w, <1>q, <1>x, <1>y
<1>o. par2[root2] = Nil /\ root2 \in N
  BY <1>q, <1>x, <1>y, <1>d, <1>t
<1>k. /\ \A n \in N : n \notin {x, y} =>
           sub2[n] = sub[n] /\ sub2[L2[n]] = sub[L[n]] /\ sub2[R2[n]] = sub[R[n]]
      /\ sub2[y] = sub[x] /\ sub2[L2[y]] = sub2[x] /\ sub2[R2[y]] = sub[R[y]]
      /\ sub2[x] = {x} \cup sub[L[x]] \cup sub[b] /\ sub2[L2[x]] = sub[L[x]] /\ sub2[R2[x]] = sub[b]
  <2>1. \A n \in N : n \notin {x, y} =>
           sub2[n] = sub[n] /\ sub2[L2[n]] = sub[L[n]] /\ sub2[R2[n]] = sub[R[n]]
    BY <1>n DEF Kept
  <2>2. sub2[y] = sub[x] /\ sub2[x] = {x} \cup sub[L[x]] \cup sub[b]
    BY <1>s, <1>2
  <2>3. sub2[L2[y]] = sub2[x] /\ sub2[R2[y]] = sub[R[y]]
    BY <1>l, <1>d, <1>3
  <2>4. sub2[L2[x]] = sub[L[x]] /\ sub2[R2[x]] = sub[b]
    BY <1>l, <1>d, <1>2
  <2> QED
    BY <2>1, <2>2, <2>3, <2>4
<1> QED
  <2>1. \A n \in N : Fits(n)
    BY <1>n
  <2>2. Tree(sub2, root2, L2, R2, par2)
    BY <2>1, <1>1, <1>s, <1>r, <1>u, <1>v, <1>w, <1>o DEF Tree, Fits
  <2> QED
    BY <2>2, <1>1, <1>r, <1>k DEF Rotated

(* A new leaf s below p, where p has no left link. *)
Grow(sub, root, L, R, par, s, p, root2, L2, par2) ==
  /\ s \in Sudog /\ s \notin sub[root] /\ L[s] = Nil /\ R[s] = Nil
  /\ p = Nil => root = Nil
  /\ p # Nil => p \in sub[root] /\ L[p] = Nil
  /\ root2 = IF p = Nil THEN s ELSE root
  /\ L2 \in [Sudog -> Pointer] /\ par2 \in [Sudog -> Pointer]
  /\ \A q \in Sudog : L2[q] = (IF q = p THEN s ELSE L[q]) /\ par2[q] = (IF q = s THEN p ELSE par[q])

Grown(sub, root, L, R, s, p, sub2, root2, L2, par2) ==
  /\ Tree(sub2, root2, L2, R, par2) /\ sub2[root2] = sub[root] \cup {s}
  /\ \A n \in sub[root] :
       /\ \A m \in sub2[n] : m \in sub[n] \/ m = s
       /\ \A m \in sub2[L2[n]] : m \in sub[L[n]] \/ (m = s /\ (n = p \/ p \in sub[L[n]]))
       /\ \A m \in sub2[R[n]] : m \in sub[R[n]] \/ (m = s /\ p \in sub[R[n]])
  /\ sub2[s] = {s} /\ sub2[L2[s]] = {} /\ sub2[R[s]] = {}

LEMMA NewLeafTree ==
  ASSUME NEW sub, NEW root, NEW L, NEW R, NEW par, Tree(sub, root, L, R, par), Nil \notin Sudog,
         NEW s, NEW p, NEW root2, NEW L2, NEW par2,
         Grow(sub, root, L, R, par, s, p, root2, L2, par2)
  PROVE  \E sub2 : Grown(sub, root, L, R, s, p, sub2, root2, L2, par2)
<1> s \in Sudog /\ s \notin sub[root] /\ L[s] = Nil /\ R[s] = Nil
  BY DEF Grow
<1> (p = Nil => root = Nil) /\ (p # Nil => p \in sub[root] /\ L[p] = Nil)
  BY DEF Grow
<1> root2 = IF p = Nil THEN s ELSE root
  BY DEF Grow
<1> L2 \in [Sudog -> Pointer] /\ \A q \in Sudog : L2[q] = IF q = p THEN s ELSE L[q]
  BY DEF Grow
<1> par2 \in [Sudog -> Pointer] /\ \A q \in Sudog : par2[q] = IF q = s THEN p ELSE par[q]
  BY DEF Grow
<1> PICK sub2 \in [Pointer -> SUBSET Sudog] :
      /\ sub2[Nil] = {} /\ \A m \in Sudog : m \in sub2[s] <=> m = s
      /\ \A n \in sub[root] : \A m \in Sudog : m \in sub2[n] <=> m \in sub[n] \/ (m = s /\ p \in sub[n])
  <2> DEFINE f == [n \in Pointer |-> IF n = Nil THEN {} ELSE IF n = s THEN {s}
                                     ELSE {m \in Sudog : m \in sub[n] \/ (m = s /\ p \in sub[n])}]
  <2>1. sub[root] \subseteq Sudog /\ s \in Pointer /\ Nil \in Pointer
    BY DEF Tree, Pointer
  <2>2. f \in [Pointer -> SUBSET Sudog]
    OBVIOUS
  <2>3. f[Nil] = {} /\ f[s] = {s}
    BY <2>1
  <2>4. ASSUME NEW n \in sub[root], NEW m \in Sudog PROVE m \in f[n] <=> m \in sub[n] \/ (m = s /\ p \in sub[n])
    <3>1. n \in Pointer /\ n # Nil /\ n # s
      BY <2>1 DEF Pointer
    <3> QED
      BY <3>1
  <2> HIDE DEF f
  <2> QED
    BY <2>2, <2>3, <2>4
<1>1. PICK N : N = sub[root]
  OBVIOUS
<1>t. /\ sub \in [Pointer -> SUBSET Sudog] /\ sub[Nil] = {} /\ root \in Pointer
      /\ L \in [Sudog -> Pointer] /\ R \in [Sudog -> Pointer] /\ par \in [Sudog -> Pointer]
      /\ root # Nil => root \in N /\ par[root] = Nil
      /\ N \subseteq Sudog
  BY <1>1 DEF Tree
<1>p. /\ p # s
      /\ p = Nil => N = {}
      /\ p # Nil => root # Nil /\ p \in N /\ p \in Sudog /\ p \in sub[p] /\ p \in sub[root]
  <2>1. p # Nil => p \in sub[p]
    BY TreeNode DEF Node
  <2>2. p # Nil => root # Nil
    BY <1>1, <1>t
  <2>3. p # s
    BY <1>1, <1>t
  <2> QED
    BY <2>1, <2>2, <2>3, <1>1, <1>t
<1>s. /\ sub2 \in [Pointer -> SUBSET Sudog] /\ sub2[Nil] = {} /\ sub2[s] = {s}
      /\ \A n \in N : \A m : m \in sub2[n] <=> m \in sub[n] \/ (m = s /\ p \in sub[n])
  <2>1. \A n \in Pointer : sub2[n] \subseteq Sudog /\ sub[n] \subseteq Sudog
    BY <1>t
  <2>2. N \subseteq Pointer /\ s \in Pointer
    BY <1>t DEF Pointer
  <2>3. sub2[s] = {s}
    BY <2>1, <2>2
  <2>4. ASSUME NEW n \in N, NEW m PROVE m \in sub2[n] <=> m \in sub[n] \/ (m = s /\ p \in sub[n])
    <3>1. \A q \in Sudog : q \in sub2[n] <=> q \in sub[n] \/ (q = s /\ p \in sub[n])
      BY <1>1
    <3>2. sub2[n] \subseteq Sudog /\ sub[n] \subseteq Sudog
      BY <2>1, <2>2
    <3> QED
      BY <3>1, <3>2
  <2> QED
    BY <2>3, <2>4
<1>r. root2 \in Pointer /\ root2 # Nil /\ sub2[root2] = N \cup {s}
  <2>1. CASE p = Nil
    BY <2>1, <1>p, <1>s, <1>t DEF Pointer
  <2>2. CASE p # Nil
    <3>1. root2 = root /\ root \in N
      BY <2>2, <1>p, <1>t
    <3>2. \A m : m \in sub2[root] <=> m \in sub[root] \/ (m = s /\ p \in sub[root])
      BY <3>1, <1>s
    <3>3. sub2[root] = N \cup {s}
      BY <3>2, <1>p, <1>1, <2>2
    <3> QED
      BY <3>1, <3>3, <1>t, <1>p, <2>2
  <2> QED
    BY <2>1, <2>2
<1>n. ASSUME NEW n \in N
      PROVE  /\ n \in Sudog /\ n # s /\ n \in sub[n] /\ sub[n] = {n} \cup sub[L[n]] \cup sub[R[n]]
             /\ n \notin sub[L[n]] /\ n \notin sub[R[n]] /\ sub[L[n]] \cap sub[R[n]] = {}
             /\ L[n] # Nil => L[n] \in N /\ L[n] \in sub[L[n]] /\ par[L[n]] = n
             /\ R[n] # Nil => R[n] \in N /\ R[n] \in sub[R[n]] /\ par[R[n]] = n
             /\ L[n] = R[n] => L[n] = Nil
             /\ sub[n] \subseteq N /\ s \notin sub[n] /\ s \notin sub[L[n]] /\ s \notin sub[R[n]]
  <2>1. Node(sub, root, L, R, par, n)
    BY <1>1, TreeNode
  <2> QED
    BY <2>1, <1>1 DEF Node
<1>m. ASSUME NEW n \in N, NEW m \in sub[n]
      PROVE  m \in N /\ sub[m] \subseteq sub[n] /\ (m # n => par[m] \in sub[n])
  <2>1. m \in N
    BY <1>n
  <2> QED
    BY <2>1, <1>1 DEF Tree
<1> DEFINE Fits(n) ==
       /\ sub2[n] = {n} \cup sub2[L2[n]] \cup sub2[R[n]]
       /\ n \notin sub2[L2[n]] /\ n \notin sub2[R[n]] /\ sub2[L2[n]] \cap sub2[R[n]] = {}
       /\ L2[n] # Nil => L2[n] \in sub2[L2[n]] /\ par2[L2[n]] = n
       /\ R[n] # Nil => R[n] \in sub2[R[n]] /\ par2[R[n]] = n
<1> DEFINE Kept(n) ==
       /\ \A m \in sub2[L2[n]] : m \in sub[L[n]] \/ (m = s /\ (n = p \/ p \in sub[L[n]]))
       /\ \A m \in sub2[R[n]] : m \in sub[R[n]] \/ (m = s /\ p \in sub[R[n]])
<1>f. ASSUME NEW n \in N PROVE Fits(n) /\ Kept(n)
  <2>1. PICK l : l = L[n]
    OBVIOUS
  <2>2. PICK r : r = R[n]
    OBVIOUS
  <2>3. /\ n \in Sudog /\ n # s /\ n \in sub[n] /\ sub[n] = {n} \cup sub[l] \cup sub[r]
        /\ n \notin sub[l] /\ n \notin sub[r] /\ sub[l] \cap sub[r] = {}
        /\ l # Nil => l \in N /\ l \in sub[l] /\ par[l] = n
        /\ r # Nil => r \in N /\ r \in sub[r] /\ par[r] = n
        /\ s \notin sub[n] /\ s \notin sub[l] /\ s \notin sub[r]
    BY <1>n, <2>1, <2>2
  <2>4. \A m : m \in sub2[l] <=> m \in sub[l] \/ (m = s /\ p \in sub[l])
    <3>1. CASE l = Nil
      BY <3>1, <1>s, <1>t
    <3>2. CASE l \in N
      BY <3>2, <1>s
    <3> QED
      BY <3>1, <3>2, <2>3
  <2>5. \A m : m \in sub2[r] <=> m \in sub[r] \/ (m = s /\ p \in sub[r])
    <3>1. CASE r = Nil
      BY <3>1, <1>s, <1>t
    <3>2. CASE r \in N
      BY <3>2, <1>s
    <3> QED
      BY <3>1, <3>2, <2>3
  <2>6. \A m : m \in sub2[n] <=> m \in sub[n] \/ (m = s /\ p \in sub[n])
    BY <1>s
  <2>7. r # Nil => r \in sub2[r] /\ par2[r] = n
    <3> SUFFICES ASSUME r # Nil
                 PROVE  r \in sub2[r] /\ par2[r] = n
      OBVIOUS
    <3>1. r \in Sudog /\ r # s /\ r \in sub[r] /\ par[r] = n
      BY <2>3, <1>t, <1>1
    <3> QED
      BY <3>1, <2>5
  <2>10. \A m \in sub2[R[n]] : m \in sub[R[n]] \/ (m = s /\ p \in sub[R[n]])
    BY <2>2, <2>5
  <2>11. \A m \in sub2[L2[n]] : m \in sub[L[n]] \/ (m = s /\ (n = p \/ p \in sub[L[n]]))
    <3>1. CASE n = p
      BY <3>1, <2>3, <1>s
    <3>2. CASE n # p
      BY <3>2, <2>1, <2>3, <2>4
    <3> QED
      BY <3>1, <3>2
  <2>12. Kept(n)
    BY <2>10, <2>11
  <2> HIDE DEF Kept
  <2>8. CASE n = p
    <3>1. L2[n] = s /\ par2[s] = n /\ l = Nil
      BY <2>8, <2>3, <2>1, <1>t, <1>p
    <3>2. sub[l] = {} /\ sub2[s] = {s}
      BY <3>1, <1>t, <1>s
    <3>3. p \in sub[n] /\ p \notin sub[r]
      BY <2>8, <2>3
    <3>4. sub2[n] = {n} \cup {s} \cup sub2[r] /\ n \notin {s} /\ n \notin sub2[r] /\ {s} \cap sub2[r] = {}
      BY <3>2, <3>3, <2>3, <2>5, <2>6
    <3> QED
      BY <3>1, <3>2, <3>4, <2>7, <2>2, <2>12
  <2>9. CASE n # p
    <3>1. L2[n] = l
      BY <2>9, <2>3, <2>1
    <3>2. l # Nil => l \in sub2[l] /\ par2[l] = n
      <4> SUFFICES ASSUME l # Nil
                   PROVE  l \in sub2[l] /\ par2[l] = n
        OBVIOUS
      <4>1. l \in Sudog /\ l # s /\ l \in sub[l] /\ par[l] = n
        BY <2>3, <1>t, <1>1
      <4> QED
        BY <4>1, <2>4
    <3>3. /\ sub2[n] = {n} \cup sub2[l] \cup sub2[r]
          /\ n \notin sub2[l] /\ n \notin sub2[r] /\ sub2[l] \cap sub2[r] = {}
      <4>1. p \in sub[n] <=> p \in sub[l] \/ p \in sub[r]
        BY <2>3, <2>9
      <4>2. ~(p \in sub[l] /\ p \in sub[r])
        BY <2>3
      <4>3. n \notin sub2[l] /\ n \notin sub2[r]
        BY <2>3, <2>4, <2>5
      <4>4. sub2[l] \cap sub2[r] = {}
        BY <4>2, <2>3, <2>4, <2>5
      <4>5. \A m : m \in sub2[n] <=> m = n \/ m \in sub2[l] \/ m \in sub2[r]
        BY <4>1, <2>3, <2>4, <2>5, <2>6
      <4> QED
        BY <4>3, <4>4, <4>5
    <3> QED
      BY <3>1, <3>2, <3>3, <2>7, <2>2, <2>12
  <2> QED
    BY <2>8, <2>9
<1>g. Fits(s)
  <2>1. L2[s] = Nil /\ R[s] = Nil
    BY <1>p
  <2> QED
    BY <2>1, <1>s
<1> HIDE DEF Fits, Kept
<1>u. ASSUME NEW n \in N \cup {s}, NEW m \in sub2[n]
      PROVE  sub2[m] \subseteq sub2[n] /\ (m # n => par2[m] \in sub2[n])
  <2>1. CASE n = s
    BY <2>1, <1>s
  <2>2. CASE n \in N /\ m = s
    <3>1. s \notin sub[n]
      BY <2>2, <1>n
    <3>2. p \in sub[n] /\ s \in sub2[n]
      BY <2>2, <3>1, <1>s
    <3>3. p \in sub2[n] /\ par2[s] = p
      BY <2>2, <3>2, <1>s
    <3> QED
      BY <2>2, <3>2, <3>3, <1>s
  <2>3. CASE n \in N /\ m # s
    <3>1. m \in sub[n] /\ sub[n] \subseteq sub2[n]
      BY <2>3, <1>s
    <3>2. m \in N /\ m \in Sudog /\ sub[m] \subseteq sub[n] /\ (m # n => par[m] \in sub[n])
      BY <2>3, <3>1, <1>m, <1>t
    <3>3. par2[m] = par[m]
      BY <2>3, <3>2
    <3>4. sub2[m] \subseteq sub2[n]
      BY <2>3, <3>2, <1>s
    <3> QED
      BY <3>1, <3>2, <3>3, <3>4
  <2> QED
    BY <2>1, <2>2, <2>3
<1>v. ASSUME NEW n \in N \cup {s}
      PROVE  n = root2 \/ (par2[n] \in N \cup {s} /\ n \in {L2[par2[n]], R[par2[n]]})
  <2>1. CASE n = s
    BY <2>1, <1>p
  <2>2. CASE n \in N
    <3>1. n \in Sudog /\ n # s /\ par2[n] = par[n] /\ root # Nil
      BY <2>2, <1>n, <1>t, <1>p
    <3>2. n = root \/ (par[n] \in N /\ n \in {L[par[n]], R[par[n]]})
      BY <2>2, <1>1 DEF Tree
    <3>3. n = root => n = root2
      BY <2>2, <1>p
    <3>4. CASE par[n] \in N /\ n \in {L[par[n]], R[par[n]]}
      BY <3>4, <3>1, <1>t, <1>p
    <3> QED
      BY <3>2, <3>3, <3>4
  <2> QED
    BY <2>1, <2>2
<1>w. ASSUME NEW n \in Sudog, n \notin N \cup {s} PROVE par2[n] = Nil
  BY <1>w, <1>1 DEF Tree
<1>o. par2[root2] = Nil /\ root2 \in N \cup {s}
  BY <1>p, <1>t, <1>1
<1> QED
  <2>1. \A n \in N \cup {s} : Fits(n)
    BY <1>f, <1>g
  <2>2. Tree(sub2, root2, L2, R, par2)
    BY <2>1, <1>1, <1>s, <1>t, <1>r, <1>u, <1>v, <1>w, <1>o DEF Tree, Fits
  <2>3. sub2[L2[s]] = {} /\ sub2[R[s]] = {}
    BY <1>p, <1>s
  <2>4. \A n \in sub[root] :
              /\ \A m \in sub2[L2[n]] : m \in sub[L[n]] \/ (m = s /\ (n = p \/ p \in sub[L[n]]))
              /\ \A m \in sub2[R[n]] : m \in sub[R[n]] \/ (m = s /\ p \in sub[R[n]])
    BY <1>f, <1>1 DEF Kept
  <2>5. \A n \in sub[root] : \A m \in sub2[n] : m \in sub[n] \/ m = s
    BY <1>s, <1>1
  <2> QED
    BY <2>2, <2>3, <2>4, <2>5, <1>1, <1>r, <1>s DEF Grown

(* A leaf x leaves the tree. *)
Drop(root, L, R, par, x, root2, L2, R2, par2) ==
  /\ L[x] = Nil /\ R[x] = Nil
  /\ root2 = IF par[x] = Nil THEN Nil ELSE root
  /\ L2 \in [Sudog -> Pointer] /\ R2 \in [Sudog -> Pointer] /\ par2 \in [Sudog -> Pointer]
  /\ \A q \in Sudog :
       /\ L2[q] = IF q = par[x] /\ L[q] = x THEN Nil ELSE L[q]
       /\ R2[q] = IF q = par[x] /\ R[q] = x THEN Nil ELSE R[q]
       /\ par2[q] = IF q = x THEN Nil ELSE par[q]

Dropped(sub, root, L, R, x, sub2, root2, L2, R2, par2) ==
  /\ Tree(sub2, root2, L2, R2, par2) /\ sub2[root2] = sub[root] \ {x}
  /\ \A n \in sub[root] : n # x =>
       sub2[n] \subseteq sub[n] \ {x} /\ sub2[L2[n]] \subseteq sub[L[n]] /\ sub2[R2[n]] \subseteq sub[R[n]]

LEMMA DropLeafTree ==
  ASSUME NEW sub, NEW root, NEW L, NEW R, NEW par, Tree(sub, root, L, R, par), Nil \notin Sudog,
         NEW x \in sub[root], NEW root2, NEW L2, NEW R2, NEW par2,
         Drop(root, L, R, par, x, root2, L2, R2, par2)
  PROVE  \E sub2 : Dropped(sub, root, L, R, x, sub2, root2, L2, R2, par2)
<1> PICK p : p = par[x]
  OBVIOUS
<1> L[x] = Nil /\ R[x] = Nil /\ root2 = IF p = Nil THEN Nil ELSE root
  BY DEF Drop
<1> L2 \in [Sudog -> Pointer] /\ \A q \in Sudog : L2[q] = IF q = p /\ L[q] = x THEN Nil ELSE L[q]
  BY DEF Drop
<1> R2 \in [Sudog -> Pointer] /\ \A q \in Sudog : R2[q] = IF q = p /\ R[q] = x THEN Nil ELSE R[q]
  BY DEF Drop
<1> par2 \in [Sudog -> Pointer] /\ \A q \in Sudog : par2[q] = IF q = x THEN Nil ELSE par[q]
  BY DEF Drop
<1> PICK sub2 \in [Pointer -> SUBSET Sudog] :
      \A n \in Pointer : \A m \in Sudog : m \in sub2[n] <=> m \in sub[n] /\ m # x
  <2> DEFINE f == [n \in Pointer |-> {m \in Sudog : m \in sub[n] /\ m # x}]
  <2>1. f \in [Pointer -> SUBSET Sudog] /\ \A n \in Pointer : \A m \in Sudog : m \in f[n] <=> m \in sub[n] /\ m # x
    OBVIOUS
  <2> HIDE DEF f
  <2> QED
    BY <2>1
<1>1. PICK N : N = sub[root]
  OBVIOUS
<1>t. /\ sub \in [Pointer -> SUBSET Sudog] /\ sub[Nil] = {} /\ root \in Pointer
      /\ L \in [Sudog -> Pointer] /\ R \in [Sudog -> Pointer] /\ par \in [Sudog -> Pointer]
      /\ root # Nil /\ root \in N /\ par[root] = Nil
      /\ N \subseteq Sudog /\ N \subseteq Pointer /\ Nil \in Pointer
  BY <1>1 DEF Tree, Pointer
<1>s. \A n \in Pointer : \A m : m \in sub2[n] <=> m \in sub[n] /\ m # x
  BY <1>t
<1>n. ASSUME NEW n \in N
      PROVE  /\ n \in Sudog /\ n \in sub[n] /\ sub[n] = {n} \cup sub[L[n]] \cup sub[R[n]]
             /\ n \notin sub[L[n]] /\ n \notin sub[R[n]] /\ sub[L[n]] \cap sub[R[n]] = {}
             /\ L[n] # Nil => L[n] \in N /\ L[n] \in sub[L[n]] /\ par[L[n]] = n
             /\ R[n] # Nil => R[n] \in N /\ R[n] \in sub[R[n]] /\ par[R[n]] = n
             /\ L[n] \in Pointer /\ R[n] \in Pointer
             /\ sub[n] \subseteq N
             /\ par[n] = Nil <=> n = root
  <2>1. Node(sub, root, L, R, par, n)
    BY <1>1, TreeNode
  <2> QED
    BY <2>1, <1>1 DEF Node
<1>x. /\ x \in N /\ \A m : m \in sub[x] <=> m = x
      /\ p = Nil <=> x = root
      /\ x \in Sudog
  <2>1. x \in N
    BY <1>1
  <2>2. Node(sub, root, L, R, par, x)
    BY <2>1, TreeNode
  <2>3. sub[x] = {x} \cup sub[L[x]] \cup sub[R[x]] /\ (par[x] = Nil <=> x = root)
    BY <2>2 DEF Node
  <2>4. sub[L[x]] = {} /\ sub[R[x]] = {}
    BY <1>t
  <2>5. \A m : m \in sub[x] <=> m = x
    BY <2>3, <2>4
  <2> QED
    BY <2>1, <2>3, <2>5, <1>t
<1>m. ASSUME NEW n \in N, NEW m \in sub[n]
      PROVE  m \in N /\ sub[m] \subseteq sub[n] /\ (m # n => par[m] \in sub[n])
  <2>1. m \in N
    BY <1>n
  <2> QED
    BY <2>1, <1>1 DEF Tree
<1>r. root2 \in Pointer /\ \A m : m \in sub2[root2] <=> m \in N /\ m # x
  <2>1. CASE p = Nil
    BY <2>1, <1>1, <1>x, <1>s, <1>t
  <2>2. CASE p # Nil
    BY <2>2, <1>1, <1>s, <1>t
  <2> QED
    BY <2>1, <2>2
<1> DEFINE Fits(n) ==
       /\ sub2[n] = {n} \cup sub2[L2[n]] \cup sub2[R2[n]]
       /\ n \notin sub2[L2[n]] /\ n \notin sub2[R2[n]] /\ sub2[L2[n]] \cap sub2[R2[n]] = {}
       /\ L2[n] # Nil => L2[n] \in sub2[L2[n]] /\ par2[L2[n]] = n
       /\ R2[n] # Nil => R2[n] \in sub2[R2[n]] /\ par2[R2[n]] = n
<1> DEFINE Kept(n) == sub2[L2[n]] \subseteq sub[L[n]] /\ sub2[R2[n]] \subseteq sub[R[n]]
<1>f. ASSUME NEW n \in N, n # x PROVE Fits(n) /\ Kept(n)
  <2>1. PICK l : l = L2[n]
    OBVIOUS
  <2>2. PICK r : r = R2[n]
    OBVIOUS
  <2>3. /\ \A m : m \in sub2[l] <=> m \in sub[L[n]] /\ m # x
        /\ l # Nil => l \in sub2[l] /\ par2[l] = n
    <3>1. CASE L[n] = x
      <4>1. l = Nil
        BY <3>1, <2>1, <1>n
      <4>2. \A m : m \in sub2[Nil] <=> m \in sub[Nil] /\ m # x
        BY <1>s, <1>t
      <4> QED
        BY <4>1, <4>2, <3>1, <1>x, <1>t
    <3>2. CASE L[n] # x
      <4>1. l = L[n] /\ l \in Pointer
        BY <3>2, <2>1, <1>n
      <4>2. l # Nil => l \in sub[l] /\ par[l] = n /\ l \in Sudog
        BY <4>1, <1>n, <1>t
      <4> QED
        BY <4>1, <4>2, <3>2, <1>s
    <3> QED
      BY <3>1, <3>2
  <2>4. /\ \A m : m \in sub2[r] <=> m \in sub[R[n]] /\ m # x
        /\ r # Nil => r \in sub2[r] /\ par2[r] = n
    <3>1. CASE R[n] = x
      <4>1. r = Nil
        BY <3>1, <2>2, <1>n
      <4>2. \A m : m \in sub2[Nil] <=> m \in sub[Nil] /\ m # x
        BY <1>s, <1>t
      <4> QED
        BY <4>1, <4>2, <3>1, <1>x, <1>t
    <3>2. CASE R[n] # x
      <4>1. r = R[n] /\ r \in Pointer
        BY <3>2, <2>2, <1>n
      <4>2. r # Nil => r \in sub[r] /\ par[r] = n /\ r \in Sudog
        BY <4>1, <1>n, <1>t
      <4> QED
        BY <4>1, <4>2, <3>2, <1>s
    <3> QED
      BY <3>1, <3>2
  <2>5. \A m : m \in sub2[n] <=> m \in sub[n] /\ m # x
    BY <1>s, <1>t
  <2>6. n \notin sub2[l] /\ n \notin sub2[r] /\ sub2[l] \cap sub2[r] = {}
    <3>1. n \notin sub[L[n]] /\ n \notin sub[R[n]] /\ sub[L[n]] \cap sub[R[n]] = {}
      BY <1>n
    <3> QED
      BY <3>1, <2>3, <2>4
  <2>7. \A m : m \in sub2[n] <=> m = n \/ m \in sub2[l] \/ m \in sub2[r]
    <3>1. sub[n] = {n} \cup sub[L[n]] \cup sub[R[n]]
      BY <1>n
    <3> QED
      BY <3>1, <2>3, <2>4, <2>5, <1>f
  <2>8. sub2[n] = {n} \cup sub2[l] \cup sub2[r]
    BY <2>7
  <2> QED
    BY <2>1, <2>2, <2>3, <2>4, <2>6, <2>8
<1> HIDE DEF Fits, Kept
<1>u. ASSUME NEW n \in N, n # x, NEW m \in sub2[n]
      PROVE  sub2[m] \subseteq sub2[n] /\ (m # n => par2[m] \in sub2[n])
  <2>1. m \in sub[n] /\ m # x /\ n \in Pointer
    BY <1>s, <1>t
  <2>2. m \in N /\ m \in Sudog /\ m \in Pointer /\ sub[m] \subseteq sub[n] /\ (m # n => par[m] \in sub[n])
    BY <2>1, <1>m, <1>t
  <2>3. m # root => m \in {L[par[m]], R[par[m]]}
    BY <2>2, <1>1 DEF Tree
  <2>4. m # n => par[m] # x /\ par2[m] = par[m]
    <3>1. m # n => m # root
      <4>1. par[root] \notin sub[n]
        BY <1>t, <1>n
      <4> QED
        BY <4>1, <2>2
    <3> QED
      BY <3>1, <2>1, <2>2, <2>3, <1>t
  <2> QED
    BY <2>1, <2>2, <2>4, <1>s
<1>v. ASSUME NEW n \in N, n # x
      PROVE  n = root2 \/ (par2[n] \in N /\ par2[n] # x /\ n \in {L2[par2[n]], R2[par2[n]]})
  <2>1. n \in Sudog /\ par2[n] = par[n]
    BY <1>v, <1>n
  <2>2. n = root \/ (par[n] \in N /\ par[n] \in Sudog /\ n \in {L[par[n]], R[par[n]]})
    BY <1>1, <1>t DEF Tree
  <2>3. n = root => n = root2
    BY <1>v, <1>x
  <2>4. CASE par[n] \in N /\ par[n] \in Sudog /\ n \in {L[par[n]], R[par[n]]}
    <3>1. par[n] # x
      BY <2>4, <2>1, <1>t
    <3> QED
      BY <2>4, <3>1, <2>1, <1>v
  <2> QED
    BY <2>2, <2>3, <2>4
<1>w. ASSUME NEW n \in Sudog, ~(n \in N /\ n # x) PROVE par2[n] = Nil
  BY <1>w, <1>1 DEF Tree
<1>o. root2 # Nil => par2[root2] = Nil /\ root2 \in N /\ root2 # x
  BY <1>x, <1>t, <1>1
<1>e. sub2[Nil] = {} /\ sub2[root2] = sub[root] \ {x}
  BY <1>r, <1>s, <1>t, <1>1
<1> QED
  <2>1. \A n \in sub2[root2] : n \in N /\ n # x /\ Fits(n)
    BY <1>f, <1>r
  <2>2. Tree(sub2, root2, L2, R2, par2)
    BY <2>1, <1>r, <1>u, <1>v, <1>w, <1>o, <1>e DEF Tree, Fits
  <2>3. \A n \in sub[root] : n # x => sub2[L2[n]] \subseteq sub[L[n]] /\ sub2[R2[n]] \subseteq sub[R[n]]
    BY <1>f, <1>1 DEF Kept
  <2>4. \A n \in sub[root] : n # x => sub2[n] \subseteq sub[n] \ {x}
    BY <1>s, <1>t, <1>1
  <2> QED
    BY <2>2, <2>3, <2>4, <1>e DEF Dropped

(* y, which is not in the tree, takes the place of x. *)
Replace(root, L, R, par, x, y, root2, L2, R2, par2) ==
  /\ root2 = IF par[x] = Nil THEN y ELSE root
  /\ L2 \in [Sudog -> Pointer] /\ R2 \in [Sudog -> Pointer] /\ par2 \in [Sudog -> Pointer]
  /\ \A q \in Sudog :
       /\ L2[q] = IF q = y THEN L[x] ELSE IF q = x THEN Nil ELSE IF q = par[x] /\ L[q] = x THEN y ELSE L[q]
       /\ R2[q] = IF q = y THEN R[x] ELSE IF q = x THEN Nil ELSE IF q = par[x] /\ R[q] = x THEN y ELSE R[q]
       /\ par2[q] = IF q = y THEN par[x] ELSE IF q = x THEN Nil ELSE IF q \in {L[x], R[x]} THEN y ELSE par[q]

Replaced(sub, root, L, R, x, y, sub2, root2, L2, R2, par2) ==
  /\ Tree(sub2, root2, L2, R2, par2)
  /\ \A m : m \in sub2[root2] <=> (m \in sub[root] /\ m # x) \/ m = y
  /\ \A n \in sub[root] : n # x =>
       /\ \A m \in sub2[n] : (m \in sub[n] /\ m # x) \/ (m = y /\ x \in sub[n])
       /\ \A m \in sub2[L2[n]] : (m \in sub[L[n]] /\ m # x) \/ (m = y /\ x \in sub[L[n]])
       /\ \A m \in sub2[R2[n]] : (m \in sub[R[n]] /\ m # x) \/ (m = y /\ x \in sub[R[n]])
  /\ \A m \in sub2[y] : (m \in sub[x] /\ m # x) \/ m = y
  /\ sub2[L2[y]] \subseteq sub[L[x]] /\ sub2[R2[y]] \subseteq sub[R[x]]

LEMMA TakePlaceTree ==
  ASSUME NEW sub, NEW root, NEW L, NEW R, NEW par, Tree(sub, root, L, R, par), Nil \notin Sudog,
         NEW x \in sub[root], NEW y \in Sudog, y \notin sub[root],
         NEW root2, NEW L2, NEW R2, NEW par2, Replace(root, L, R, par, x, y, root2, L2, R2, par2)
  PROVE  \E sub2 : Replaced(sub, root, L, R, x, y, sub2, root2, L2, R2, par2)
<1> PICK p : p = par[x]
  OBVIOUS
<1> root2 = IF p = Nil THEN y ELSE root
  BY DEF Replace
<1> /\ L2 \in [Sudog -> Pointer]
    /\ \A q \in Sudog : L2[q] = IF q = y THEN L[x] ELSE IF q = x THEN Nil
                                 ELSE IF q = p /\ L[q] = x THEN y ELSE L[q]
  BY DEF Replace
<1> /\ R2 \in [Sudog -> Pointer]
    /\ \A q \in Sudog : R2[q] = IF q = y THEN R[x] ELSE IF q = x THEN Nil
                                 ELSE IF q = p /\ R[q] = x THEN y ELSE R[q]
  BY DEF Replace
<1> /\ par2 \in [Sudog -> Pointer]
    /\ \A q \in Sudog : par2[q] = IF q = y THEN par[x] ELSE IF q = x THEN Nil
                                   ELSE IF q \in {L[x], R[x]} THEN y ELSE par[q]
  BY DEF Replace
<1> PICK sub2 \in [Pointer -> SUBSET Sudog] :
      /\ sub2[Nil] = {}
      /\ \A m \in Sudog : m \in sub2[y] <=> (m \in sub[x] /\ m # x) \/ m = y
      /\ \A n \in sub[root] : \A m \in Sudog :
           n # x => (m \in sub2[n] <=> (m \in sub[n] /\ m # x) \/ (m = y /\ x \in sub[n]))
  <2> DEFINE f == [n \in Pointer |->
                    IF n = Nil THEN {}
                    ELSE IF n = y THEN {m \in Sudog : (m \in sub[x] /\ m # x) \/ m = y}
                    ELSE {m \in Sudog : (m \in sub[n] /\ m # x) \/ (m = y /\ x \in sub[n])}]
  <2>1. sub[root] \subseteq Sudog /\ y \in Pointer /\ Nil \in Pointer /\ y # Nil
    BY DEF Tree, Pointer
  <2>2. f \in [Pointer -> SUBSET Sudog]
    OBVIOUS
  <2>3. f[Nil] = {} /\ \A m \in Sudog : m \in f[y] <=> (m \in sub[x] /\ m # x) \/ m = y
    BY <2>1
  <2>4. ASSUME NEW n \in sub[root], NEW m \in Sudog, n # x
        PROVE  m \in f[n] <=> (m \in sub[n] /\ m # x) \/ (m = y /\ x \in sub[n])
    <3>1. n \in Pointer /\ n # Nil /\ n # y
      BY <2>1 DEF Pointer
    <3> QED
      BY <3>1
  <2> HIDE DEF f
  <2> QED
    BY <2>2, <2>3, <2>4
<1>1. PICK N : N = sub[root]
  OBVIOUS
<1>2. PICK a : a = L[x]
  OBVIOUS
<1>3. PICK b : b = R[x]
  OBVIOUS
<1>t. /\ sub \in [Pointer -> SUBSET Sudog] /\ sub[Nil] = {} /\ root \in Pointer
      /\ L \in [Sudog -> Pointer] /\ R \in [Sudog -> Pointer] /\ par \in [Sudog -> Pointer]
      /\ root # Nil /\ root \in N /\ par[root] = Nil
      /\ N \subseteq Sudog /\ N \subseteq Pointer /\ Nil \in Pointer /\ y \in Pointer /\ x \in N /\ y \notin N
  BY <1>1 DEF Tree, Pointer
<1>s. /\ \A m : m \in sub2[y] <=> (m \in sub[x] /\ m # x) \/ m = y
      /\ \A n \in N : \A m : n # x => (m \in sub2[n] <=> (m \in sub[n] /\ m # x) \/ (m = y /\ x \in sub[n]))
  <2>1. sub2[y] \subseteq Sudog /\ sub[x] \subseteq Sudog
    BY <1>t
  <2>2. ASSUME NEW n \in N, NEW m, n # x
        PROVE  m \in sub2[n] <=> (m \in sub[n] /\ m # x) \/ (m = y /\ x \in sub[n])
    <3>1. sub2[n] \subseteq Sudog /\ sub[n] \subseteq Sudog
      BY <1>t
    <3>2. \A q \in Sudog : q \in sub2[n] <=> (q \in sub[n] /\ q # x) \/ (q = y /\ x \in sub[n])
      BY <2>2, <1>1
    <3> QED
      BY <3>1, <3>2
  <2> QED
    BY <2>1, <2>2
<1>n. ASSUME NEW n \in N
      PROVE  /\ n \in Sudog /\ n \in sub[n] /\ sub[n] = {n} \cup sub[L[n]] \cup sub[R[n]]
             /\ n \notin sub[L[n]] /\ n \notin sub[R[n]] /\ sub[L[n]] \cap sub[R[n]] = {}
             /\ L[n] # Nil => L[n] \in N /\ L[n] \in sub[L[n]] /\ par[L[n]] = n
             /\ R[n] # Nil => R[n] \in N /\ R[n] \in sub[R[n]] /\ par[R[n]] = n
             /\ L[n] \in Pointer /\ R[n] \in Pointer /\ (L[n] = R[n] => L[n] = Nil)
             /\ sub[n] \subseteq N
             /\ par[n] = Nil <=> n = root
  <2>1. Node(sub, root, L, R, par, n)
    BY <1>1, TreeNode
  <2> QED
    BY <2>1, <1>1 DEF Node
<1>x. /\ x \in Sudog /\ x \in sub[x] /\ sub[x] = {x} \cup sub[a] \cup sub[b]
      /\ x \notin sub[a] /\ x \notin sub[b] /\ sub[a] \cap sub[b] = {}
      /\ a # Nil => a \in N /\ a \in sub[a] /\ par[a] = x /\ a \in Sudog /\ a # x
      /\ b # Nil => b \in N /\ b \in sub[b] /\ par[b] = x /\ b \in Sudog /\ b # x
      /\ a \in Pointer /\ b \in Pointer /\ (a = b => a = Nil) /\ sub[x] \subseteq N
      /\ p = Nil <=> x = root
      /\ x # y /\ a # y /\ b # y
  <2>1. Node(sub, root, L, R, par, x)
    BY TreeNode
  <2>2. x # y /\ a # y /\ b # y
    BY <2>1, <1>1, <1>2, <1>3, <1>t DEF Node
  <2> QED
    BY <2>1, <2>2, <1>1, <1>2, <1>3 DEF Node
<1>m. ASSUME NEW n \in N, NEW m \in sub[n]
      PROVE  m \in N /\ sub[m] \subseteq sub[n] /\ (m # n => par[m] \in sub[n])
  <2>1. m \in N
    BY <1>n
  <2> QED
    BY <2>1, <1>1 DEF Tree
<1>p. p # Nil => p \in N /\ p \in Sudog /\ x \in {L[p], R[p]} /\ p # x /\ p # y
  <2>1. p # Nil => p \in N /\ x \in {L[p], R[p]}
    BY <1>1, <1>x DEF Tree
  <2>2. p # Nil => p # x
    BY <2>1, <1>x, <1>n, <1>t
  <2> QED
    BY <2>1, <2>2, <1>t
<1>r. root2 \in Pointer /\ root2 # Nil /\ \A m : m \in sub2[root2] <=> (m \in N /\ m # x) \/ m = y
  <2>1. CASE p = Nil
    BY <2>1, <1>1, <1>x, <1>s, <1>t
  <2>2. CASE p # Nil
    BY <2>2, <1>1, <1>s, <1>t, <1>x
  <2> QED
    BY <2>1, <2>2
<1>a. /\ \A m : m \in sub2[a] <=> m \in sub[a]
      /\ \A m : m \in sub2[b] <=> m \in sub[b]
  <2>1. x \notin sub[a] /\ x \notin sub[b]
    BY <1>x
  <2> QED
    BY <2>1, <1>x, <1>s, <1>t
<1> DEFINE Fits(n) ==
       /\ sub2[n] = {n} \cup sub2[L2[n]] \cup sub2[R2[n]]
       /\ n \notin sub2[L2[n]] /\ n \notin sub2[R2[n]] /\ sub2[L2[n]] \cap sub2[R2[n]] = {}
       /\ L2[n] # Nil => L2[n] \in sub2[L2[n]] /\ par2[L2[n]] = n
       /\ R2[n] # Nil => R2[n] \in sub2[R2[n]] /\ par2[R2[n]] = n
<1>g. Fits(y)
  <2>1. L2[y] = a /\ R2[y] = b
    BY <1>2, <1>3
  <2>2. a # Nil => a \in sub2[a] /\ par2[a] = y
    BY <1>a, <1>x, <1>2
  <2>3. b # Nil => b \in sub2[b] /\ par2[b] = y
    BY <1>a, <1>x, <1>3
  <2>4. \A m : m \in sub2[y] <=> m = y \/ m \in sub2[a] \/ m \in sub2[b]
    BY <1>a, <1>x, <1>s
  <2>5. y \notin sub2[a] /\ y \notin sub2[b] /\ sub2[a] \cap sub2[b] = {}
    BY <1>a, <1>x, <1>t
  <2> QED
    BY <2>1, <2>2, <2>3, <2>4, <2>5
<1> DEFINE Kept(n) ==
       /\ \A m \in sub2[L2[n]] : (m \in sub[L[n]] /\ m # x) \/ (m = y /\ x \in sub[L[n]])
       /\ \A m \in sub2[R2[n]] : (m \in sub[R[n]] /\ m # x) \/ (m = y /\ x \in sub[R[n]])
<1>f. ASSUME NEW n \in N, n # x PROVE Fits(n) /\ Kept(n)
  <2>1. PICK l : l = L2[n]
    OBVIOUS
  <2>2. PICK r : r = R2[n]
    OBVIOUS
  <2>0. n \in Sudog /\ n # y
    BY <1>t
  <2>3. /\ \A m : m \in sub2[l] <=> (m \in sub[L[n]] /\ m # x) \/ (m = y /\ x \in sub[L[n]])
        /\ l # Nil => l \in sub2[l] /\ par2[l] = n
    <3>1. CASE L[n] = x
      <4>1. p = n
        BY <3>1, <1>n, <1>x, <1>t
      <4>2. l = y
        BY <3>1, <4>1, <2>0, <2>1, <1>f
      <4> QED
        BY <4>1, <4>2, <3>1, <1>x, <1>s
    <3>2. CASE L[n] # x
      <4>1. l = L[n] /\ l \in Pointer
        BY <3>2, <2>1, <2>0, <1>n, <1>f
      <4>2. CASE l = Nil
        BY <4>1, <4>2, <1>t
      <4>3. CASE l # Nil
        <5>1. l \in sub[l] /\ par[l] = n /\ l \in Sudog /\ l \in N /\ l # y
          BY <4>1, <4>3, <1>n, <1>t
        <5>2. l \notin {a, b}
          BY <5>1, <1>x, <1>f
        <5> QED
          BY <5>1, <5>2, <4>1, <3>2, <1>s, <1>2, <1>3
      <4> QED
        BY <4>2, <4>3
    <3> QED
      BY <3>1, <3>2
  <2>4. /\ \A m : m \in sub2[r] <=> (m \in sub[R[n]] /\ m # x) \/ (m = y /\ x \in sub[R[n]])
        /\ r # Nil => r \in sub2[r] /\ par2[r] = n
    <3>1. CASE R[n] = x
      <4>1. p = n
        BY <3>1, <1>n, <1>x, <1>t
      <4>2. r = y
        BY <3>1, <4>1, <2>0, <2>2, <1>f
      <4> QED
        BY <4>1, <4>2, <3>1, <1>x, <1>s
    <3>2. CASE R[n] # x
      <4>1. r = R[n] /\ r \in Pointer
        BY <3>2, <2>2, <2>0, <1>n, <1>f
      <4>2. CASE r = Nil
        BY <4>1, <4>2, <1>t
      <4>3. CASE r # Nil
        <5>1. r \in sub[r] /\ par[r] = n /\ r \in Sudog /\ r \in N /\ r # y
          BY <4>1, <4>3, <1>n, <1>t
        <5>2. r \notin {a, b}
          BY <5>1, <1>x, <1>f
        <5> QED
          BY <5>1, <5>2, <4>1, <3>2, <1>s, <1>2, <1>3
      <4> QED
        BY <4>2, <4>3
    <3> QED
      BY <3>1, <3>2
  <2>5. \A m : m \in sub2[n] <=> (m \in sub[n] /\ m # x) \/ (m = y /\ x \in sub[n])
    BY <1>s, <1>f
  <2>6. /\ sub[n] = {n} \cup sub[L[n]] \cup sub[R[n]] /\ n \notin sub[L[n]] /\ n \notin sub[R[n]]
        /\ sub[L[n]] \cap sub[R[n]] = {} /\ y \notin sub[n]
    BY <1>n, <1>t
  <2>7. n \notin sub2[l] /\ n \notin sub2[r] /\ sub2[l] \cap sub2[r] = {}
    BY <2>0, <2>3, <2>4, <2>6
  <2>8. \A m : m \in sub2[n] <=> m = n \/ m \in sub2[l] \/ m \in sub2[r]
    BY <2>0, <2>3, <2>4, <2>5, <2>6, <1>f
  <2>9. sub2[n] = {n} \cup sub2[l] \cup sub2[r]
    BY <2>8
  <2> QED
    BY <2>1, <2>2, <2>3, <2>4, <2>7, <2>9
<1> HIDE DEF Fits, Kept
<1> DEFINE In(n) == (n \in N /\ n # x) \/ n = y
<1>h. ASSUME NEW n, NEW m, m \in N, m # x, m # n, n \in N, m \in sub[n]
      PROVE  /\ m \notin {a, b} => par2[m] = par[m] /\ par[m] # x
             /\ m \in {a, b} => par2[m] = y /\ x \in sub[n]
  <2>1. m \in Sudog /\ m # y /\ par[m] \in sub[n]
    BY <1>h, <1>m, <1>t
  <2>2. m \in {a, b} => par[m] = x
    BY <2>1, <1>x, <1>h, <1>t
  <2>3. par[m] = x => m \in {a, b}
    <3>1. m = root \/ m \in {L[par[m]], R[par[m]]}
      BY <1>1, <1>h DEF Tree
    <3> QED
      BY <3>1, <1>2, <1>3, <1>t, <1>x
  <2> QED
    BY <2>1, <2>2, <2>3, <1>h, <1>2, <1>3
<1>u. ASSUME NEW n, In(n), NEW m \in sub2[n]
      PROVE  sub2[m] \subseteq sub2[n] /\ (m # n => par2[m] \in sub2[n])
  <2>1. CASE n = y
    <3>1. CASE m = y
      BY <3>1, <2>1
    <3>2. CASE m # y
      <4>1. m \in sub[x] /\ m # x
        BY <3>2, <2>1, <1>s
      <4>2. m \in N /\ sub[m] \subseteq sub[x] /\ par[m] \in sub[x]
        BY <4>1, <1>m, <1>t
      <4>3. x \notin sub[m]
        <5>1. m \in sub[a] \/ m \in sub[b]
          BY <4>1, <1>x
        <5>2. m \in sub[a] => a \in N /\ sub[m] \subseteq sub[a]
          BY <1>m, <1>x, <1>t
        <5>3. m \in sub[b] => b \in N /\ sub[m] \subseteq sub[b]
          BY <1>m, <1>x, <1>t
        <5> QED
          BY <5>1, <5>2, <5>3, <1>x
      <4>4. sub2[m] \subseteq sub2[y]
        BY <4>1, <4>2, <4>3, <1>s
      <4>5. par2[m] \in sub2[y]
        <5>1. /\ m \notin {a, b} => par2[m] = par[m] /\ par[m] # x
              /\ m \in {a, b} => par2[m] = y
          BY <4>1, <4>2, <1>h, <1>t
        <5> QED
          BY <5>1, <4>2, <1>s
      <4> QED
        BY <4>4, <4>5, <2>1
    <3> QED
      BY <3>1, <3>2
  <2>2. CASE n \in N /\ n # x /\ m = y
    <3>1. x \in sub[n] /\ y \in sub2[n]
      BY <2>2, <1>s, <1>n, <1>t
    <3>2. sub[x] \subseteq sub[n] /\ par[x] \in sub[n]
      BY <3>1, <2>2, <1>m
    <3>3. sub2[y] \subseteq sub2[n]
      BY <3>1, <3>2, <2>2, <1>s
    <3>4. par2[y] \in sub2[n]
      <4>1. par2[y] = p /\ p \in N /\ p # x
        BY <3>2, <1>p, <1>n, <2>2, <1>t
      <4> QED
        BY <4>1, <3>2, <2>2, <1>s
    <3> QED
      BY <3>3, <3>4, <2>2
  <2>3. CASE n \in N /\ n # x /\ m # y
    <3>1. m \in sub[n] /\ m # x
      BY <2>3, <1>s
    <3>2. m \in N /\ sub[m] \subseteq sub[n] /\ (m # n => par[m] \in sub[n])
      BY <3>1, <2>3, <1>m
    <3>3. sub2[m] \subseteq sub2[n]
      BY <3>1, <3>2, <2>3, <1>s
    <3>4. m # n => par2[m] \in sub2[n]
      <4>1. m # n => /\ m \notin {a, b} => par2[m] = par[m] /\ par[m] # x
                     /\ m \in {a, b} => par2[m] = y /\ x \in sub[n]
        BY <3>1, <3>2, <2>3, <1>h
      <4> QED
        BY <4>1, <3>2, <2>3, <1>s
    <3> QED
      BY <3>3, <3>4
  <2> QED
    BY <1>u, <2>1, <2>2, <2>3
<1>v. ASSUME NEW n, In(n)
      PROVE  n = root2 \/ (In(par2[n]) /\ n \in {L2[par2[n]], R2[par2[n]]})
  <2>1. CASE n = y
    <3>1. p = Nil => y = root2
      OBVIOUS
    <3>2. p # Nil => In(p) /\ y \in {L2[p], R2[p]}
      BY <1>p
    <3> QED
      BY <3>1, <3>2, <2>1
  <2>2. CASE n \in N /\ n # x
    <3>1. n = root => n = root2
      BY <2>2, <1>x
    <3>2. CASE n # root
      <4>1. par[n] \in N /\ par[n] \in Sudog /\ n \in {L[par[n]], R[par[n]]}
        BY <3>2, <2>2, <1>1, <1>t DEF Tree
      <4>2. n \in sub[root]
        BY <2>2, <1>1
      <4>3. /\ n \notin {a, b} => par2[n] = par[n] /\ par[n] # x
            /\ n \in {a, b} => par2[n] = y
        BY <4>2, <3>2, <2>2, <1>h, <1>t
      <4>4. n \in {a, b} => In(par2[n]) /\ n \in {L2[par2[n]], R2[par2[n]]}
        BY <4>3, <1>2, <1>3
      <4>5. n \notin {a, b} => In(par2[n]) /\ n \in {L2[par2[n]], R2[par2[n]]}
        BY <4>1, <4>3, <2>2, <1>t
      <4> QED
        BY <4>4, <4>5
    <3> QED
      BY <3>1, <3>2
  <2> QED
    BY <1>v, <2>1, <2>2
<1>w. ASSUME NEW n \in Sudog, ~In(n) PROVE par2[n] = Nil
  <2>1. n = x \/ n \notin N
    BY <1>w
  <2>2. CASE n = x
    BY <2>2, <1>x
  <2>3. CASE n \notin N /\ n # x
    <3>1. par[n] = Nil
      BY <2>3, <1>1 DEF Tree
    <3>2. n # a /\ n # b /\ n # y
      BY <2>3, <1>w, <1>x, <1>t
    <3> QED
      BY <3>1, <3>2, <2>3, <1>2, <1>3
  <2> QED
    BY <2>1, <2>2, <2>3
<1>o. par2[root2] = Nil /\ In(root2)
  <2>1. CASE p = Nil
    BY <2>1
  <2>2. CASE p # Nil
    <3>1. root2 = root /\ root # x /\ root # y /\ root \in N /\ root \in Sudog
      BY <2>2, <1>x, <1>t
    <3>2. root \notin {a, b}
      BY <3>1, <1>x, <1>t
    <3> QED
      BY <3>1, <3>2, <1>t, <1>2, <1>3
  <2> QED
    BY <2>1, <2>2
<1> QED
  <2>1. \A n \in sub2[root2] : In(n) /\ Fits(n)
    BY <1>f, <1>g, <1>r
  <2>2. \A n : n \in sub2[root2] <=> In(n)
    BY <1>r
  <2> HIDE DEF In
  <2>3. Tree(sub2, root2, L2, R2, par2)
    BY <2>1, <2>2, <1>r, <1>u, <1>v, <1>w, <1>o DEF Tree, Fits
  <2>4. \A n \in sub[root] : n # x =>
              /\ \A m \in sub2[L2[n]] : (m \in sub[L[n]] /\ m # x) \/ (m = y /\ x \in sub[L[n]])
              /\ \A m \in sub2[R2[n]] : (m \in sub[R[n]] /\ m # x) \/ (m = y /\ x \in sub[R[n]])
    BY <1>f, <1>1 DEF Kept
  <2>5. sub2[L2[y]] \subseteq sub[L[x]] /\ sub2[R2[y]] \subseteq sub[R[x]]
    BY <1>a, <1>2, <1>3
  <2>6. \A m : m \in sub2[root2] <=> (m \in sub[root] /\ m # x) \/ m = y
    BY <1>r, <1>1
  <2>7. \A n \in sub[root] : n # x => \A m \in sub2[n] : (m \in sub[n] /\ m # x) \/ (m = y /\ x \in sub[n])
    BY <1>s, <1>1
  <2>8. \A m \in sub2[y] : (m \in sub[x] /\ m # x) \/ m = y
    BY <1>s
  <2> QED
    BY <2>3, <2>4, <2>5, <2>6, <2>7, <2>8 DEF Replaced
-----------------------------------------------------------------------------
(* The invariant of the program.  Key order and heap order speak of all    *)
(* the nodes below a node.  The node that is being rotated may have a      *)
(* smaller ticket than those above it.                                     *)
Ordered(sub) ==
  \A n \in sub[treap] :
    /\ elem[n] \in Key
    /\ \A m \in sub[prev[n]] : elem[m] < elem[n]
    /\ \A m \in sub[next[n]] : elem[n] < elem[m]

Heaped(sub) ==
  \A n \in sub[treap] : \A m \in sub[n] :
    ticket[n] <= ticket[m] \/ (pc \in {"up", "down"} /\ m = at)

(* The search went the way the key says, and what it looks for is below.   *)
Route(sub) ==
  pc \in {"search", "walk"} =>
    /\ last = Nil => at = treap
    /\ last # Nil =>
         /\ last \in sub[treap] /\ elem[last] # call.key
         /\ call.key < elem[last] => at = prev[last]
         /\ elem[last] < call.key => at = next[last]
         /\ \A n \in sub[treap] : /\ last \in sub[prev[n]] => call.key < elem[n]
                                  /\ last \in sub[next[n]] => elem[n] < call.key
    /\ \A m \in sub[treap] : elem[m] = call.key => m \in sub[at]

(* s has its key, but queue has not put it into a line yet. *)
Arriving(s) == pc = "search" /\ call.name = "queue" /\ s = call.s

(* q is the list of k: its links, and its tail pointer, which its head     *)
(* keeps and which a single waiter may set to itself.                      *)
Chain(q, k) ==
  /\ \A i \in 1 .. Len(q) :
       /\ elem[q[i]] = k
       /\ waitlink[q[i]] = IF i = Len(q) THEN Nil ELSE q[i + 1]
  /\ \A i, j \in 1 .. Len(q) : q[i] = q[j] => i = j
  /\ q # <<>> =>
       /\ Len(q) = 1 => waittail[q[1]] \in {Nil, q[1]}
       /\ Len(q) # 1 => waittail[q[1]] = q[Len(q)]

Chained(line) == line \in [Key -> Seq(Sudog)] /\ \A k \in Key : Chain(line[k], k)

(* The nodes of the tree are the heads of the queues. *)
Headed(sub, line) ==
  /\ \A k \in Key : line[k] # <<>> => line[k][1] \in sub[treap]
  /\ \A n \in sub[treap] : elem[n] \in Key /\ line[elem[n]] # <<>> /\ line[elem[n]][1] = n

Waiting(line) ==
  \A s \in Sudog : elem[s] # Nil /\ ~ Arriving(s) =>
    \E i \in 1 .. Len(line[elem[s]]) : line[elem[s]][i] = s

(* What the holder of the lock knows. *)
QueueCall(sub, line) ==
  /\ pc \in {"search", "up"} /\ call.s \in Sudog /\ elem[call.s] = call.key
  /\ pc = "up" => at = call.s /\ at \in sub[treap]
  /\ pc = "search" =>
       /\ prev[call.s] = Nil /\ next[call.s] = Nil /\ waitlink[call.s] = Nil
       /\ ticket[call.s] = 0 /\ waittail[call.s] \in {Nil, call.s}
       /\ call.s \notin sub[treap]
       /\ \A i \in 1 .. Len(line[call.key]) : line[call.key][i] # call.s

DequeueCall(sub) ==
  /\ pc \in {"search", "down"}
  /\ call.key = Masked(call.addr) \/ \A n \in sub[treap] : elem[n] # Masked(call.addr)

GcDequeueCall(sub, line) ==
  /\ pc \in {"search", "down", "walk"} /\ call.s \in Sudog
  /\ call.key = Masked(call.addr) /\ elem[call.s] = call.key
  /\ pc = "down" => at = call.s

Walk(sub, line) ==
  /\ call.name = "gcDequeue" /\ at \in sub[treap] /\ elem[at] = call.key /\ waitlink[at] # Nil
  /\ \E i, j \in 1 .. Len(line[call.key]) :
       /\ i <= j /\ target = line[call.key][i] /\ call.s = line[call.key][j]
       /\ i # 1 => targetPred = line[call.key][i - 1]

Called(sub, line) ==
  pc # "unlocked" =>
    /\ call.addr \in Addr /\ call.key \in {call.addr, Masked(call.addr)} /\ call.name # "none"
    /\ call.name = "queue" => QueueCall(sub, line)
    /\ call.name = "dequeue" => DequeueCall(sub)
    /\ call.name = "gcDequeue" => GcDequeueCall(sub, line)
    /\ pc = "up" => call.name = "queue"
    /\ pc = "down" => at \in sub[treap] /\ elem[at] = call.key /\ waitlink[at] = Nil
    /\ pc = "walk" => Walk(sub, line)

Inv(sub, line) ==
  /\ TypeOK /\ ReleasedClean
  /\ Tree(sub, treap, prev, next, parent) /\ Ordered(sub) /\ Heaped(sub) /\ Route(sub)
  /\ Chained(line) /\ Headed(sub, line) /\ Waiting(line) /\ Called(sub, line)

IInv == \E sub, line : Inv(sub, line)

(* What a step does to the queues. *)
NoStep(line, line2) == line2 = line

QueueStep(line, line2) ==
  \E s \in Sudog, a \in Addr, lifo, isSync \in BOOLEAN :
    /\ \A k \in Key : \A i \in 1 .. Len(line[k]) : line[k][i] # s
    /\ line2 = [line EXCEPT ![KeyOf(a, isSync)] = IF lifo THEN <<s>> \o @ ELSE Append(@, s)]

DequeueStep(line, line2) ==
  \E a \in Addr, k \in Key :
    /\ k = KeyOf(a, line[Masked(a)] # <<>>) /\ line[k] # <<>>
    /\ line2 = [line EXCEPT ![k] = Tail(@)]

GcDequeueStep(line, line2) ==
  \E s \in Sudog, a \in Addr : \E i \in 1 .. Len(line[Masked(a)]) :
    /\ line[Masked(a)][i] = s
    /\ line2 = [line EXCEPT ![Masked(a)] = RemoveAt(@, i)]

Steps(line, line2) ==
  NoStep(line, line2) \/ QueueStep(line, line2) \/ DequeueStep(line, line2) \/ GcDequeueStep(line, line2)

LEMMA KeyFacts ==
  /\ Key \subseteq Nat /\ Nil \notin Key /\ Nil \notin Sudog /\ Nil \in Pointer
  /\ \A a \in Addr : a \in Key /\ Masked(a) \in Key
  /\ \A t \in Tickets \cup {0} : t \in Nat
<1>1. Nil \notin Key /\ Nil \notin Sudog /\ Nil \in Pointer
  BY SudogAssumption DEF Pointer
<1>2. \A a \in Addr : a \in Nat /\ Masked(a) \in Nat
  BY AddrAssumption DEF Masked
<1>3. \A a \in Addr : a \in Key /\ Masked(a) \in Key
  BY DEF Key
<1>4. Key \subseteq Nat
  BY <1>2 DEF Key
<1>5. \A t \in Tickets \cup {0} : t \in Nat
  BY TicketsAssumption
<1> QED
  BY <1>1, <1>3, <1>4, <1>5

LEMMA Types ==
  ASSUME TypeOK
  PROVE  /\ treap \in Pointer /\ at \in Pointer /\ last \in Pointer /\ target \in Pointer /\ targetPred \in Pointer
         /\ elem \in [Sudog -> Key \cup {Nil}] /\ ticket \in [Sudog -> Tickets \cup {0}]
         /\ prev \in [Sudog -> Pointer] /\ next \in [Sudog -> Pointer] /\ parent \in [Sudog -> Pointer]
         /\ waitlink \in [Sudog -> Pointer] /\ waittail \in [Sudog -> Pointer]
         /\ pc \in {"unlocked", "search", "up", "down", "walk"}
         /\ call.name \in {"none", "queue", "dequeue", "gcDequeue"} /\ call.s \in Pointer
         /\ call.addr \in Addr \cup {Nil} /\ call.key \in Key \cup {Nil} /\ call.lifo \in BOOLEAN
         /\ \A s \in Sudog : ticket[s] \in Nat
BY KeyFacts DEF TypeOK

(* A node below the left link of n, but for the child c of l. *)
LEMMA ChildBelow ==
  ASSUME NEW sub, NEW root, NEW L, NEW R, NEW par, Tree(sub, root, L, R, par), Nil \notin Sudog,
         NEW l \in sub[root], NEW c, c # Nil, c \in {L[l], R[l]}, NEW n \in sub[root]
  PROVE  /\ c \in sub[L[n]] => (n = l /\ c = L[l]) \/ l \in sub[L[n]]
         /\ c \in sub[R[n]] => (n = l /\ c = R[l]) \/ l \in sub[R[n]]
<1>1. Node(sub, root, L, R, par, l) /\ Node(sub, root, L, R, par, n)
  BY TreeNode
<1>2. par[c] = l /\ c \in sub[root]
  BY <1>1 DEF Node
<1>3. c \in sub[L[n]] /\ c # L[n] => par[c] \in sub[L[n]]
  BY <1>1 DEF Node, Tree
<1>4. c \in sub[R[n]] /\ c # R[n] => par[c] \in sub[R[n]]
  BY <1>1 DEF Node, Tree
<1>5. c = L[n] => n = l
  BY <1>1, <1>2 DEF Node
<1>6. c = R[n] => n = l
  BY <1>1, <1>2 DEF Node
<1> QED
  BY <1>2, <1>3, <1>4, <1>5, <1>6

LEMMA RootBelowNone ==
  ASSUME NEW sub, NEW root, NEW L, NEW R, NEW par, Tree(sub, root, L, R, par), Nil \notin Sudog,
         NEW n \in sub[root]
  PROVE  root \notin sub[L[n]] /\ root \notin sub[R[n]]
<1>1. Node(sub, root, L, R, par, n)
  BY TreeNode
<1>2. par[root] = Nil
  BY <1>1 DEF Tree, Node
<1>3. Nil \notin sub[root] 
  BY <1>1 DEF Tree, Node
<1>4. root \in sub[L[n]] => root = L[n]
  BY <1>1, <1>2, <1>3 DEF Tree, Node
<1>5. root \in sub[R[n]] => root = R[n]
  BY <1>1, <1>2, <1>3 DEF Tree, Node
<1> QED
  BY <1>1, <1>2, <1>4, <1>5 DEF Node

(* Where the search is. *)
LEMMA SearchAt ==
  ASSUME NEW sub, NEW line, Inv(sub, line), pc \in {"search", "walk"}
  PROVE  /\ at # Nil => at \in sub[treap] /\ at \in Sudog /\ parent[at] = last /\ elem[at] \in Key
         /\ last # Nil => /\ last \in sub[treap] /\ last \in Sudog /\ elem[last] \in Key
                          /\ at \in {prev[last], next[last]}
                          /\ call.key < elem[last] \/ elem[last] < call.key
         /\ call.key \in Key /\ call.key \in Nat
<1>1. Tree(sub, treap, prev, next, parent) /\ Nil \notin Sudog
  BY KeyFacts DEF Inv
<1>2. call.key \in Key /\ call.key \in Nat
  BY KeyFacts DEF Inv, Called
<1>3. last # Nil => /\ last \in sub[treap] /\ elem[last] # call.key
                    /\ (call.key < elem[last] => at = prev[last])
                    /\ (elem[last] < call.key => at = next[last])
  BY DEF Inv, Route
<1>4. last # Nil => elem[last] \in Nat /\ elem[last] \in Key
  BY <1>3, KeyFacts DEF Inv, Ordered
<1>5. last # Nil => (call.key < elem[last] \/ elem[last] < call.key)
  BY <1>2, <1>3, <1>4
<1>6. ASSUME last # Nil PROVE last \in Sudog /\ (at # Nil => at \in sub[treap] /\ parent[at] = last)
  <2>1. Node(sub, treap, prev, next, parent, last)
    BY <1>1, <1>3, <1>6, TreeNode
  <2> QED
    BY <2>1, <1>3, <1>5, <1>6 DEF Node
<1>7. last = Nil /\ at # Nil => at \in sub[treap] /\ parent[at] = last
  BY <1>1 DEF Inv, Route, Tree
<1>8. at \in sub[treap] => elem[at] \in Key /\ at \in Sudog
  BY <1>1 DEF Inv, Ordered, Tree
<1> QED
  BY <1>2, <1>3, <1>4, <1>5, <1>6, <1>7, <1>8

(* Steps that move only the cursors of the lock holder. *)
LEMMA SameData ==
  ASSUME NEW sub, NEW line, Inv(sub, line), UNCHANGED <<links, lists, elem, ticket>>,
         \A s : Arriving(s) => Arriving(s)'
  PROVE  /\ ReleasedClean' /\ Tree(sub, treap, prev, next, parent)' /\ Ordered(sub)'
         /\ Chained(line)' /\ Headed(sub, line)' /\ Waiting(line)'
<1>1. /\ treap' = treap /\ prev' = prev /\ next' = next /\ parent' = parent /\ waitlink' = waitlink
      /\ waittail' = waittail /\ elem' = elem /\ ticket' = ticket
  BY DEF links, lists
<1>2. ReleasedClean' /\ Tree(sub, treap, prev, next, parent)'
  BY <1>1 DEF Inv, ReleasedClean
<1>3. Ordered(sub)'
  BY <1>1 DEF Inv, Ordered
<1>4. Chained(line)'
  BY <1>1 DEF Inv, Chained, Chain
<1>5. Headed(sub, line)'
  BY <1>1 DEF Inv, Headed
<1>6. Waiting(line)'
  BY <1>1 DEF Inv, Waiting
<1> QED
  BY <1>2, <1>3, <1>4, <1>5, <1>6

\* Outside the loops that rotate, the heap is in order.
LEMMA SameHeap ==
  ASSUME NEW sub, NEW line, Inv(sub, line), UNCHANGED <<links, ticket>>, pc \notin {"up", "down"}
  PROVE  Heaped(sub)'
BY DEF Inv, Heaped, links

LEMMA SearchStarts ==
  ASSUME NEW sub, NEW line, Inv(sub, line), NEW c, Lock(c), UNCHANGED links,
         \A n \in sub[treap] : elem'[n] = elem[n]
  PROVE  Route(sub)'
<1>1. last' = Nil /\ at' = treap /\ treap' = treap
  BY DEF Lock, links
<1> QED
  BY <1>1 DEF Route

LEMMA DequeueStarts ==
  ASSUME NEW sub, NEW line, Inv(sub, line), NEW a \in Addr, Dequeue(a)
  PROVE  Inv(sub, line)'
<1>1. /\ UNCHANGED <<links, lists, elem, ticket>> /\ pc = "unlocked" /\ pc' = "search"
      /\ call'.name = "dequeue" /\ call'.addr = a /\ call'.key = Masked(a)
      /\ at' = treap /\ last' = Nil /\ target' = target /\ targetPred' = targetPred
  BY DEF Dequeue, Lock
<1>2. \A s : ~ Arriving(s)
  BY <1>1 DEF Arriving
<1>3. /\ ReleasedClean' /\ Tree(sub, treap, prev, next, parent)' /\ Ordered(sub)'
      /\ Chained(line)' /\ Headed(sub, line)' /\ Waiting(line)'
  BY <1>1, <1>2, SameData
<1>4. Heaped(sub)'
  BY <1>1, SameHeap
<1>5. Route(sub)'
  BY <1>1, SearchStarts DEF Dequeue, links
<1>6. TypeOK'
  BY KeyFacts DEF Inv, TypeOK, Dequeue, Lock, links, lists
<1>7. Called(sub, line)'
  BY <1>1 DEF Called, DequeueCall
<1> QED
  BY <1>3, <1>4, <1>5, <1>6, <1>7 DEF Inv

LEMMA GcDequeueStarts ==
  ASSUME NEW sub, NEW line, Inv(sub, line), NEW s \in Sudog, NEW a \in Addr, GcDequeue(s, a)
  PROVE  Inv(sub, line)'
<1>1. /\ UNCHANGED <<links, lists, elem, ticket>> /\ pc = "unlocked" /\ pc' = "search"
      /\ call'.name = "gcDequeue" /\ call'.addr = a /\ call'.key = Masked(a) /\ call'.s = s
      /\ at' = treap /\ last' = Nil /\ target' = target /\ targetPred' = targetPred
      /\ elem[s] = Masked(a) /\ elem' = elem
  BY DEF GcDequeue, Lock
<1>2. \A q : ~ Arriving(q)
  BY <1>1 DEF Arriving
<1>3. /\ ReleasedClean' /\ Tree(sub, treap, prev, next, parent)' /\ Ordered(sub)'
      /\ Chained(line)' /\ Headed(sub, line)' /\ Waiting(line)'
  BY <1>1, <1>2, SameData
<1>4. Heaped(sub)'
  BY <1>1, SameHeap
<1>5. Route(sub)'
  BY <1>1, SearchStarts DEF GcDequeue, links
<1>6. TypeOK'
  BY KeyFacts DEF Inv, TypeOK, GcDequeue, Lock, links, lists, Pointer
<1>7. Called(sub, line)'
  BY <1>1 DEF Called, GcDequeueCall
<1> QED
  BY <1>3, <1>4, <1>5, <1>6, <1>7 DEF Inv

LEMMA SearchGoesOn ==
  ASSUME NEW sub, NEW line, Inv(sub, line), Search
  PROVE  Inv(sub, line)'
<1>1. /\ UNCHANGED <<links, lists, elem, ticket>> /\ pc = "search" /\ pc' = pc /\ call' = call
      /\ at # Nil /\ elem[at] # call.key /\ last' = at
      /\ at' = (IF call.key < elem[at] THEN prev[at] ELSE next[at])
      /\ target' = target /\ targetPred' = targetPred
      /\ treap' = treap /\ prev' = prev /\ next' = next /\ elem' = elem
  BY DEF Search, links
<1>2. /\ at \in sub[treap] /\ at \in Sudog /\ elem[at] \in Key /\ call.key \in Nat /\ elem[at] \in Nat
      /\ call.key < elem[at] \/ elem[at] < call.key
  <2>1. pc \in {"search", "walk"}
    BY <1>1
  <2>2. at \in sub[treap] /\ at \in Sudog /\ elem[at] \in Key /\ call.key \in Nat
    BY <2>1, <1>1, SearchAt
  <2>3. elem[at] \in Nat /\ elem[at] # call.key
    BY <2>2, <1>1, KeyFacts
  <2>4. \A i, j \in Nat : i # j => j < i \/ i < j
    OBVIOUS
  <2> QED
    BY <2>2, <2>3, <2>4
<1>3. /\ ReleasedClean' /\ Tree(sub, treap, prev, next, parent)' /\ Ordered(sub)'
      /\ Chained(line)' /\ Headed(sub, line)' /\ Waiting(line)'
  BY <1>1, SameData DEF Arriving
<1>4. Heaped(sub)'
  BY <1>1, SameHeap
<1>t. Tree(sub, treap, prev, next, parent) /\ Nil \notin Sudog
  BY KeyFacts DEF Inv
<1>n. Node(sub, treap, prev, next, parent, at)
  BY <1>2, <1>t, TreeNode
<1>5. Route(sub)'
  <2>1. ASSUME NEW n \in sub[treap]
        PROVE  /\ at \in sub[prev[n]] => call.key < elem[n]
               /\ at \in sub[next[n]] => elem[n] < call.key
    <3>1. CASE last = Nil
      <4>1. at = treap
        BY <3>1, <1>1 DEF Inv, Route
      <4> QED
        BY <4>1, <1>t, RootBelowNone
    <3>2. CASE last # Nil
      <4>1. /\ last \in sub[treap] /\ elem[last] # call.key /\ elem[last] \in Nat /\ call.key \in Nat
            /\ call.key < elem[last] => at = prev[last]
            /\ elem[last] < call.key => at = next[last]
            /\ last \in sub[prev[n]] => call.key < elem[n]
            /\ last \in sub[next[n]] => elem[n] < call.key
            /\ at \in {prev[last], next[last]}
        BY <3>2, <1>1, SearchAt, KeyFacts DEF Inv, Route
      <4>2. /\ at \in sub[prev[n]] => (n = last /\ at = prev[last]) \/ last \in sub[prev[n]]
            /\ at \in sub[next[n]] => (n = last /\ at = next[last]) \/ last \in sub[next[n]]
        BY <4>1, <1>t, <1>1, ChildBelow
      <4>3. prev[last] = next[last] => at = Nil
        BY <4>1, <1>t, TreeNode DEF Node
      <4>4. elem[last] < call.key \/ call.key < elem[last]
        BY <4>1
      <4> QED
        BY <4>1, <4>2, <4>3, <4>4, <1>1
    <3> QED
      BY <3>1, <3>2
  <2>2. ASSUME NEW m \in sub[treap], elem[m] = call.key PROVE m \in sub[at']
    <3>1. m \in sub[at] /\ m # at
      BY <2>2, <1>1 DEF Inv, Route
    <3>2. m \in sub[prev[at]] \/ m \in sub[next[at]]
      BY <3>1, <1>n DEF Node
    <3>3. /\ m \in sub[prev[at]] => elem[m] < elem[at]
          /\ m \in sub[next[at]] => elem[at] < elem[m]
      BY <1>2 DEF Inv, Ordered
    <3> QED
      BY <3>2, <3>3, <2>2, <1>1, <1>2
  <2>3. ~(call.key < elem[at] /\ elem[at] < call.key)
    BY <1>2
  <2> QED
    BY <2>1, <2>2, <2>3, <1>1, <1>2 DEF Route
<1>6. TypeOK'
  BY <1>1, <1>2, Types DEF Inv, TypeOK, links, lists
<1>7. Called(sub, line)'
  <2>1. Called(sub, line) /\ call.name # "none"
    BY <1>1 DEF Inv, Called
  <2>2. QueueCall(sub, line) => QueueCall(sub, line)'
    BY <1>1 DEF QueueCall, links, lists
  <2>3. DequeueCall(sub) => DequeueCall(sub)'
    BY <1>1 DEF DequeueCall
  <2>4. GcDequeueCall(sub, line) => GcDequeueCall(sub, line)'
    BY <1>1 DEF GcDequeueCall
  <2> QED
    BY <2>1, <2>2, <2>3, <2>4, <1>1 DEF Called
<1> QED
  BY <1>3, <1>4, <1>5, <1>6, <1>7 DEF Inv

LEMMA NothingBelowNil == \A sub, root, L, R, par : Tree(sub, root, L, R, par) => sub[Nil] = {}
BY DEF Tree

LEMMA PlainSearchStarts ==
  ASSUME NEW sub, NEW line, Inv(sub, line), SearchPlain
  PROVE  Inv(sub, line)'
<1>1. /\ UNCHANGED <<links, lists, elem, ticket>> /\ pc = "search" /\ pc' = pc /\ at = Nil
      /\ call.name = "dequeue" /\ call.key # call.addr /\ call' = [call EXCEPT !.key = call.addr]
      /\ at' = treap /\ last' = Nil /\ target' = target /\ targetPred' = targetPred
      /\ treap' = treap /\ elem' = elem
  BY DEF SearchPlain, NotFound, links
<1>2. \A s : ~ Arriving(s)
  BY <1>1 DEF Arriving
<1>3. /\ ReleasedClean' /\ Tree(sub, treap, prev, next, parent)' /\ Ordered(sub)'
      /\ Chained(line)' /\ Headed(sub, line)' /\ Waiting(line)'
  BY <1>1, <1>2, SameData
<1>4. Heaped(sub)'
  BY <1>1, SameHeap
<1>5. Route(sub)'
  BY <1>1 DEF Route
<1>6. call.addr \in Addr /\ call.key = Masked(call.addr) /\ call.addr \in Key
  BY <1>1, KeyFacts DEF Inv, Called
<1>7. TypeOK'
  BY <1>1, <1>6, Types DEF Inv, TypeOK, links, lists
<1>8. \A n \in sub[treap] : elem[n] # Masked(call.addr)
  BY <1>1, <1>6, NothingBelowNil DEF Inv, Route
<1>9. call'.name = "dequeue" /\ call'.addr = call.addr /\ call'.key = call.addr
  BY <1>1, Types DEF Inv, TypeOK
<1>10. Called(sub, line)'
  BY <1>1, <1>6, <1>8, <1>9 DEF Called, DequeueCall
<1> QED
  BY <1>3, <1>4, <1>5, <1>7, <1>10 DEF Inv

LEMMA UnlockTypes ==
  ASSUME TypeOK, Unlock,
         treap' \in Pointer, elem' \in [Sudog -> Key \cup {Nil}], ticket' \in [Sudog -> Tickets \cup {0}],
         prev' \in [Sudog -> Pointer], next' \in [Sudog -> Pointer], parent' \in [Sudog -> Pointer],
         waitlink' \in [Sudog -> Pointer], waittail' \in [Sudog -> Pointer]
  PROVE  TypeOK'
BY KeyFacts DEF TypeOK, Unlock, NoCall

LEMMA Unlocks ==
  ASSUME Unlock
  PROVE  /\ \A sub : Route(sub)'
         /\ \A sub, line : Called(sub, line)'
         /\ \A s : ~ Arriving(s)'
BY DEF Unlock, Route, Called, Arriving

LEMMA JustUnlocks ==
  ASSUME NEW sub, NEW line, Inv(sub, line), Queued \/ NobodyWaits
  PROVE  Inv(sub, line)'
<1>1. UNCHANGED <<links, lists, elem, ticket>> /\ Unlock
  BY DEF Queued, NobodyWaits
<1>2. \A s : ~ Arriving(s)
  BY DEF Arriving, Queued, NobodyWaits
<1>3. /\ ReleasedClean' /\ Tree(sub, treap, prev, next, parent)' /\ Ordered(sub)'
      /\ Chained(line)' /\ Headed(sub, line)' /\ Waiting(line)'
  BY <1>1, <1>2, SameData
<1>4. Heaped(sub)'
  <2>1. CASE NobodyWaits
    BY <2>1, <1>1, SameHeap DEF NobodyWaits, NotFound
  <2>2. CASE Queued
    <3>1. /\ pc = "up" /\ (parent[at] # Nil => ~(ticket[parent[at]] > ticket[at]))
      BY <2>2 DEF Queued, TooHigh
    <3>2. ASSUME NEW n \in sub[treap], NEW m \in sub[n] PROVE ticket[n] <= ticket[m]
      <4>0. n \in Sudog /\ n \in sub[n] /\ m \in Sudog /\ n # Nil
        BY KeyFacts, TreeNode DEF Inv, Tree, Node
      <4>1. \A q \in sub[n] : q # at => ticket[n] <= ticket[q]
        BY <3>1 DEF Inv, Heaped
      <4>2. CASE m # at
        BY <4>1, <4>2
      <4>3. CASE m = at /\ n = at
        <5>1. ticket[at] \in Nat
          BY <4>0, <4>3, Types DEF Inv
        <5> QED
          BY <4>3, <5>1
      <4>4. CASE m = at /\ n # at
        <5>1. parent[at] \in sub[n]
          BY <4>4 DEF Inv, Tree
        <5>2. sub[n] \subseteq Sudog /\ parent[at] \in Sudog /\ parent[at] # Nil
          BY <5>1, <4>0, KeyFacts DEF Inv, Tree, Pointer
        <5>3. parent[at] # at
          <6>1. at \in sub[treap] /\ at # treap
            <7>1. at \in sub[treap]
              BY <4>4, <4>0, KeyFacts, TreeNode DEF Inv, Node
            <7> QED
              BY <7>1, <5>2 DEF Inv, Tree
          <6>2. parent[at] \in sub[treap] /\ at \in {prev[parent[at]], next[parent[at]]}
            BY <6>1 DEF Inv, Tree
          <6>3. Node(sub, treap, prev, next, parent, parent[at])
            BY <6>2, KeyFacts, TreeNode DEF Inv
          <6> QED
            BY <6>2, <6>3, <4>0, <4>4, KeyFacts DEF Node
        <5>4. ticket[n] <= ticket[parent[at]] /\ ~(ticket[parent[at]] > ticket[at])
          BY <5>1, <5>2, <5>3, <4>1, <3>1
        <5>5. ticket[n] \in Nat /\ ticket[at] \in Nat /\ ticket[parent[at]] \in Nat
          BY <4>0, <4>4, <5>2, Types DEF Inv
        <5> QED
          BY <5>4, <5>5, <4>4
      <4> QED
        BY <4>2, <4>3, <4>4
    <3> QED
      BY <3>2, <1>1 DEF Heaped, links
  <2> QED
    BY <2>1, <2>2
<1>5. Route(sub)' /\ Called(sub, line)'
  BY <1>1, Unlocks
<1>6. TypeOK'
  BY <1>1, Types, UnlockTypes DEF Inv, links, lists
<1> QED
  BY <1>3, <1>4, <1>5, <1>6 DEF Inv

LEMMA LoneWaiterFound ==
  ASSUME NEW sub, NEW line, Inv(sub, line), LoneWaiter
  PROVE  Inv(sub, line)'
<1>1. /\ UNCHANGED <<links, lists, elem, ticket>> /\ pc = "search" /\ pc' = "down" /\ call' = call
      /\ UNCHANGED <<at, last, target, targetPred>>
      /\ at # Nil /\ elem[at] = call.key /\ waitlink[at] = Nil
      /\ call.name = "dequeue" \/ (call.name = "gcDequeue" /\ at = call.s)
      /\ treap' = treap /\ waitlink' = waitlink /\ elem' = elem
  BY DEF LoneWaiter, Found, links, lists, cursors
<1>2. \A s : ~ Arriving(s)
  BY <1>1 DEF Arriving
<1>3. /\ ReleasedClean' /\ Tree(sub, treap, prev, next, parent)' /\ Ordered(sub)'
      /\ Chained(line)' /\ Headed(sub, line)' /\ Waiting(line)'
  BY <1>1, <1>2, SameData
<1>4. Heaped(sub)'
  BY <1>1, SameHeap
<1>5. Route(sub)'
  BY <1>1 DEF Route
<1>6. TypeOK'
  BY <1>1, Types DEF Inv, TypeOK, links, lists
<1>7. at \in sub[treap]
  <2>1. pc \in {"search", "walk"}
    BY <1>1
  <2> QED
    BY <2>1, <1>1, SearchAt
<1>8. Called(sub, line)'
  <2>1. Called(sub, line)
    BY DEF Inv
  <2> QED
    BY <2>1, <1>1, <1>7 DEF Called, DequeueCall, GcDequeueCall
<1> QED
  BY <1>3, <1>4, <1>5, <1>6, <1>8 DEF Inv

LEMMA WalkStarts ==
  ASSUME NEW sub, NEW line, Inv(sub, line), WalkList
  PROVE  Inv(sub, line)'
<1>1. /\ UNCHANGED <<links, lists, elem, ticket>> /\ pc = "search" /\ pc' = "walk" /\ call' = call
      /\ UNCHANGED <<at, last, targetPred>> /\ target' = at
      /\ at # Nil /\ elem[at] = call.key /\ waitlink[at] # Nil /\ call.name = "gcDequeue"
      /\ treap' = treap /\ waitlink' = waitlink /\ elem' = elem /\ prev' = prev /\ next' = next
  BY DEF WalkList, Found, links, lists
<1>2. \A s : ~ Arriving(s)
  BY <1>1 DEF Arriving
<1>3. /\ ReleasedClean' /\ Tree(sub, treap, prev, next, parent)' /\ Ordered(sub)'
      /\ Chained(line)' /\ Headed(sub, line)' /\ Waiting(line)'
  BY <1>1, <1>2, SameData
<1>4. Heaped(sub)'
  BY <1>1, SameHeap
<1>5. Route(sub)'
  BY <1>1 DEF Inv, Route
<1>6. TypeOK'
  BY <1>1, Types DEF Inv, TypeOK, links, lists
<1>7. at \in sub[treap] /\ at \in Sudog /\ call.key \in Key
  <2>1. pc \in {"search", "walk"}
    BY <1>1
  <2> QED
    BY <2>1, <1>1, SearchAt
<1>8. /\ call.s \in Sudog /\ elem[call.s] = call.key /\ call.key = Masked(call.addr)
      /\ call.addr \in Addr /\ call.key \in {call.addr, Masked(call.addr)}
  BY <1>1 DEF Inv, Called, GcDequeueCall
<1>9. Walk(sub, line)'
  <2>1. line[call.key] \in Seq(Sudog) /\ line[call.key] # <<>> /\ line[call.key][1] = at
    BY <1>1, <1>7 DEF Inv, Headed, Chained, Chain
  <2>2. PICK j \in 1 .. Len(line[call.key]) : line[call.key][j] = call.s
    BY <1>2, <1>7, <1>8, KeyFacts DEF Inv, Waiting
  <2>3. 1 \in 1 .. Len(line[call.key]) /\ 1 <= j
    BY <2>1, <2>2
  <2> QED
    BY <2>1, <2>2, <2>3, <1>1, <1>7 DEF Walk
<1>10. Called(sub, line)'
  BY <1>1, <1>8, <1>9 DEF Called, GcDequeueCall
<1> QED
  BY <1>3, <1>4, <1>5, <1>6, <1>10 DEF Inv

LEMMA WalkGoesOn ==
  ASSUME NEW sub, NEW line, Inv(sub, line), WalkOn
  PROVE  Inv(sub, line)'
<1>1. /\ UNCHANGED <<links, lists, elem, ticket>> /\ pc = "walk" /\ pc' = pc /\ call' = call
      /\ UNCHANGED <<at, last>> /\ targetPred' = target /\ target' = waitlink[target]
      /\ target # Nil /\ target # call.s
      /\ treap' = treap /\ waitlink' = waitlink /\ elem' = elem /\ prev' = prev /\ next' = next
  BY DEF WalkOn, links, lists
<1>2. \A s : ~ Arriving(s)
  BY <1>1 DEF Arriving
<1>3. /\ ReleasedClean' /\ Tree(sub, treap, prev, next, parent)' /\ Ordered(sub)'
      /\ Chained(line)' /\ Headed(sub, line)' /\ Waiting(line)'
  BY <1>1, <1>2, SameData
<1>4. Heaped(sub)'
  BY <1>1, SameHeap
<1>5. Route(sub)'
  BY <1>1 DEF Inv, Route
<1>6. TypeOK'
  <2>1. target \in Sudog /\ waitlink[target] \in Pointer
    BY <1>1, Types DEF Inv, Pointer
  <2> QED
    BY <1>1, <2>1, Types DEF Inv, TypeOK, links, lists
<1>7. Walk(sub, line) /\ GcDequeueCall(sub, line) /\ call.addr \in Addr /\ call.name = "gcDequeue"
      /\ call.key \in {call.addr, Masked(call.addr)}
  BY <1>1 DEF Inv, Called, Walk
<1>8. call.key \in Key /\ line[call.key] \in Seq(Sudog)
  <2>1. call.key \in Key
    BY <1>7, KeyFacts
  <2> QED
    BY <2>1 DEF Inv, Chained, Chain
<1>9. Walk(sub, line)'
  <2>1. PICK i, j \in 1 .. Len(line[call.key]) :
          i <= j /\ target = line[call.key][i] /\ call.s = line[call.key][j]
    BY <1>7 DEF Walk
  <2>2. i # j
    BY <2>1, <1>1
  <2>3. i + 1 \in 1 .. Len(line[call.key]) /\ i + 1 <= j /\ i # Len(line[call.key]) /\ (i + 1) - 1 = i
    BY <2>1, <2>2, <1>8
  <2>4. waitlink[target] = line[call.key][i + 1]
    BY <2>1, <2>3, <1>8 DEF Inv, Chained, Chain
  <2> QED
    BY <2>1, <2>3, <2>4, <1>1, <1>7 DEF Walk
<1>10. Called(sub, line)'
  BY <1>1, <1>7, <1>9 DEF Called, GcDequeueCall
<1> QED
  BY <1>3, <1>4, <1>5, <1>6, <1>10 DEF Inv

LEMMA QueueStarts ==
  ASSUME NEW sub, NEW line, Inv(sub, line), NEW s \in Sudog, NEW a \in Addr,
         NEW lifo \in BOOLEAN, NEW isSync \in BOOLEAN, Queue(s, a, lifo, isSync)
  PROVE  Inv(sub, line)'
<1> DEFINE k == KeyOf(a, isSync)
<1>0. k \in Key /\ k \in {a, Masked(a)}
  BY KeyFacts DEF KeyOf
<1>1. /\ elem[s] = Nil /\ elem' = [elem EXCEPT ![s] = k]
      /\ next' = [next EXCEPT ![s] = Nil] /\ prev' = [prev EXCEPT ![s] = Nil]
      /\ treap' = treap /\ parent' = parent /\ waitlink' = waitlink /\ waittail' = waittail /\ ticket' = ticket
      /\ pc = "unlocked" /\ pc' = "search"
      /\ call' = [name |-> "queue", s |-> s, addr |-> a, key |-> k, lifo |-> lifo]
      /\ at' = treap /\ last' = Nil /\ target' = target /\ targetPred' = targetPred
  BY DEF Queue, Lock, lists
<1> HIDE DEF k
<1>2. /\ prev[s] = Nil /\ next[s] = Nil /\ parent[s] = Nil /\ waitlink[s] = Nil /\ ticket[s] = 0
      /\ waittail[s] \in {Nil, s}
  BY <1>1 DEF Inv, ReleasedClean
<1>3. prev' = prev /\ next' = next
  BY <1>1, <1>2, Types DEF Inv
<1>4. /\ elem' \in [Sudog -> Key \cup {Nil}] /\ elem'[s] = k
      /\ \A q \in Sudog : q # s => elem'[q] = elem[q]
  BY <1>0, <1>1, Types DEF Inv
<1>5. s \notin sub[treap]
  BY <1>1, KeyFacts DEF Inv, Ordered
<1>6. \A n \in sub[treap] : elem'[n] = elem[n] /\ n \in Sudog
  BY <1>4, <1>5 DEF Inv, Tree
<1>7. Tree(sub, treap, prev, next, parent)'
  BY <1>1, <1>3 DEF Inv
<1>8. Ordered(sub)'
  <2>1. \A n \in sub[treap] : sub[prev[n]] \subseteq sub[treap] /\ sub[next[n]] \subseteq sub[treap]
    BY KeyFacts, TreeNode DEF Inv, Node
  <2> QED
    BY <2>1, <1>1, <1>3, <1>6 DEF Inv, Ordered
<1>9. ReleasedClean'
  BY <1>0, <1>1, <1>3, <1>4, KeyFacts DEF Inv, ReleasedClean
<1>10. \A j \in Key : \A i \in 1 .. Len(line[j]) : line[j][i] \in Sudog /\ line[j][i] # s
  BY <1>1, KeyFacts DEF Inv, Chained, Chain
<1>11. Chained(line)'
  BY <1>1, <1>4, <1>10 DEF Inv, Chained, Chain
<1>12. Headed(sub, line)'
  BY <1>1, <1>6 DEF Inv, Headed
<1>13. Waiting(line)'
  <2>1. ASSUME NEW q \in Sudog, q # s, elem[q] # Nil
        PROVE  \E i \in 1 .. Len(line[elem[q]]) : line[elem[q]][i] = q
    BY <2>1, <1>1 DEF Inv, Waiting, Arriving
  <2>2. Arriving(s)'
    BY <1>1 DEF Arriving
  <2> QED
    BY <2>1, <2>2, <1>4 DEF Waiting
<1>14. Heaped(sub)'
  BY <1>1 DEF Inv, Heaped
<1>15. Route(sub)'
  BY <1>1 DEF Route
<1>16. TypeOK'
  BY <1>0, <1>1, <1>3, <1>4, Types DEF Inv, TypeOK, Pointer
<1>17. Called(sub, line)'
  <2>1. call'.name = "queue" /\ call'.s = s /\ call'.key = k /\ call'.addr = a
    BY <1>1
  <2>2. QueueCall(sub, line)'
    BY <2>1, <1>0, <1>1, <1>2, <1>3, <1>4, <1>5, <1>10 DEF QueueCall
  <2> QED
    BY <2>1, <2>2, <1>0, <1>1 DEF Called
<1> QED
  BY <1>7, <1>8, <1>9, <1>11, <1>12, <1>13, <1>14, <1>15, <1>16, <1>17 DEF Inv

(* y, a child of x, takes the place of x and x goes below y. *)
Turned(sub, sub2, x, y) ==
  /\ treap' \in Pointer /\ prev' \in [Sudog -> Pointer] /\ next' \in [Sudog -> Pointer]
  /\ parent' \in [Sudog -> Pointer]
  /\ Tree(sub2, treap, prev, next, parent)' /\ Ordered(sub2)' /\ sub2[treap'] = sub[treap]
  /\ sub2[y] = sub[x] /\ sub2[x] \subseteq sub[x] /\ y \notin sub2[x]
  /\ \A n \in sub[treap] : n \notin {x, y} => sub2[n] = sub[n]
  /\ \A q \in Sudog : q \notin sub[treap] => prev'[q] = prev[q] /\ next'[q] = next[q]

LEMMA ParentLink ==
  ASSUME NEW sub, NEW root, NEW L, NEW R, NEW par, Tree(sub, root, L, R, par), Nil \notin Sudog,
         NEW x \in sub[root]
  PROVE  \A q \in Sudog : q = par[x] => (L[q] = x <=> R[q] # x)
<1>1. SUFFICES ASSUME par[x] \in Sudog PROVE L[par[x]] = x <=> R[par[x]] # x
  OBVIOUS
<1>2. x # root /\ x # Nil
  BY <1>1 DEF Tree
<1>3. par[x] \in sub[root] /\ x \in {L[par[x]], R[par[x]]}
  BY <1>2 DEF Tree
<1>4. Node(sub, root, L, R, par, par[x])
  BY <1>3, TreeNode
<1> QED
  BY <1>2, <1>3, <1>4 DEF Node

LEMMA RotateLeftTurns ==
  ASSUME NEW sub, NEW line, Inv(sub, line), NEW x \in sub[treap], NEW y, y = next[x], y # Nil,
         RotateLeft(x), elem' = elem
  PROVE  \E sub2 : Turned(sub, sub2, x, y)
<1>1. Tree(sub, treap, prev, next, parent) /\ Nil \notin Sudog
  BY KeyFacts DEF Inv
<1>2. PICK p : p = parent[x]
  OBVIOUS
<1>3. PICK b : b = prev[y]
  OBVIOUS
<1>4. /\ x \in Sudog /\ p \in Pointer /\ y \in Sudog /\ b \in Pointer /\ y \in sub[treap]
  <2>1. Node(sub, treap, prev, next, parent, x) /\ prev \in [Sudog -> Pointer]
    BY <1>1, TreeNode DEF Tree
  <2> QED
    BY <2>1, <1>2, <1>3 DEF Node
<1>5. /\ treap' = IF p = Nil THEN y ELSE treap
      /\ prev' = [q \in Sudog |-> IF q = y THEN x ELSE IF q = p /\ prev[q] = x THEN y ELSE prev[q]]
      /\ next' = [q \in Sudog |-> IF q = x THEN b ELSE IF q = p /\ prev[q] # x THEN y ELSE next[q]]
      /\ parent' = [q \in Sudog |-> IF q = x THEN y ELSE IF q = y THEN p
                                    ELSE IF q = b THEN x ELSE parent[q]]
  BY <1>2, <1>3 DEF RotateLeft
<1>6. treap' \in Pointer /\ treap' = IF p = Nil THEN y ELSE treap
  BY <1>4, <1>5, Types DEF Inv, Pointer
<1>7. /\ prev' \in [Sudog -> Pointer]
      /\ \A q \in Sudog : prev'[q] = IF q = y THEN x ELSE IF q = p /\ prev[q] = x THEN y ELSE prev[q]
  BY <1>4, <1>5, Types DEF Inv, Pointer
<1>8. /\ next' \in [Sudog -> Pointer]
      /\ \A q \in Sudog : next'[q] = IF q = x THEN b ELSE IF q = p /\ next[q] = x THEN y ELSE next[q]
  <2>1. \A q \in Sudog : q = p => (prev[q] = x <=> next[q] # x)
    BY <1>1, <1>2, ParentLink
  <2> QED
    BY <2>1, <1>4, <1>5, Types DEF Inv, Pointer
<1>9. /\ parent' \in [Sudog -> Pointer]
      /\ \A q \in Sudog : parent'[q] = IF q = x THEN y ELSE IF q = y THEN p ELSE IF q = b THEN x ELSE parent[q]
  BY <1>4, <1>5, Types DEF Inv, Pointer
<1>10. Turn(treap, prev, next, parent, x, treap', prev', next', parent')
  BY <1>2, <1>3, <1>6, <1>7, <1>8, <1>9 DEF Turn
<1>x. PICK sub2 : Rotated(sub, treap, prev, next, x, sub2, treap', prev', next', parent')
  BY <1>1, <1>10, Rotation
<1>11. /\ Tree(sub2, treap, prev, next, parent)' /\ sub2[treap'] = sub[treap]
       /\ \A n \in sub[treap] : n \notin {x, y} =>
            sub2[n] = sub[n] /\ sub2[prev'[n]] = sub[prev[n]] /\ sub2[next'[n]] = sub[next[n]]
       /\ sub2[y] = sub[x] /\ sub2[prev'[y]] = sub2[x] /\ sub2[next'[y]] = sub[next[y]]
       /\ sub2[x] = {x} \cup sub[prev[x]] \cup sub[b] /\ sub2[prev'[x]] = sub[prev[x]] /\ sub2[next'[x]] = sub[b]
  BY <1>x, <1>3 DEF Rotated
<1>12. Ordered(sub2)'
  <2>1. ASSUME NEW n \in sub[treap]
        PROVE  /\ elem[n] \in Key /\ elem[n] \in Nat /\ n \in Sudog
               /\ \A m \in sub[prev[n]] : elem[m] \in Nat /\ elem[m] < elem[n]
               /\ \A m \in sub[next[n]] : elem[m] \in Nat /\ elem[n] < elem[m]
    <3>1. sub[prev[n]] \subseteq sub[treap] /\ sub[next[n]] \subseteq sub[treap] /\ n \in Sudog
      BY <1>1, TreeNode DEF Node
    <3>2. \A m \in sub[treap] : elem[m] \in Key /\ elem[m] \in Nat
      BY KeyFacts DEF Inv, Ordered
    <3> QED
      BY <3>1, <3>2 DEF Inv, Ordered
  <2>2. /\ y \in sub[next[x]] /\ sub[b] \subseteq sub[next[x]]
    <3>1. Node(sub, treap, prev, next, parent, x) /\ Node(sub, treap, prev, next, parent, y)
      BY <1>1, <1>4, TreeNode
    <3> QED
      BY <3>1, <1>3 DEF Node
  <2>3. ASSUME NEW n \in sub[treap]
        PROVE  /\ \A m \in sub2[prev'[n]] : elem[m] < elem[n]
               /\ \A m \in sub2[next'[n]] : elem[n] < elem[m]
    <3>1. CASE n = x
      <4>1. \A m \in sub[b] : elem[x] < elem[m]
        BY <2>1, <2>2
      <4> QED
        BY <3>1, <4>1, <2>1, <1>11
    <3>2. CASE n = y
      <4>1. ASSUME NEW m \in sub2[x] PROVE elem[m] < elem[y]
        <5>1. elem[x] < elem[y] /\ elem[x] \in Nat /\ elem[y] \in Nat
          BY <2>1, <2>2, <1>4
        <5>2. CASE m = x
          BY <5>1, <5>2
        <5>3. CASE m \in sub[prev[x]]
          <6>1. elem[m] < elem[x] /\ elem[m] \in Nat
            BY <5>3, <2>1
          <6> QED
            BY <6>1, <5>1
        <5>4. CASE m \in sub[b]
          BY <5>4, <2>1, <1>3, <1>4
        <5> QED
          BY <5>2, <5>3, <5>4, <1>11
      <4> QED
        BY <3>2, <4>1, <2>1, <1>11
    <3>3. CASE n \notin {x, y}
      BY <3>3, <2>1, <1>11
    <3> QED
      BY <3>1, <3>2, <3>3
  <2> QED
    BY <2>1, <2>3, <1>11 DEF Ordered
<1>13. sub2[x] \subseteq sub[x] /\ y \notin sub2[x]
  <2>1. Node(sub, treap, prev, next, parent, x) /\ Node(sub, treap, prev, next, parent, y)
    BY <1>1, <1>4, TreeNode
  <2> QED
    BY <2>1, <1>3, <1>11 DEF Node
<1>14. ASSUME NEW q \in Sudog, q \notin sub[treap]
       PROVE  prev'[q] = prev[q] /\ next'[q] = next[q]
  <2>1. q # x /\ q # y /\ q # p
    BY <1>1, <1>2, <1>4, <1>14 DEF Tree
  <2> QED
    BY <2>1, <1>7, <1>8
<1> QED
  BY <1>6, <1>7, <1>8, <1>9, <1>11, <1>12, <1>13, <1>14 DEF Turned

LEMMA RotateRightTurns ==
  ASSUME NEW sub, NEW line, Inv(sub, line), NEW x \in sub[treap], NEW y, y = prev[x], y # Nil,
         RotateRight(x), elem' = elem
  PROVE  \E sub2 : Turned(sub, sub2, x, y)
<1>1. Tree(sub, treap, prev, next, parent) /\ Tree(sub, treap, next, prev, parent) /\ Nil \notin Sudog
  BY KeyFacts, TreeTwoSided DEF Inv
<1>2. PICK p : p = parent[x]
  OBVIOUS
<1>3. PICK b : b = next[y]
  OBVIOUS
<1>4. /\ x \in Sudog /\ p \in Pointer /\ y \in Sudog /\ b \in Pointer /\ y \in sub[treap]
  <2>1. Node(sub, treap, prev, next, parent, x) /\ next \in [Sudog -> Pointer]
    BY <1>1, TreeNode DEF Tree
  <2> QED
    BY <2>1, <1>2, <1>3 DEF Node
<1>5. /\ treap' = IF p = Nil THEN y ELSE treap
      /\ prev' = [q \in Sudog |-> IF q = x THEN b ELSE IF q = p /\ prev[q] = x THEN y ELSE prev[q]]
      /\ next' = [q \in Sudog |-> IF q = y THEN x ELSE IF q = p /\ prev[q] # x THEN y ELSE next[q]]
      /\ parent' = [q \in Sudog |-> IF q = x THEN y ELSE IF q = y THEN p
                                    ELSE IF q = b THEN x ELSE parent[q]]
  BY <1>2, <1>3 DEF RotateRight
<1>6. treap' \in Pointer /\ treap' = IF p = Nil THEN y ELSE treap
  BY <1>4, <1>5, Types DEF Inv, Pointer
<1>7. /\ next' \in [Sudog -> Pointer]
      /\ \A q \in Sudog : next'[q] = IF q = y THEN x ELSE IF q = p /\ next[q] = x THEN y ELSE next[q]
  <2>1. \A q \in Sudog : q = p => (prev[q] = x <=> next[q] # x)
    BY <1>1, <1>2, ParentLink
  <2> QED
    BY <2>1, <1>4, <1>5, Types DEF Inv, Pointer
<1>8. /\ prev' \in [Sudog -> Pointer]
      /\ \A q \in Sudog : prev'[q] = IF q = x THEN b ELSE IF q = p /\ prev[q] = x THEN y ELSE prev[q]
  BY <1>4, <1>5, Types DEF Inv, Pointer
<1>9. /\ parent' \in [Sudog -> Pointer]
      /\ \A q \in Sudog : parent'[q] = IF q = x THEN y ELSE IF q = y THEN p ELSE IF q = b THEN x ELSE parent[q]
  BY <1>4, <1>5, Types DEF Inv, Pointer
<1>10. Turn(treap, next, prev, parent, x, treap', next', prev', parent')
  BY <1>2, <1>3, <1>6, <1>7, <1>8, <1>9 DEF Turn
<1>x. PICK sub2 : Rotated(sub, treap, next, prev, x, sub2, treap', next', prev', parent')
  BY <1>1, <1>10, Rotation
<1>11. /\ Tree(sub2, treap, prev, next, parent)' /\ sub2[treap'] = sub[treap]
       /\ \A n \in sub[treap] : n \notin {x, y} =>
            sub2[n] = sub[n] /\ sub2[next'[n]] = sub[next[n]] /\ sub2[prev'[n]] = sub[prev[n]]
       /\ sub2[y] = sub[x] /\ sub2[next'[y]] = sub2[x] /\ sub2[prev'[y]] = sub[prev[y]]
       /\ sub2[x] = {x} \cup sub[next[x]] \cup sub[b] /\ sub2[next'[x]] = sub[next[x]] /\ sub2[prev'[x]] = sub[b]
  BY <1>x, <1>3, TreeTwoSided DEF Rotated
<1>12. Ordered(sub2)'
  <2>1. ASSUME NEW n \in sub[treap]
        PROVE  /\ elem[n] \in Key /\ elem[n] \in Nat /\ n \in Sudog
               /\ \A m \in sub[prev[n]] : elem[m] \in Nat /\ elem[m] < elem[n]
               /\ \A m \in sub[next[n]] : elem[m] \in Nat /\ elem[n] < elem[m]
    <3>1. sub[prev[n]] \subseteq sub[treap] /\ sub[next[n]] \subseteq sub[treap] /\ n \in Sudog
      BY <1>1, TreeNode DEF Node
    <3>2. \A m \in sub[treap] : elem[m] \in Key /\ elem[m] \in Nat
      BY KeyFacts DEF Inv, Ordered
    <3> QED
      BY <3>1, <3>2 DEF Inv, Ordered
  <2>2. /\ y \in sub[prev[x]] /\ sub[b] \subseteq sub[prev[x]]
    <3>1. Node(sub, treap, prev, next, parent, x) /\ Node(sub, treap, prev, next, parent, y)
      BY <1>1, <1>4, TreeNode
    <3> QED
      BY <3>1, <1>3 DEF Node
  <2>3. ASSUME NEW n \in sub[treap]
        PROVE  /\ \A m \in sub2[prev'[n]] : elem[m] < elem[n]
               /\ \A m \in sub2[next'[n]] : elem[n] < elem[m]
    <3>1. CASE n = x
      <4>1. \A m \in sub[b] : elem[m] < elem[x]
        BY <2>1, <2>2
      <4> QED
        BY <3>1, <4>1, <2>1, <1>11
    <3>2. CASE n = y
      <4>1. ASSUME NEW m \in sub2[x] PROVE elem[y] < elem[m]
        <5>1. elem[y] < elem[x] /\ elem[x] \in Nat /\ elem[y] \in Nat
          BY <2>1, <2>2, <1>4
        <5>2. CASE m = x
          BY <5>1, <5>2
        <5>3. CASE m \in sub[next[x]]
          <6>1. elem[x] < elem[m] /\ elem[m] \in Nat
            BY <5>3, <2>1
          <6> QED
            BY <6>1, <5>1
        <5>4. CASE m \in sub[b]
          BY <5>4, <2>1, <1>3, <1>4
        <5> QED
          BY <5>2, <5>3, <5>4, <1>11
      <4> QED
        BY <3>2, <4>1, <2>1, <1>11
    <3>3. CASE n \notin {x, y}
      BY <3>3, <2>1, <1>11
    <3> QED
      BY <3>1, <3>2, <3>3
  <2> QED
    BY <2>1, <2>3, <1>11 DEF Ordered
<1>13. sub2[x] \subseteq sub[x] /\ y \notin sub2[x]
  <2>1. Node(sub, treap, next, prev, parent, x) /\ Node(sub, treap, next, prev, parent, y)
    BY <1>1, <1>4, TreeNode
  <2> QED
    BY <2>1, <1>3, <1>11 DEF Node
<1>14. ASSUME NEW q \in Sudog, q \notin sub[treap]
       PROVE  prev'[q] = prev[q] /\ next'[q] = next[q]
  <2>1. q # x /\ q # y /\ q # p
    BY <1>1, <1>2, <1>4, <1>14 DEF Tree
  <2> QED
    BY <2>1, <1>7, <1>8
<1> QED
  BY <1>6, <1>7, <1>8, <1>9, <1>11, <1>12, <1>13, <1>14 DEF Turned

LEMMA TurnKeeps ==
  ASSUME NEW sub, NEW line, Inv(sub, line), NEW sub2, NEW x, NEW y, Turned(sub, sub2, x, y),
         UNCHANGED <<lists, elem, ticket, pc, call, cursors>>, pc \in {"up", "down"}, Heaped(sub2)'
  PROVE  Inv(sub2, line)'
<1>1. /\ waitlink' = waitlink /\ waittail' = waittail /\ elem' = elem /\ ticket' = ticket
      /\ pc' = pc /\ call' = call /\ at' = at /\ last' = last /\ target' = target /\ targetPred' = targetPred
  BY DEF lists, cursors
<1>2. sub2[treap'] = sub[treap] /\ Tree(sub2, treap, prev, next, parent)' /\ Ordered(sub2)'
  BY DEF Turned
<1>3. TypeOK'
  BY <1>1, Types DEF Inv, TypeOK, Turned
<1>4. ReleasedClean'
  <2>1. ASSUME NEW s \in Sudog, elem[s] = Nil
        PROVE  s \notin sub[treap]
    BY <2>1, KeyFacts DEF Inv, Ordered
  <2>2. ASSUME NEW s \in Sudog, elem[s] = Nil
        PROVE  prev'[s] = prev[s] /\ next'[s] = next[s] /\ parent'[s] = Nil
    <3>1. s \notin sub[treap]
      BY <2>1, <2>2
    <3> QED
      BY <3>1, <1>2 DEF Turned, Tree
  <2> QED
    BY <2>2, <1>1 DEF Inv, ReleasedClean
<1>5. Chained(line)'
  BY <1>1 DEF Inv, Chained, Chain
<1>6. Headed(sub2, line)'
  BY <1>1, <1>2 DEF Inv, Headed
<1>7. Waiting(line)'
  BY <1>1 DEF Inv, Waiting, Arriving
<1>8. Route(sub2)'
  BY <1>1 DEF Route
<1>9. Called(sub2, line)'
  BY <1>1, <1>2 DEF Inv, Called, QueueCall, DequeueCall, GcDequeueCall
<1> QED
  BY <1>2, <1>3, <1>4, <1>5, <1>6, <1>7, <1>8, <1>9 DEF Inv

LEMMA RotateUpKeeps ==
  ASSUME NEW sub, NEW line, Inv(sub, line), RotateUp
  PROVE  \E sub2 : Inv(sub2, line)'
<1>1. /\ pc = "up" /\ parent[at] # Nil /\ ticket[parent[at]] > ticket[at]
      /\ UNCHANGED <<lists, elem, ticket, pc, call, cursors>>
  BY DEF RotateUp, TooHigh
<1>2. PICK p : p = parent[at]
  OBVIOUS
<1>3. IF prev[p] = at THEN RotateRight(p) ELSE RotateLeft(p)
  BY <1>2 DEF RotateUp
<1>4. at \in sub[treap]
  <2>1. call.name = "queue"
    BY <1>1 DEF Inv, Called
  <2> QED
    BY <2>1, <1>1 DEF Inv, Called, QueueCall
<1>5. p \in sub[treap] /\ at \in {prev[p], next[p]} /\ at # Nil
  BY <1>1, <1>2, <1>4, KeyFacts DEF Inv, Tree
<1>6. PICK sub2 : Turned(sub, sub2, p, at)
  <2>1. CASE prev[p] = at
    BY <2>1, <1>1, <1>3, <1>5, RotateRightTurns
  <2>2. CASE prev[p] # at
    BY <2>2, <1>1, <1>3, <1>5, RotateLeftTurns
  <2> QED
    BY <2>1, <2>2
<1>7. Heaped(sub2)'
  <2>1. /\ sub2[treap'] = sub[treap] /\ sub2[at] = sub[p] /\ sub2[p] \subseteq sub[p]
        /\ \A n \in sub[treap] : n \notin {p, at} => sub2[n] = sub[n]
        /\ ticket' = ticket /\ at' = at /\ pc' = "up"
    BY <1>1, <1>6 DEF Turned, cursors
  <2>2. \A n \in sub[treap] : \A m \in sub[n] : m # at => ticket[n] <= ticket[m]
    BY <1>1 DEF Inv, Heaped
  <2>3. \A n \in sub[treap] : n \in Sudog /\ ticket[n] \in Nat
    <3>1. \A n \in sub[treap] : n \in Sudog
      BY DEF Inv, Tree
    <3> QED
      BY <3>1, Types DEF Inv
  <2>4. ASSUME NEW m \in sub[p], m # at PROVE ticket[at] <= ticket[m]
    <3>1. ticket[p] <= ticket[m] /\ ticket[at] < ticket[p]
      BY <2>2, <2>4, <1>1, <1>2, <1>5
    <3>2. m \in sub[treap]
      BY <1>5, KeyFacts, TreeNode DEF Inv, Node
    <3>3. ticket[p] \in Nat /\ ticket[m] \in Nat /\ ticket[at] \in Nat
      BY <2>3, <3>2, <1>4, <1>5
    <3> QED
      BY <3>1, <3>3
  <2>5. ASSUME NEW n \in sub[treap], NEW m \in sub2[n], m # at PROVE ticket[n] <= ticket[m]
    <3>1. CASE n = at
      BY <3>1, <2>1, <2>4, <2>5
    <3>2. CASE n # at
      BY <3>2, <2>1, <2>2, <2>5
    <3> QED
      BY <3>1, <3>2
  <2> QED
    BY <2>1, <2>5 DEF Heaped
<1> QED
  BY <1>1, <1>6, <1>7, TurnKeeps

LEMMA RotateDownKeeps ==
  ASSUME NEW sub, NEW line, Inv(sub, line), RotateDown
  PROVE  \E sub2 : Inv(sub2, line)'
<1>1. /\ pc = "down" /\ {prev[at], next[at]} # {Nil}
      /\ IF next[at] = Nil \/ (prev[at] # Nil /\ ticket[prev[at]] < ticket[next[at]])
         THEN RotateRight(at) ELSE RotateLeft(at)
      /\ UNCHANGED <<lists, elem, ticket, pc, call, cursors>>
  BY DEF RotateDown
<1>2. at \in sub[treap]
  BY <1>1 DEF Inv, Called
<1>3. Node(sub, treap, prev, next, parent, at)
  BY <1>2, KeyFacts, TreeNode DEF Inv
<1>n. \A n \in sub[treap] : n \in Sudog /\ ticket[n] \in Nat
  <2>1. \A n \in sub[treap] : n \in Sudog
    BY DEF Inv, Tree
  <2> QED
    BY <2>1, Types DEF Inv
<1>4. PICK y : /\ y \in {prev[at], next[at]} /\ y # Nil /\ \E sub2 : Turned(sub, sub2, at, y)
               /\ \A z \in {prev[at], next[at]} : z # Nil => ticket[y] <= ticket[z]
  <2>1. CASE next[at] = Nil \/ (prev[at] # Nil /\ ticket[prev[at]] < ticket[next[at]])
    <3>1. prev[at] # Nil
      BY <2>1, <1>1
    <3>2. \E sub2 : Turned(sub, sub2, at, prev[at])
      BY <2>1, <3>1, <1>1, <1>2, RotateRightTurns
    <3>3. ticket[prev[at]] \in Nat /\ (next[at] # Nil => ticket[next[at]] \in Nat)
      BY <3>1, <1>3, <1>n DEF Node
    <3>4. \A z \in {prev[at], next[at]} : z # Nil => ticket[prev[at]] <= ticket[z]
      BY <2>1, <3>3
    <3> QED
      BY <3>1, <3>2, <3>4
  <2>2. CASE ~(next[at] = Nil \/ (prev[at] # Nil /\ ticket[prev[at]] < ticket[next[at]]))
    <3>2. \E sub2 : Turned(sub, sub2, at, next[at])
      BY <2>2, <1>1, <1>2, RotateLeftTurns
    <3>3. ticket[next[at]] \in Nat /\ (prev[at] # Nil => ticket[prev[at]] \in Nat)
      BY <2>2, <1>3, <1>n DEF Node
    <3>4. \A z \in {prev[at], next[at]} : z # Nil => ticket[next[at]] <= ticket[z]
      BY <2>2, <3>3
    <3> QED
      BY <2>2, <3>2, <3>4
  <2> QED
    BY <2>1, <2>2
<1>6. PICK sub2 : Turned(sub, sub2, at, y)
  BY <1>4
<1>7. Heaped(sub2)'
  <2>1. /\ sub2[treap'] = sub[treap] /\ sub2[y] = sub[at] /\ sub2[at] \subseteq sub[at]
        /\ \A n \in sub[treap] : n \notin {at, y} => sub2[n] = sub[n]
        /\ ticket' = ticket /\ at' = at /\ pc' = "down"
    BY <1>1, <1>6 DEF Turned, cursors
  <2>2. \A n \in sub[treap] : \A m \in sub[n] : m # at => ticket[n] <= ticket[m]
    BY <1>1 DEF Inv, Heaped
  <2>4. ASSUME NEW m \in sub[at], m # at PROVE ticket[y] <= ticket[m]
    <3>1. PICK z \in {prev[at], next[at]} : m \in sub[z]
      BY <2>4, <1>3 DEF Node
    <3>2. z # Nil
      BY <3>1, NothingBelowNil DEF Inv
    <3>3. z \in sub[treap] /\ m \in sub[treap] /\ y \in sub[treap]
      BY <3>1, <3>2, <1>3, <1>4 DEF Node
    <3>4. ticket[y] <= ticket[z] /\ ticket[z] <= ticket[m]
      BY <3>1, <3>2, <3>3, <2>2, <2>4, <1>4
    <3>5. ticket[y] \in Nat /\ ticket[z] \in Nat /\ ticket[m] \in Nat
      BY <3>3, <1>n
    <3> QED
      BY <3>4, <3>5
  <2>5. ASSUME NEW n \in sub[treap], NEW m \in sub2[n], m # at PROVE ticket[n] <= ticket[m]
    <3>1. CASE n = y
      BY <3>1, <2>1, <2>4, <2>5
    <3>2. CASE n # y
      BY <3>2, <2>1, <2>2, <2>5
    <3> QED
      BY <3>1, <3>2
  <2> QED
    BY <2>1, <2>5 DEF Heaped
<1> QED
  BY <1>1, <1>6, <1>7, TurnKeeps

(* The sequence operators, element by element. *)
LEMMA PushedFront ==
  ASSUME NEW q \in Seq(Sudog), NEW s \in Sudog
  PROVE  /\ <<s>> \o q \in Seq(Sudog) /\ Len(<<s>> \o q) = Len(q) + 1 /\ (<<s>> \o q)[1] = s
         /\ \A i \in 1 .. Len(q) : (<<s>> \o q)[i + 1] = q[i]
<1>1. <<s>> \in Seq(Sudog) /\ Len(<<s>>) = 1 /\ <<s>>[1] = s
  OBVIOUS
<1>2. /\ <<s>> \o q \in Seq(Sudog) /\ Len(<<s>> \o q) = Len(<<s>>) + Len(q)
      /\ \A i \in 1 .. Len(<<s>>) + Len(q) :
           (<<s>> \o q)[i] = IF i <= Len(<<s>>) THEN <<s>>[i] ELSE q[i - Len(<<s>>)]
  BY <1>1, ConcatProperties
<1>3. Len(q) \in Nat
  OBVIOUS
<1>4. ASSUME NEW i \in 1 .. Len(q) PROVE (<<s>> \o q)[i + 1] = q[i]
  <2>1. i + 1 \in 1 .. Len(<<s>>) + Len(q) /\ ~(i + 1 <= 1) /\ (i + 1) - 1 = i
    BY <1>1, <1>3
  <2> QED
    BY <2>1, <1>1, <1>2
<1>5. (<<s>> \o q)[1] = s
  BY <1>1, <1>2, <1>3
<1> QED
  BY <1>1, <1>2, <1>3, <1>4, <1>5

LEMMA PushedBack ==
  ASSUME NEW q \in Seq(Sudog), NEW s \in Sudog
  PROVE  /\ Append(q, s) \in Seq(Sudog) /\ Len(Append(q, s)) = Len(q) + 1
         /\ Append(q, s)[Len(q) + 1] = s
         /\ \A i \in 1 .. Len(q) : Append(q, s)[i] = q[i]
BY AppendProperties

LEMMA Popped ==
  ASSUME NEW q \in Seq(Sudog), q # <<>>
  PROVE  /\ Tail(q) \in Seq(Sudog) /\ Len(Tail(q)) = Len(q) - 1
         /\ \A i \in 1 .. Len(q) - 1 : Tail(q)[i] = q[i + 1]
BY HeadTailProperties

LEMMA Removed ==
  ASSUME NEW q \in Seq(Sudog), NEW i \in 1 .. Len(q)
  PROVE  /\ RemoveAt(q, i) \in Seq(Sudog) /\ Len(RemoveAt(q, i)) = Len(q) - 1
         /\ \A j \in 1 .. Len(q) - 1 : RemoveAt(q, i)[j] = IF j < i THEN q[j] ELSE q[j + 1]
<1> DEFINE a == SubSeq(q, 1, i - 1)
<1> DEFINE b == SubSeq(q, i + 1, Len(q))
<1>1. Len(q) \in Nat /\ i \in Nat /\ i >= 1 /\ i <= Len(q)
  OBVIOUS
<1>2. /\ a \in Seq(Sudog) /\ Len(a) = i - 1
      /\ \A j \in 1 .. i - 1 : a[j] = q[j]
  <2>1. /\ a \in Seq(Sudog)
        /\ Len(a) = IF 1 <= i - 1 THEN (i - 1) - 1 + 1 ELSE 0
        /\ \A j \in 1 .. (i - 1) - 1 + 1 : a[j] = q[1 + j - 1]
    BY <1>1, SubSeqProperties
  <2> QED
    BY <2>1, <1>1
<1>3. /\ b \in Seq(Sudog) /\ Len(b) = Len(q) - i
      /\ \A j \in 1 .. Len(q) - i : b[j] = q[i + j]
  <2>1. /\ b \in Seq(Sudog)
        /\ Len(b) = IF i + 1 <= Len(q) THEN Len(q) - (i + 1) + 1 ELSE 0
        /\ \A j \in 1 .. Len(q) - (i + 1) + 1 : b[j] = q[(i + 1) + j - 1]
    BY <1>1, SubSeqProperties
  <2> QED
    BY <2>1, <1>1
<1>4. RemoveAt(q, i) = a \o b
  BY DEF RemoveAt
<1> HIDE DEF a, b
<1>5. /\ a \o b \in Seq(Sudog) /\ Len(a \o b) = Len(a) + Len(b)
      /\ \A j \in 1 .. Len(a) + Len(b) : (a \o b)[j] = IF j <= Len(a) THEN a[j] ELSE b[j - Len(a)]
  BY <1>2, <1>3, ConcatProperties
<1>6. ASSUME NEW j \in 1 .. Len(q) - 1 PROVE (a \o b)[j] = IF j < i THEN q[j] ELSE q[j + 1]
  <2>1. j \in 1 .. Len(a) + Len(b)
    BY <1>1, <1>2, <1>3
  <2>2. CASE j < i
    BY <2>1, <2>2, <1>1, <1>2, <1>5
  <2>3. CASE ~(j < i)
    <3>1. j - (i - 1) \in 1 .. Len(q) - i /\ i + (j - (i - 1)) = j + 1 /\ ~(j <= i - 1)
      BY <2>3, <1>1
    <3>2. (a \o b)[j] = b[j - (i - 1)]
      BY <3>1, <2>1, <1>2, <1>5
    <3>3. b[j - (i - 1)] = q[j + 1]
      BY <3>1, <1>3
    <3> QED
      BY <3>2, <3>3, <2>3
  <2> QED
    BY <2>2, <2>3
<1> QED
  BY <1>1, <1>2, <1>3, <1>4, <1>5, <1>6

LEMMA RemovedFirst ==
  ASSUME NEW q \in Seq(Sudog), q # <<>>
  PROVE  RemoveAt(q, 1) = Tail(q)
<1>1. Len(q) \in Nat /\ 1 \in 1 .. Len(q)
  OBVIOUS
<1>2. /\ RemoveAt(q, 1) \in Seq(Sudog) /\ Len(RemoveAt(q, 1)) = Len(q) - 1
      /\ \A j \in 1 .. Len(q) - 1 : RemoveAt(q, 1)[j] = IF j < 1 THEN q[j] ELSE q[j + 1]
  BY <1>1, Removed
<1>3. /\ Tail(q) \in Seq(Sudog) /\ Len(Tail(q)) = Len(q) - 1
      /\ \A i \in 1 .. Len(q) - 1 : Tail(q)[i] = q[i + 1]
  BY Popped
<1>4. \A i \in 1 .. Len(RemoveAt(q, 1)) : RemoveAt(q, 1)[i] = Tail(q)[i]
  BY <1>1, <1>2, <1>3
<1> QED
  BY <1>2, <1>3, <1>4

(* A step that changes the queue of one key, k, to q2. *)
NewLine(sub, sub2, k, q2) ==
  /\ k \in Key /\ q2 \in Seq(Sudog) /\ Chain(q2, k)'
  /\ pc = "search" /\ call.name = "queue" => call.key = k
  /\ \A s \in Sudog : elem[s] # k =>
       elem'[s] = elem[s] /\ waitlink'[s] = waitlink[s] /\ waittail'[s] = waittail[s]
  /\ \A s \in Sudog : elem'[s] \in {elem[s], Nil}
  /\ \A s \in Sudog : elem'[s] = k => \E i \in 1 .. Len(q2) : q2[i] = s
  /\ q2 # <<>> => q2[1] \in sub2[treap']
  /\ \A n \in sub2[treap'] : (n \in sub[treap] /\ elem[n] # k) \/ (q2 # <<>> /\ q2[1] = n)
  /\ \A n \in sub[treap] : elem[n] # k => n \in sub2[treap']

LEMMA LineChanges ==
  ASSUME NEW sub, NEW line, Inv(sub, line), NEW sub2, NEW k, NEW q2, NewLine(sub, sub2, k, q2)
  PROVE  /\ Chained([line EXCEPT ![k] = q2])' /\ Headed(sub2, [line EXCEPT ![k] = q2])'
         /\ Waiting([line EXCEPT ![k] = q2])'
<1> /\ k \in Key /\ q2 \in Seq(Sudog) /\ Chain(q2, k)'
    /\ pc = "search" /\ call.name = "queue" => call.key = k
    /\ \A s \in Sudog : elem[s] # k =>
         elem'[s] = elem[s] /\ waitlink'[s] = waitlink[s] /\ waittail'[s] = waittail[s]
    /\ \A s \in Sudog : elem'[s] \in {elem[s], Nil}
  BY DEF NewLine
<1> /\ \A s \in Sudog : elem'[s] = k => \E i \in 1 .. Len(q2) : q2[i] = s
    /\ q2 # <<>> => q2[1] \in sub2[treap']
    /\ \A n \in sub2[treap'] : (n \in sub[treap] /\ elem[n] # k) \/ (q2 # <<>> /\ q2[1] = n)
    /\ \A n \in sub[treap] : elem[n] # k => n \in sub2[treap']
  BY DEF NewLine
<1> PICK line2 : line2 = [line EXCEPT ![k] = q2]
  OBVIOUS
<1>1. /\ line \in [Key -> Seq(Sudog)] /\ line2 \in [Key -> Seq(Sudog)]
      /\ line2[k] = q2 /\ \A j \in Key : j # k => line2[j] = line[j]
  BY DEF Inv, Chained
<1>2. ASSUME NEW j \in Key, j # k, NEW i \in 1 .. Len(line[j])
      PROVE  /\ line[j][i] \in Sudog /\ elem[line[j][i]] = j /\ elem'[line[j][i]] = j
             /\ waitlink'[line[j][i]] = waitlink[line[j][i]]
             /\ waittail'[line[j][i]] = waittail[line[j][i]]
  <2>1. line[j][i] \in Sudog /\ elem[line[j][i]] = j
    BY <1>1 DEF Inv, Chained, Chain
  <2> QED
    BY <2>1, <1>2
<1>3. ASSUME NEW j \in Key, j # k PROVE Chain(line[j], j)'
  <2>1. Chain(line[j], j) /\ line[j] \in Seq(Sudog)
    BY <1>1 DEF Inv, Chained
  <2>2. line[j] # <<>> => 1 \in 1 .. Len(line[j])
    BY <2>1
  <2> QED
    BY <2>1, <2>2, <1>2, <1>3 DEF Chain
<1>4. Chained(line2)'
  BY <1>1, <1>3 DEF Chained
<1>5. Headed(sub2, line2)'
  <2>1. ASSUME NEW j \in Key, line2[j] # <<>> PROVE line2[j][1] \in sub2[treap']
    <3>1. CASE j = k
      BY <3>1, <2>1, <1>1
    <3>2. CASE j # k
      <4>1. line[j] # <<>> /\ line[j] \in Seq(Sudog)
        BY <3>2, <2>1, <1>1
      <4>2. 1 \in 1 .. Len(line[j])
        BY <4>1
      <4>3. elem[line[j][1]] = j /\ line[j][1] \in sub[treap]
        BY <4>1, <4>2, <3>2, <1>2 DEF Inv, Headed
      <4> QED
        BY <4>3, <3>2, <1>1
    <3> QED
      BY <3>1, <3>2
  <2>2. ASSUME NEW n \in sub2[treap']
        PROVE  elem'[n] \in Key /\ line2[elem'[n]] # <<>> /\ line2[elem'[n]][1] = n
    <3>1. CASE n \in sub[treap] /\ elem[n] # k
      <4>1. n \in Sudog /\ elem[n] \in Key /\ line[elem[n]] # <<>> /\ line[elem[n]][1] = n
        BY <3>1 DEF Inv, Tree, Headed
      <4>2. elem'[n] = elem[n]
        BY <4>1, <3>1
      <4> QED
        BY <4>1, <4>2, <3>1, <1>1
    <3>2. CASE q2 # <<>> /\ q2[1] = n
      <4>1. 1 \in 1 .. Len(q2)
        BY <3>2
      <4>2. elem'[n] = k
        BY <4>1, <3>2 DEF Chain
      <4> QED
        BY <4>2, <3>2, <1>1
    <3> QED
      BY <3>1, <3>2
  <2> QED
    BY <2>1, <2>2 DEF Headed
<1>6. Waiting(line2)'
  <2>1. ASSUME NEW s \in Sudog, elem'[s] # Nil
        PROVE  \E i \in 1 .. Len(line2[elem'[s]]) : line2[elem'[s]][i] = s
    <3>1. elem'[s] = elem[s]
      BY <2>1
    <3>2. CASE elem[s] = k
      BY <3>1, <3>2, <1>1
    <3>3. CASE elem[s] # k
      <4>1. ~ Arriving(s)
        <5>1. Arriving(s) => pc # "unlocked" /\ call.name = "queue" /\ call.key = k /\ s = call.s
          BY DEF Arriving
        <5>2. Arriving(s) => elem[call.s] = call.key
          BY <5>1 DEF Inv, Called, QueueCall
        <5> QED
          BY <5>1, <5>2, <3>3
      <4>2. elem[s] \in Key
        BY <2>1, <3>1, Types DEF Inv
      <4>3. \E i \in 1 .. Len(line[elem[s]]) : line[elem[s]][i] = s
        BY <4>1, <2>1, <3>1 DEF Inv, Waiting
      <4> QED
        BY <4>2, <4>3, <3>1, <3>3, <1>1
    <3> QED
      BY <3>2, <3>3
  <2> QED
    BY <2>1 DEF Waiting
<1> QED
  BY <1>4, <1>5, <1>6

(* The queue of the node the holder of the lock is at. *)
HeldLine(sub, q, k) ==
  /\ k \in Key /\ q \in Seq(Sudog) /\ Len(q) \in Nat /\ Len(q) >= 1 /\ q # <<>> /\ q[1] = at /\ at \in Sudog
  /\ \A i \in 1 .. Len(q) : q[i] \in Sudog /\ elem[q[i]] = k /\ q[i] # Nil
  /\ \A i \in 1 .. Len(q) : waitlink[q[i]] = IF i = Len(q) THEN Nil ELSE q[i + 1]
  /\ \A i, j \in 1 .. Len(q) : q[i] = q[j] => i = j
  /\ Len(q) = 1 => waittail[at] \in {Nil, at}
  /\ Len(q) # 1 => waittail[at] = q[Len(q)]
  /\ waitlink[at] = Nil <=> Len(q) = 1
  /\ \A i \in 2 .. Len(q) : q[i] \notin sub[treap] /\ q[i] # at

LEMMA HoldsLine ==
  ASSUME NEW sub, NEW line, Inv(sub, line), at \in sub[treap], elem[at] = call.key
  PROVE  HeldLine(sub, line[call.key], call.key)
<1> PICK k : k = call.key
  OBVIOUS
<1> PICK q : q = line[k]
  OBVIOUS
<1>1. /\ k \in Key /\ q \in Seq(Sudog) /\ Len(q) \in Nat /\ Len(q) >= 1 /\ q # <<>> /\ q[1] = at /\ at \in Sudog
  <2>1. at \in Sudog /\ k \in Key /\ q # <<>> /\ q[1] = at
    BY DEF Inv, Tree, Headed
  <2>2. q \in Seq(Sudog)
    BY <2>1 DEF Inv, Chained
  <2> QED
    BY <2>1, <2>2
<1>2. Chain(q, k)
  BY <1>1 DEF Inv, Chained
<1>3. \A i \in 1 .. Len(q) : q[i] \in Sudog /\ elem[q[i]] = k /\ q[i] # Nil
  BY <1>1, <1>2, KeyFacts DEF Chain
<1>4. \A i \in 1 .. Len(q) : waitlink[q[i]] = IF i = Len(q) THEN Nil ELSE q[i + 1]
  BY <1>2 DEF Chain
<1>5. \A i, j \in 1 .. Len(q) : q[i] = q[j] => i = j
  BY <1>2 DEF Chain
<1>6. /\ Len(q) = 1 => waittail[at] \in {Nil, at}
      /\ Len(q) # 1 => waittail[at] = q[Len(q)]
  BY <1>1, <1>2 DEF Chain
<1>7. waitlink[at] = Nil <=> Len(q) = 1
  <2>0. \A n \in Nat : n >= 1 => 1 \in 1 .. n /\ (n # 1 => 1 + 1 \in 1 .. n)
    OBVIOUS
  <2>1. 1 \in 1 .. Len(q) /\ (Len(q) # 1 => 1 + 1 \in 1 .. Len(q))
    BY <2>0, <1>1
  <2>2. waitlink[q[1]] = IF 1 = Len(q) THEN Nil ELSE q[1 + 1]
    BY <2>1, <1>4
  <2>3. Len(q) # 1 => q[1 + 1] # Nil
    BY <2>1, <1>3
  <2> QED
    BY <2>2, <2>3, <1>1
<1>8. ASSUME NEW i \in 2 .. Len(q) PROVE q[i] \notin sub[treap] /\ q[i] # at
  <2>1. i \in 1 .. Len(q) /\ 1 \in 1 .. Len(q) /\ i # 1
    BY <1>1
  <2>2. q[i] # at
    BY <2>1, <1>1, <1>5
  <2>3. elem[q[i]] = k
    BY <2>1, <1>3
  <2>4. q[i] \in sub[treap] => line[k][1] = q[i]
    BY <2>3 DEF Inv, Headed
  <2> QED
    BY <2>2, <2>4, <1>1
<1>9. HeldLine(sub, q, k)
  BY <1>1, <1>3, <1>4, <1>5, <1>6, <1>7, <1>8 DEF HeldLine
<1> QED
  BY <1>9

\* After a search.
LEMMA FoundLine ==
  ASSUME NEW sub, NEW line, Inv(sub, line), Found
  PROVE  at \in sub[treap] /\ HeldLine(sub, line[call.key], call.key)
<1>1. pc \in {"search", "walk"} /\ at # Nil /\ elem[at] = call.key
  BY DEF Found
<1>2. at \in sub[treap]
  BY <1>1, SearchAt
<1> QED
  BY <1>1, <1>2, HoldsLine

\* The last in line.
LEMMA LineEnd ==
  ASSUME NEW sub, NEW q, NEW k, HeldLine(sub, q, k), NEW end, end = IF waittail[at] = Nil THEN at ELSE waittail[at]
  PROVE  end = q[Len(q)] /\ Len(q) \in 1 .. Len(q)
BY DEF HeldLine

LEMMA PushBackKeeps ==
  ASSUME NEW sub, NEW line, Inv(sub, line), PushBack
  PROVE  \E line2 : Inv(sub, line2)' /\ QueueStep(line, line2)
<1> PICK k : k = call.key
  OBVIOUS
<1> PICK s : s = call.s
  OBVIOUS
<1> PICK q : q = line[k]
  OBVIOUS
<1> PICK end : end = IF waittail[at] = Nil THEN at ELSE waittail[at]
  OBVIOUS
<1> PICK q2 : q2 = Append(q, s)
  OBVIOUS
<1>1. /\ Found /\ call.name = "queue" /\ Unlock /\ UNCHANGED <<links, elem, ticket>>
      /\ waitlink' = [waitlink EXCEPT ![end] = s, ![s] = Nil]
      /\ waittail' = [waittail EXCEPT ![at] = s]
  BY DEF PushBack
<1>2. /\ pc = "search" /\ pc' = "unlocked" /\ elem' = elem /\ ticket' = ticket
      /\ treap' = treap /\ prev' = prev /\ next' = next /\ parent' = parent
  BY <1>1 DEF Found, Unlock, links
<1>3. at \in sub[treap] /\ HeldLine(sub, q, k)
  BY <1>1, FoundLine
<1>4. /\ s \in Sudog /\ elem[s] = k /\ s \notin sub[treap]
      /\ \A i \in 1 .. Len(q) : q[i] # s
  BY <1>1, <1>2 DEF Inv, Called, QueueCall
<1>5. end = q[Len(q)] /\ Len(q) \in 1 .. Len(q) /\ end \in Sudog /\ end # s /\ at # s
  <2>1. end = q[Len(q)] /\ Len(q) \in 1 .. Len(q)
    BY <1>3, LineEnd
  <2>2. at = q[1] /\ 1 \in 1 .. Len(q) /\ q[Len(q)] \in Sudog
    BY <2>1, <1>3 DEF HeldLine
  <2> QED
    BY <2>1, <2>2, <1>4
<1>6. /\ waitlink' \in [Sudog -> Pointer] /\ waittail' \in [Sudog -> Pointer]
      /\ waitlink'[end] = s /\ waitlink'[s] = Nil /\ waittail'[at] = s
      /\ \A p \in Sudog : p # end /\ p # s => waitlink'[p] = waitlink[p]
      /\ \A p \in Sudog : p # at => waittail'[p] = waittail[p]
  BY <1>1, <1>3, <1>4, <1>5, Types DEF Inv, Pointer, HeldLine
<1>7. /\ q2 \in Seq(Sudog) /\ Len(q2) = Len(q) + 1 /\ q2[Len(q) + 1] = s
      /\ \A i \in 1 .. Len(q) : q2[i] = q[i]
  BY <1>3, <1>4, PushedBack DEF HeldLine
<1>8. Chain(q2, k)'
  <2>1. ASSUME NEW i \in 1 .. Len(q2)
        PROVE  elem'[q2[i]] = k /\ waitlink'[q2[i]] = IF i = Len(q2) THEN Nil ELSE q2[i + 1]
    <3>1. CASE i = Len(q2)
      BY <3>1, <1>2, <1>3, <1>4, <1>6, <1>7 DEF HeldLine
    <3>2. CASE i = Len(q)
      <4>1. i # Len(q2) /\ q2[i] = end /\ q2[i + 1] = s
        BY <3>2, <1>3, <1>5, <1>7 DEF HeldLine
      <4>2. elem[end] = k
        BY <1>3, <1>5 DEF HeldLine
      <4> QED
        BY <4>1, <4>2, <1>2, <1>6
    <3>3. CASE i # Len(q) /\ i # Len(q2)
      <4>1. i \in 1 .. Len(q) /\ i + 1 \in 1 .. Len(q)
        BY <3>3, <1>3, <1>7 DEF HeldLine
      <4>2. q2[i] = q[i] /\ q2[i + 1] = q[i + 1] /\ q[i] \in Sudog /\ q[i] # end /\ q[i] # s
        BY <4>1, <3>3, <1>3, <1>4, <1>5, <1>7 DEF HeldLine
      <4>3. elem[q[i]] = k /\ waitlink[q[i]] = q[i + 1]
        BY <4>1, <3>3, <1>3 DEF HeldLine
      <4> QED
        BY <4>2, <4>3, <3>3, <1>2, <1>6
    <3> QED
      BY <3>1, <3>2, <3>3
  <2>2. ASSUME NEW i \in 1 .. Len(q2), NEW j \in 1 .. Len(q2), q2[i] = q2[j] PROVE i = j
    <3>1. Len(q) \in Nat /\ \A a \in 1 .. Len(q2) : a \in 1 .. Len(q) \/ a = Len(q) + 1
      BY <1>3, <1>7 DEF HeldLine
    <3>2. \A a, b \in 1 .. Len(q) : q[a] = q[b] => a = b
      BY <1>3 DEF HeldLine
    <3> QED
      BY <2>2, <3>1, <3>2, <1>4, <1>7
  <2>3. Len(q2) # 1 /\ q2[1] = at /\ waittail'[at] = q2[Len(q2)]
    <3>1. Len(q) \in Nat /\ Len(q) >= 1 /\ q[1] = at
      BY <1>3 DEF HeldLine
    <3>2. 1 \in 1 .. Len(q) /\ Len(q2) # 1
      BY <3>1, <1>7
    <3> QED
      BY <3>1, <3>2, <1>6, <1>7
  <2> QED
    BY <2>1, <2>2, <2>3 DEF Chain
<1>9. k \in Key /\ k = call.key /\ q2[1] = at /\ q2 # <<>>
  <2>1. k \in Key /\ 1 \in 1 .. Len(q) /\ q[1] = at /\ Len(q) \in Nat
    BY <1>3 DEF HeldLine
  <2>2. q2[1] = at
    BY <2>1, <1>7
  <2>3. \A w : w = <<>> => Len(w) = 0
    OBVIOUS
  <2>4. Len(q2) # 0
    BY <2>1, <1>7
  <2>5. q2 # <<>>
    BY ONLY <2>3, <2>4
  <2> QED
    BY <2>1, <2>2, <2>5
<1> PICK line2 : line2 = [line EXCEPT ![k] = q2]
  OBVIOUS
<1>10. Chained(line2)' /\ Headed(sub, line2)' /\ Waiting(line2)'
  <2>1. ASSUME NEW p \in Sudog, elem[p] # k
        PROVE  elem'[p] = elem[p] /\ waitlink'[p] = waitlink[p] /\ waittail'[p] = waittail[p]
    <3>1. elem[at] = k /\ elem[end] = k
      <4>1. /\ \A i \in 1 .. Len(q) : elem[q[i]] = k
            /\ 1 \in 1 .. Len(q) /\ q[1] = at
        BY <1>3 DEF HeldLine
      <4> QED
        BY <4>1, <1>5
    <3>2. p # end /\ p # at /\ p # s
      BY <2>1, <3>1, <1>4
    <3> QED
      BY <3>2, <1>2, <1>6
  <2>2. ASSUME NEW p \in Sudog, elem'[p] = k PROVE \E i \in 1 .. Len(q2) : q2[i] = p
    <3>1. CASE p = s
      <4>1. Len(q) + 1 \in 1 .. Len(q2)
        BY <1>3, <1>7 DEF HeldLine
      <4> QED
        BY <3>1, <4>1, <1>7
    <3>2. CASE p # s
      <4>1. PICK i \in 1 .. Len(q) : q[i] = p
        BY <2>2, <3>2, <1>2, <1>9, KeyFacts DEF Inv, Waiting, Arriving
      <4>2. i \in 1 .. Len(q2)
        BY <1>3, <1>7 DEF HeldLine
      <4> QED
        BY <4>1, <4>2, <1>7
    <3> QED
      BY <3>1, <3>2
  <2>3. \A n \in sub[treap] : elem[n] = k => q2[1] = n
    BY <1>9 DEF Inv, Headed
  <2>4. \A n \in sub[treap'] : (n \in sub[treap] /\ elem[n] # k) \/ (q2 # <<>> /\ q2[1] = n)
    BY <2>3, <1>2, <1>9
  <2>5. q2 # <<>> => q2[1] \in sub[treap']
    BY <1>2, <1>3, <1>9
  <2>6. \A n \in sub[treap] : elem[n] # k => n \in sub[treap']
    BY <1>2
  <2>7. \A p \in Sudog : elem'[p] \in {elem[p], Nil}
    BY <1>2
  <2>8. pc = "search" /\ call.name = "queue" => call.key = k
    OBVIOUS
  <2>9. NewLine(sub, sub, k, q2)
    BY <2>1, <2>2, <2>4, <2>5, <2>6, <2>7, <2>8, <1>7, <1>8, <1>9 DEF NewLine
  <2> QED
    BY <2>9, LineChanges
<1>11. ReleasedClean'
  <2>1. \A p \in Sudog : elem[p] = Nil => p # end /\ p # at /\ p # s
    BY <1>3, <1>4, <1>5, KeyFacts DEF HeldLine
  <2> QED
    BY <2>1, <1>2, <1>6 DEF Inv, ReleasedClean
<1>12. Tree(sub, treap, prev, next, parent)' /\ Ordered(sub)' /\ Heaped(sub)'
  BY <1>2 DEF Inv, Ordered, Heaped
<1>13. TypeOK'
  BY <1>1, <1>2, <1>6, Types, UnlockTypes DEF Inv
<1>14. Route(sub)' /\ Called(sub, line2)'
  BY <1>1, Unlocks
<1>15. QueueStep(line, line2)
  <2>1. call.addr \in Addr /\ k \in {call.addr, Masked(call.addr)}
    BY <1>2 DEF Inv, Called
  <2>2. PICK isSync \in BOOLEAN : k = KeyOf(call.addr, isSync)
    BY <2>1 DEF KeyOf
  <2>3. \A j \in Key : \A i \in 1 .. Len(line[j]) : line[j][i] # s
    BY <1>4 DEF Inv, Chained, Chain
  <2> QED
    BY <2>1, <2>2, <2>3, <1>4 DEF QueueStep
<1> QED
  BY <1>10, <1>11, <1>12, <1>13, <1>14, <1>15 DEF Inv

IsClean(s) ==
  /\ prev[s] = Nil /\ next[s] = Nil /\ parent[s] = Nil /\ waitlink[s] = Nil
  /\ ticket[s] = 0 /\ waittail[s] \in {Nil, s}

LEMMA CleanEach ==
  /\ ReleasedClean => \A s \in Sudog : elem[s] = Nil => IsClean(s)
  /\ (\A s \in Sudog : elem'[s] = Nil => IsClean(s)') => ReleasedClean'
BY DEF ReleasedClean, IsClean

(* TakePlace(y, at), after a search. *)
TookPlace(sub, sub2, y) ==
  /\ treap' \in Pointer /\ prev' \in [Sudog -> Pointer] /\ next' \in [Sudog -> Pointer]
  /\ parent' \in [Sudog -> Pointer]
  /\ Tree(sub2, treap, prev, next, parent)' /\ Ordered(sub2)' /\ Heaped(sub2)'
  /\ \A m : m \in sub2[treap'] <=> (m \in sub[treap] /\ m # at) \/ m = y
  /\ prev'[at] = Nil /\ next'[at] = Nil
  /\ \A q \in Sudog : q \notin sub[treap] /\ q # y => prev'[q] = prev[q] /\ next'[q] = next[q]

LEMMA PlaceTaken ==
  ASSUME NEW sub, NEW line, Inv(sub, line), pc \in {"search", "walk"}, at # Nil,
         NEW y \in Sudog, y \notin sub[treap], TakePlace(y, at),
         elem'[y] = elem[at], ticket'[y] = ticket[at],
         \A n \in sub[treap] : n # at => elem'[n] = elem[n] /\ ticket'[n] = ticket[n]
  PROVE  \E sub2 : TookPlace(sub, sub2, y)
<1> PICK x : x = at
  OBVIOUS
<1>1. Tree(sub, treap, prev, next, parent) /\ Nil \notin Sudog
  BY KeyFacts DEF Inv
<1>2. /\ x \in sub[treap] /\ x \in Sudog /\ parent[x] = last /\ x # Nil
      /\ last # Nil => last \in sub[treap] /\ last \in Sudog
  BY SearchAt
<1>3. /\ treap' = IF last = Nil THEN y ELSE treap
      /\ prev' = [q \in Sudog |-> IF q = y THEN prev[x] ELSE IF q = x THEN Nil
                                  ELSE IF q = last /\ call.key < elem[q] THEN y ELSE prev[q]]
      /\ next' = [q \in Sudog |-> IF q = y THEN next[x] ELSE IF q = x THEN Nil
                                  ELSE IF q = last /\ ~(call.key < elem[q]) THEN y ELSE next[q]]
      /\ parent' = [q \in Sudog |-> IF q = y THEN parent[x] ELSE IF q = x THEN Nil
                                    ELSE IF q \in {prev[x], next[x]} THEN y ELSE parent[q]]
  BY DEF TakePlace
<1>4. ASSUME last # Nil
      PROVE  /\ call.key < elem[last] <=> prev[last] = x
             /\ ~(call.key < elem[last]) <=> next[last] = x
  <2>1. prev[last] = x <=> next[last] # x
    BY <1>1, <1>2, <1>4, ParentLink
  <2>2. /\ call.key < elem[last] => x = prev[last]
        /\ elem[last] < call.key => x = next[last]
    BY <1>4 DEF Inv, Route
  <2>3. call.key < elem[last] \/ elem[last] < call.key
    BY <1>4, SearchAt
  <2> QED
    BY <2>1, <2>2, <2>3
<1>5. treap' \in Pointer /\ treap' = IF parent[x] = Nil THEN y ELSE treap
  BY <1>2, <1>3, Types DEF Inv, Pointer
<1>6. /\ prev' \in [Sudog -> Pointer]
      /\ \A q \in Sudog : prev'[q] = IF q = y THEN prev[x] ELSE IF q = x THEN Nil
                                     ELSE IF q = parent[x] /\ prev[q] = x THEN y ELSE prev[q]
  BY <1>1, <1>2, <1>3, <1>4, Types DEF Inv, Pointer
<1>7. /\ next' \in [Sudog -> Pointer]
      /\ \A q \in Sudog : next'[q] = IF q = y THEN next[x] ELSE IF q = x THEN Nil
                                     ELSE IF q = parent[x] /\ next[q] = x THEN y ELSE next[q]
  BY <1>1, <1>2, <1>3, <1>4, Types DEF Inv, Pointer
<1>8. /\ parent' \in [Sudog -> Pointer]
      /\ \A q \in Sudog : parent'[q] = IF q = y THEN parent[x] ELSE IF q = x THEN Nil
                                       ELSE IF q \in {prev[x], next[x]} THEN y ELSE parent[q]
  BY <1>2, <1>3, Types DEF Inv, Pointer
<1>9. Replace(treap, prev, next, parent, x, y, treap', prev', next', parent')
  BY <1>5, <1>6, <1>7, <1>8 DEF Replace
<1>10. PICK sub2 : Replaced(sub, treap, prev, next, x, y, sub2, treap', prev', next', parent')
  BY <1>1, <1>2, <1>9, TakePlaceTree
<1>11. /\ Tree(sub2, treap, prev, next, parent)'
       /\ \A m : m \in sub2[treap'] <=> (m \in sub[treap] /\ m # x) \/ m = y
       /\ \A n \in sub[treap] : n # x =>
            /\ \A m \in sub2[n] : (m \in sub[n] /\ m # x) \/ (m = y /\ x \in sub[n])
            /\ \A m \in sub2[prev'[n]] : (m \in sub[prev[n]] /\ m # x) \/ (m = y /\ x \in sub[prev[n]])
            /\ \A m \in sub2[next'[n]] : (m \in sub[next[n]] /\ m # x) \/ (m = y /\ x \in sub[next[n]])
       /\ \A m \in sub2[y] : (m \in sub[x] /\ m # x) \/ m = y
       /\ sub2[prev'[y]] \subseteq sub[prev[x]] /\ sub2[next'[y]] \subseteq sub[next[x]]
  BY <1>10 DEF Replaced
<1>12. ASSUME NEW n \in sub[treap]
       PROVE  /\ n \in Sudog /\ n # y /\ sub[n] \subseteq sub[treap]
              /\ sub[prev[n]] \subseteq sub[treap] /\ sub[next[n]] \subseteq sub[treap]
              /\ n \notin sub[prev[n]] /\ n \notin sub[next[n]]
  <2>1. Node(sub, treap, prev, next, parent, n)
    BY <1>1, TreeNode
  <2> QED
    BY <2>1 DEF Node
<1>13. Ordered(sub2)'
  <2>1. ASSUME NEW n \in sub[treap], n # x
        PROVE  /\ elem'[n] \in Key
               /\ \A m \in sub2[prev'[n]] : elem'[m] < elem'[n]
               /\ \A m \in sub2[next'[n]] : elem'[n] < elem'[m]
    <3>1. /\ elem[n] \in Key /\ elem'[n] = elem[n]
          /\ \A m \in sub[prev[n]] : elem[m] < elem[n]
          /\ \A m \in sub[next[n]] : elem[n] < elem[m]
      BY <2>1 DEF Inv, Ordered
    <3>2. ASSUME NEW m \in sub2[prev'[n]] PROVE elem'[m] < elem'[n]
      <4>1. CASE m \in sub[prev[n]] /\ m # x
        <5>1. m \in sub[treap]
          BY <4>1, <1>12
        <5> QED
          BY <5>1, <4>1, <3>1
      <4>2. CASE m = y /\ x \in sub[prev[n]]
        BY <4>2, <3>1
      <4> QED
        BY <4>1, <4>2, <2>1, <1>11
    <3>3. ASSUME NEW m \in sub2[next'[n]] PROVE elem'[n] < elem'[m]
      <4>1. CASE m \in sub[next[n]] /\ m # x
        <5>1. m \in sub[treap]
          BY <4>1, <1>12
        <5> QED
          BY <5>1, <4>1, <3>1
      <4>2. CASE m = y /\ x \in sub[next[n]]
        BY <4>2, <3>1
      <4> QED
        BY <4>1, <4>2, <2>1, <1>11
    <3> QED
      BY <3>1, <3>2, <3>3
  <2>2. /\ elem'[y] \in Key
        /\ \A m \in sub2[prev'[y]] : elem'[m] < elem'[y]
        /\ \A m \in sub2[next'[y]] : elem'[y] < elem'[m]
    <3>1. /\ elem[x] \in Key
          /\ \A m \in sub[prev[x]] : elem[m] < elem[x]
          /\ \A m \in sub[next[x]] : elem[x] < elem[m]
      BY <1>2 DEF Inv, Ordered
    <3>2. /\ \A m \in sub[prev[x]] : elem'[m] = elem[m]
          /\ \A m \in sub[next[x]] : elem'[m] = elem[m]
      BY <1>2, <1>12
    <3> QED
      BY <3>1, <3>2, <1>11
  <2> QED
    BY <2>1, <2>2, <1>11 DEF Ordered
<1>14. Heaped(sub2)'
  <2>1. \A n \in sub[treap] : \A m \in sub[n] : ticket[n] <= ticket[m]
    BY DEF Inv, Heaped
  <2>2. ticket[x] \in Nat /\ ticket[x] <= ticket[x]
    <3>1. ticket[x] \in Nat
      BY <1>2, Types DEF Inv
    <3> QED
      BY <3>1
  <2>3. ASSUME NEW n \in sub[treap], n # x, NEW m \in sub2[n] PROVE ticket'[n] <= ticket'[m]
    <3>1. CASE m \in sub[n] /\ m # x
      <4>1. m \in sub[treap]
        BY <3>1, <1>12
      <4> QED
        BY <4>1, <3>1, <2>1, <2>3
    <3>2. CASE m = y /\ x \in sub[n]
      BY <3>2, <2>1, <2>3
    <3> QED
      BY <3>1, <3>2, <2>3, <1>11
  <2>4. ASSUME NEW m \in sub2[y] PROVE ticket'[y] <= ticket'[m]
    <3>1. CASE m \in sub[x] /\ m # x
      <4>1. m \in sub[treap]
        BY <3>1, <1>2, <1>12
      <4> QED
        BY <4>1, <3>1, <2>1, <1>2
    <3>2. CASE m = y
      BY <3>2, <2>2
    <3> QED
      BY <3>1, <3>2, <1>11
  <2> QED
    BY <2>3, <2>4, <1>11 DEF Heaped
<1>15. prev'[x] = Nil /\ next'[x] = Nil
  BY <1>2, <1>6, <1>7
<1>16. ASSUME NEW q \in Sudog, q \notin sub[treap], q # y PROVE prev'[q] = prev[q] /\ next'[q] = next[q]
  <2>1. q # x /\ q # parent[x]
    BY <1>2, <1>16, <1>1
  <2> QED
    BY <2>1, <1>6, <1>7, <1>16
<1> QED
  BY <1>5, <1>6, <1>7, <1>8, <1>11, <1>13, <1>14, <1>15, <1>16 DEF TookPlace

LEMMA PushFrontKeeps ==
  ASSUME NEW sub, NEW line, Inv(sub, line), PushFront
  PROVE  \E sub2, line2 : Inv(sub2, line2)' /\ QueueStep(line, line2)
<1> PICK k : k = call.key
  OBVIOUS
<1> PICK s : s = call.s
  OBVIOUS
<1> PICK q : q = line[k]
  OBVIOUS
<1> PICK end : end = IF waittail[at] = Nil THEN at ELSE waittail[at]
  OBVIOUS
<1> PICK q2 : q2 = <<s>> \o q
  OBVIOUS
<1>1. /\ Found /\ call.name = "queue" /\ Unlock /\ elem' = elem
      /\ TakePlace(s, at) /\ ticket' = [ticket EXCEPT ![s] = ticket[at]]
      /\ waitlink' = [waitlink EXCEPT ![s] = at]
      /\ waittail' = [waittail EXCEPT ![s] = end, ![at] = Nil]
  BY DEF PushFront
<1>2. pc = "search" /\ pc' = "unlocked" /\ at # Nil
  BY <1>1 DEF Found, Unlock
<1>3. at \in sub[treap] /\ HeldLine(sub, q, k)
  BY <1>1, FoundLine
<1>4. /\ s \in Sudog /\ elem[s] = k /\ s \notin sub[treap]
      /\ \A i \in 1 .. Len(q) : q[i] # s
  BY <1>1, <1>2 DEF Inv, Called, QueueCall
<1>5. end = q[Len(q)] /\ Len(q) \in 1 .. Len(q) /\ end \in Sudog /\ end # s /\ at # s /\ at \in Sudog /\ elem[at] = k
  <2>1. end = q[Len(q)] /\ Len(q) \in 1 .. Len(q)
    BY <1>3, LineEnd
  <2>2. at = q[1] /\ 1 \in 1 .. Len(q) /\ q[Len(q)] \in Sudog
    BY <2>1, <1>3 DEF HeldLine
  <2>3. at \in Sudog /\ elem[at] = k
    BY <2>2, <1>3 DEF HeldLine
  <2> QED
    BY <2>1, <2>2, <2>3, <1>4
<1>6. /\ waitlink' \in [Sudog -> Pointer] /\ waittail' \in [Sudog -> Pointer]
      /\ waitlink'[s] = at /\ waittail'[s] = end
      /\ \A p \in Sudog : p # s => waitlink'[p] = waitlink[p]
      /\ \A p \in Sudog : p # at /\ p # s => waittail'[p] = waittail[p]
  BY <1>1, <1>4, <1>5, Types DEF Inv, Pointer
<1>7. /\ q2 \in Seq(Sudog) /\ Len(q2) = Len(q) + 1 /\ q2[1] = s
      /\ \A i \in 1 .. Len(q) : q2[i + 1] = q[i]
  BY <1>3, <1>4, PushedFront DEF HeldLine
<1>t. /\ ticket' \in [Sudog -> Tickets \cup {0}] /\ ticket'[s] = ticket[at]
      /\ \A p \in Sudog : p # s => ticket'[p] = ticket[p]
  BY <1>1, <1>4, <1>5, Types DEF Inv
<1>p. PICK sub2 : TookPlace(sub, sub2, s)
  <2>1. pc \in {"search", "walk"}
    BY <1>2
  <2>2. \A n \in sub[treap] : n # at => elem'[n] = elem[n] /\ ticket'[n] = ticket[n]
    BY <1>1, <1>4, <1>t DEF Inv, Tree
  <2>3. elem'[s] = elem[at] /\ ticket'[s] = ticket[at]
    BY <1>1, <1>4, <1>5, <1>t
  <2> QED
    BY <2>1, <2>2, <2>3, <1>1, <1>2, <1>4, PlaceTaken
<1>n. Len(q) \in Nat /\ Len(q) >= 1 /\ q[1] = at
  BY <1>3 DEF HeldLine
<1>8. Chain(q2, k)'
  <2>0. ASSUME NEW i \in 1 .. Len(q2) PROVE i = 1 \/ (i - 1 \in 1 .. Len(q) /\ q2[i] = q[i - 1] /\ i # 1)
    <3>1. i = 1 \/ (i - 1 \in 1 .. Len(q) /\ (i - 1) + 1 = i)
      BY <1>n, <1>7
    <3> QED
      BY <3>1, <1>7
  <2>1. ASSUME NEW i \in 1 .. Len(q2)
        PROVE  elem'[q2[i]] = k /\ waitlink'[q2[i]] = IF i = Len(q2) THEN Nil ELSE q2[i + 1]
    <3>1. CASE i = 1
      <4>1. i # Len(q2) /\ 1 \in 1 .. Len(q)
        BY <3>1, <1>n, <1>7
      <4>2. q2[1 + 1] = at
        BY <4>1, <1>n, <1>7
      <4> QED
        BY <3>1, <4>1, <4>2, <1>1, <1>4, <1>6, <1>7
    <3>2. CASE i - 1 \in 1 .. Len(q) /\ q2[i] = q[i - 1] /\ i # 1
      <4>1. PICK j \in 1 .. Len(q) : j = i - 1
        BY <3>2
      <4>2. q[j] \in Sudog /\ elem[q[j]] = k /\ waitlink[q[j]] = IF j = Len(q) THEN Nil ELSE q[j + 1]
        BY <1>3 DEF HeldLine
      <4>n. j + 1 = i /\ (j = Len(q) <=> i = Len(q2))
        <5>1. Len(q) \in Nat /\ Len(q2) = Len(q) + 1
          BY <1>n, <1>7
        <5> QED
          BY <5>1, <4>1
      <4>3. q2[i] = q[j] /\ q[j] # s /\ (j = Len(q) <=> i = Len(q2)) /\ j + 1 = i
        BY <4>1, <4>n, <3>2, <1>4
      <4>4. j # Len(q) => q[j + 1] = q2[i + 1]
        <5>1. j # Len(q) => i \in 1 .. Len(q)
          BY <4>3, <1>n
        <5> QED
          BY <5>1, <4>3, <1>7
      <4> QED
        BY <4>2, <4>3, <4>4, <1>1, <1>6
    <3> QED
      BY <2>0, <3>1, <3>2
  <2>2. ASSUME NEW i \in 1 .. Len(q2), NEW j \in 1 .. Len(q2), q2[i] = q2[j] PROVE i = j
    <3>1. \A a, b \in 1 .. Len(q) : q[a] = q[b] => a = b
      BY <1>3 DEF HeldLine
    <3>2. i = 1 <=> j = 1
      BY <2>0, <2>2, <1>4, <1>7
    <3>3. i # 1 => i - 1 \in 1 .. Len(q) /\ j - 1 \in 1 .. Len(q) /\ q[i - 1] = q[j - 1]
      BY <2>0, <2>2, <3>2
    <3>4. i # 1 => i - 1 = j - 1
      BY <3>1, <3>3
    <3> QED
      BY <3>2, <3>4
  <2>3. Len(q2) # 1 /\ waittail'[q2[1]] = q2[Len(q2)]
    BY <1>n, <1>5, <1>6, <1>7
  <2> QED
    BY <2>1, <2>2, <2>3 DEF Chain
<1>9. k \in Key /\ k = call.key /\ q2 # <<>>
  <2>1. k \in Key
    BY <1>3 DEF HeldLine
  <2> QED
    BY <2>1, <1>n, <1>7
<1> PICK line2 : line2 = [line EXCEPT ![k] = q2]
  OBVIOUS
<1>10. Chained(line2)' /\ Headed(sub2, line2)' /\ Waiting(line2)'
  <2>1. ASSUME NEW p \in Sudog, elem[p] # k
        PROVE  elem'[p] = elem[p] /\ waitlink'[p] = waitlink[p] /\ waittail'[p] = waittail[p]
    BY <2>1, <1>1, <1>4, <1>5, <1>6
  <2>2. ASSUME NEW p \in Sudog, elem'[p] = k PROVE \E i \in 1 .. Len(q2) : q2[i] = p
    <3>1. CASE p = s
      <4>1. 1 \in 1 .. Len(q2)
        BY <1>n, <1>7
      <4> QED
        BY <3>1, <4>1, <1>7
    <3>2. CASE p # s
      <4>1. PICK i \in 1 .. Len(q) : q[i] = p
        BY <2>2, <3>2, <1>1, <1>9, KeyFacts DEF Inv, Waiting, Arriving
      <4>2. i + 1 \in 1 .. Len(q2)
        BY <1>n, <1>7
      <4> QED
        BY <4>1, <4>2, <1>7
    <3> QED
      BY <3>1, <3>2
  <2>3. \A n \in sub[treap] : elem[n] = k => at = n
    BY <1>n DEF Inv, Headed
  <2>p. \A m : m \in sub2[treap'] <=> (m \in sub[treap] /\ m # at) \/ m = s
    BY <1>p DEF TookPlace
  <2>4. \A n \in sub2[treap'] : (n \in sub[treap] /\ elem[n] # k) \/ (q2 # <<>> /\ q2[1] = n)
    BY <2>3, <2>p, <1>7, <1>9
  <2>5. q2 # <<>> => q2[1] \in sub2[treap']
    BY <2>p, <1>7
  <2>6. \A n \in sub[treap] : elem[n] # k => n \in sub2[treap']
    BY <2>p, <1>5
  <2>7. \A p \in Sudog : elem'[p] \in {elem[p], Nil}
    BY <1>1
  <2>8. pc = "search" /\ call.name = "queue" => call.key = k
    OBVIOUS
  <2>9. NewLine(sub, sub2, k, q2)
    BY <2>1, <2>2, <2>4, <2>5, <2>6, <2>7, <2>8, <1>7, <1>8, <1>9 DEF NewLine
  <2> QED
    BY <2>9, LineChanges
<1>11. ReleasedClean'
  <2>1. ASSUME NEW p \in Sudog, elem[p] = Nil
        PROVE  p # s /\ p # at /\ p \notin sub[treap] /\ p \notin sub2[treap']
    <3>1. p # s /\ p # at
      BY <2>1, <1>4, <1>5, <1>9, KeyFacts
    <3>2. p \notin sub[treap]
      BY <2>1, KeyFacts DEF Inv, Ordered
    <3> QED
      BY <3>1, <3>2, <1>p DEF TookPlace
  <2>2. ASSUME NEW p \in Sudog, elem[p] = Nil PROVE IsClean(p)'
    <3>1. p # s /\ p # at /\ p \notin sub[treap] /\ p \notin sub2[treap']
      BY <2>1, <2>2
    <3>2. prev'[p] = prev[p] /\ next'[p] = next[p] /\ parent'[p] = Nil
      BY <3>1, <1>p DEF TookPlace, Tree
    <3>3. IsClean(p)
      BY <2>2, CleanEach DEF Inv
    <3> QED
      BY <3>1, <3>2, <3>3, <1>6, <1>t DEF IsClean
  <2> QED
    BY <2>2, <1>1, CleanEach
<1>12. Tree(sub2, treap, prev, next, parent)' /\ Ordered(sub2)' /\ Heaped(sub2)'
  BY <1>p DEF TookPlace
<1>13. TypeOK'
  BY <1>1, <1>6, <1>t, <1>p, Types, UnlockTypes DEF Inv, TookPlace
<1>14. Route(sub2)' /\ Called(sub2, line2)'
  BY <1>1, Unlocks
<1>15. QueueStep(line, line2)
  <2>1. call.addr \in Addr /\ k \in {call.addr, Masked(call.addr)}
    BY <1>2 DEF Inv, Called
  <2>2. PICK isSync \in BOOLEAN : k = KeyOf(call.addr, isSync)
    BY <2>1 DEF KeyOf
  <2>3. \A j \in Key : \A i \in 1 .. Len(line[j]) : line[j][i] # s
    BY <1>4 DEF Inv, Chained, Chain
  <2> QED
    BY <2>1, <2>2, <2>3, <1>4 DEF QueueStep
<1> QED
  BY <1>10, <1>11, <1>12, <1>13, <1>14, <1>15 DEF Inv

(* Link(s), after a search that found nothing. *)
Linked(sub, sub2, s) ==
  /\ treap' \in Pointer /\ prev' \in [Sudog -> Pointer] /\ next' \in [Sudog -> Pointer]
  /\ parent' \in [Sudog -> Pointer]
  /\ Tree(sub2, treap, prev, next, parent)' /\ Ordered(sub2)' /\ sub2[treap'] = sub[treap] \cup {s}
  /\ sub2[s] = {s} /\ \A n \in sub[treap] : \A m \in sub2[n] : m \in sub[n] \/ m = s
  /\ \A q \in Sudog : q \notin sub[treap] => prev'[q] = prev[q] /\ next'[q] = next[q]

LEMMA LeafLinked ==
  ASSUME NEW sub, NEW line, Inv(sub, line), pc = "search", at = Nil, NEW s \in Sudog, s \notin sub[treap],
         prev[s] = Nil, next[s] = Nil, elem[s] = call.key, elem' = elem,
         Link(s), parent' = [parent EXCEPT ![s] = last]
  PROVE  \E sub2 : Linked(sub, sub2, s)
<1> PICK p : p = last
  OBVIOUS
<1> PICK k : k = call.key
  OBVIOUS
<1>1. Tree(sub, treap, prev, next, parent) /\ Tree(sub, treap, next, prev, parent) /\ Nil \notin Sudog
      /\ sub[Nil] = {}
  BY KeyFacts, TreeTwoSided, NothingBelowNil DEF Inv
<1>2. /\ k \in Key /\ k \in Nat
      /\ p # Nil => /\ p \in sub[treap] /\ p \in Sudog /\ p # s
                    /\ k < elem[p] \/ elem[p] < k
                    /\ elem[p] \in Nat
  <2>1. pc \in {"search", "walk"}
    OBVIOUS
  <2> QED
    BY <2>1, SearchAt, KeyFacts
<1>3. /\ p = Nil => treap = Nil
      /\ p # Nil => /\ k < elem[p] => prev[p] = Nil
                    /\ elem[p] < k => next[p] = Nil
                    /\ \A n \in sub[treap] : /\ p \in sub[prev[n]] => k < elem[n]
                                             /\ p \in sub[next[n]] => elem[n] < k
  BY DEF Inv, Route
<1>4. p = Nil => sub[treap] = {}
  BY <1>1, <1>3
<1>5. parent' \in [Sudog -> Pointer] /\ \A q \in Sudog : parent'[q] = IF q = s THEN p ELSE parent[q]
  BY Types DEF Inv
<1>6. treap' \in Pointer /\ treap' = IF p = Nil THEN s ELSE treap
  BY Types DEF Inv, Link, Pointer
<1>7. ASSUME NEW n \in sub[treap]
      PROVE  /\ n \in Sudog /\ n # s /\ elem[n] \in Key
             /\ \A m \in sub[prev[n]] : elem[m] < elem[n]
             /\ \A m \in sub[next[n]] : elem[n] < elem[m]
  BY DEF Inv, Ordered, Tree
<1>8. CASE p = Nil \/ k < elem[p]
  <2>1. /\ prev' \in [Sudog -> Pointer] /\ \A q \in Sudog : prev'[q] = IF q = p THEN s ELSE prev[q]
        /\ next' = next
    <3>1. CASE p = Nil
      BY <3>1, <1>1, Types DEF Inv, Link
    <3>2. CASE p # Nil
      <4>1. prev' = [prev EXCEPT ![p] = s] /\ next' = next
        BY <3>2, <1>8 DEF Link
      <4> QED
        BY <4>1, <3>2, <1>2, Types DEF Inv, Pointer
    <3> QED
      BY <3>1, <3>2
  <2>2. Grow(sub, treap, prev, next, parent, s, p, treap', prev', parent')
    BY <2>1, <1>2, <1>3, <1>5, <1>6, <1>8 DEF Grow
  <2>3. PICK sub2 : Grown(sub, treap, prev, next, s, p, sub2, treap', prev', parent')
    BY <2>2, <1>1, NewLeafTree
  <2>4. /\ Tree(sub2, treap, prev, next, parent)' /\ sub2[treap'] = sub[treap] \cup {s}
        /\ \A n \in sub[treap] :
             /\ \A m \in sub2[n] : m \in sub[n] \/ m = s
             /\ \A m \in sub2[prev'[n]] : m \in sub[prev[n]] \/ (m = s /\ (n = p \/ p \in sub[prev[n]]))
             /\ \A m \in sub2[next'[n]] : m \in sub[next[n]] \/ (m = s /\ p \in sub[next[n]])
        /\ sub2[s] = {s} /\ sub2[prev'[s]] = {} /\ sub2[next'[s]] = {}
    BY <2>1, <2>3 DEF Grown
  <2>5. ASSUME NEW n \in sub[treap]
        PROVE  /\ \A m \in sub2[prev'[n]] : elem[m] < elem[n]
               /\ \A m \in sub2[next'[n]] : elem[n] < elem[m]
    <3>1. p # Nil
      BY <1>4
    <3>2. n = p => k < elem[n]
      BY <3>1, <1>8
    <3>3. p \in sub[prev[n]] => k < elem[n]
      BY <3>1, <1>3
    <3>4. p \in sub[next[n]] => elem[n] < k
      BY <3>1, <1>3
    <3> QED
      BY <3>2, <3>3, <3>4, <2>4, <1>7
  <2>6. Ordered(sub2)'
    BY <2>4, <2>5, <1>2, <1>7 DEF Ordered
  <2>7. \A q \in Sudog : q \notin sub[treap] => prev'[q] = prev[q] /\ next'[q] = next[q]
    BY <2>1, <1>1, <1>2
  <2> QED
    BY <2>1, <2>4, <2>6, <2>7, <1>5, <1>6, Types DEF Inv, Linked
<1>9. CASE p # Nil /\ elem[p] < k
  <2>1. /\ next' \in [Sudog -> Pointer] /\ \A q \in Sudog : next'[q] = IF q = p THEN s ELSE next[q]
        /\ prev' = prev
    <3>1. ~(k < elem[p])
      BY <1>2, <1>9
    <3>2. next' = [next EXCEPT ![p] = s] /\ prev' = prev
      BY <3>1, <1>9 DEF Link
    <3> QED
      BY <3>2, <1>2, <1>9, Types DEF Inv, Pointer
  <2>2. Grow(sub, treap, next, prev, parent, s, p, treap', next', parent')
    BY <2>1, <1>2, <1>3, <1>5, <1>6, <1>9 DEF Grow
  <2>3. PICK sub2 : Grown(sub, treap, next, prev, s, p, sub2, treap', next', parent')
    BY <2>2, <1>1, NewLeafTree
  <2>4. /\ Tree(sub2, treap, prev, next, parent)' /\ sub2[treap'] = sub[treap] \cup {s}
        /\ \A n \in sub[treap] :
             /\ \A m \in sub2[n] : m \in sub[n] \/ m = s
             /\ \A m \in sub2[next'[n]] : m \in sub[next[n]] \/ (m = s /\ (n = p \/ p \in sub[next[n]]))
             /\ \A m \in sub2[prev'[n]] : m \in sub[prev[n]] \/ (m = s /\ p \in sub[prev[n]])
        /\ sub2[s] = {s} /\ sub2[prev'[s]] = {} /\ sub2[next'[s]] = {}
    BY <2>1, <2>3, TreeTwoSided DEF Grown
  <2>5. ASSUME NEW n \in sub[treap]
        PROVE  /\ \A m \in sub2[prev'[n]] : elem[m] < elem[n]
               /\ \A m \in sub2[next'[n]] : elem[n] < elem[m]
    <3>1. p # Nil
      BY <1>4
    <3>2. n = p => elem[n] < k
      BY <3>1, <1>9
    <3>3. p \in sub[prev[n]] => k < elem[n]
      BY <3>1, <1>3
    <3>4. p \in sub[next[n]] => elem[n] < k
      BY <3>1, <1>3
    <3> QED
      BY <3>2, <3>3, <3>4, <2>4, <1>7
  <2>6. Ordered(sub2)'
    BY <2>4, <2>5, <1>2, <1>7 DEF Ordered
  <2>7. \A q \in Sudog : q \notin sub[treap] => prev'[q] = prev[q] /\ next'[q] = next[q]
    BY <2>1, <1>1, <1>2
  <2> QED
    BY <2>1, <2>4, <2>6, <2>7, <1>5, <1>6, Types DEF Inv, Linked
<1> QED
  BY <1>2, <1>8, <1>9

\* Nobody waits for a key that is not found.
LEMMA NotFoundEmpty ==
  ASSUME NEW sub, NEW line, Inv(sub, line), NotFound
  PROVE  call.key \in Key /\ line[call.key] = <<>>
<1>1. pc \in {"search", "walk"} /\ at = Nil /\ pc = "search"
  BY DEF NotFound
<1>2. call.key \in Key
  BY <1>1, SearchAt
<1>3. \A m \in sub[treap] : elem[m] # call.key
  BY <1>1, NothingBelowNil DEF Inv, Route
<1>4. line[call.key] \in Seq(Sudog) /\ Chain(line[call.key], call.key)
  BY <1>2 DEF Inv, Chained
<1>5. ASSUME line[call.key] # <<>> PROVE FALSE
  <2>1. 1 \in 1 .. Len(line[call.key])
    BY <1>4, <1>5
  <2>2. elem[line[call.key][1]] = call.key
    BY <2>1, <1>4 DEF Chain
  <2> QED
    BY <2>2, <1>2, <1>3, <1>5 DEF Inv, Headed
<1> QED
  BY <1>2, <1>5

LEMMA QueuedBack ==
  ASSUME NEW line, NEW line2, NEW s \in Sudog, NEW a \in Addr, NEW k, k \in {a, Masked(a)},
         \A j \in Key : \A i \in 1 .. Len(line[j]) : line[j][i] # s,
         line2 = [line EXCEPT ![k] = Append(line[k], s)]
  PROVE  QueueStep(line, line2)
<1>1. PICK isSync \in BOOLEAN : k = KeyOf(a, isSync)
  BY DEF KeyOf
<1>2. line2 = [line EXCEPT ![KeyOf(a, isSync)] = IF FALSE THEN <<s>> \o @ ELSE Append(@, s)]
  BY <1>1
<1>3. \E lifo \in BOOLEAN :
        line2 = [line EXCEPT ![KeyOf(a, isSync)] = IF lifo THEN <<s>> \o @ ELSE Append(@, s)]
  <2> WITNESS FALSE \in BOOLEAN
  <2> QED
    BY <1>2
<1> QED
  BY <1>3 DEF QueueStep

LEMMA NewLeafStep ==
  ASSUME NEW sub, NEW line, Inv(sub, line), NEW t \in Tickets, NewLeaf(t)
  PROVE  QueueStep(line, [line EXCEPT ![call.key] = <<call.s>>])
<1>1. NotFound /\ pc = "search" /\ call.name = "queue"
  BY DEF NewLeaf, NotFound
<1>2. call.s \in Sudog /\ elem[call.s] = call.key /\ \A i \in 1 .. Len(line[call.key]) : line[call.key][i] # call.s
  BY <1>1 DEF Inv, Called, QueueCall
<1>3. call.addr \in Addr /\ call.key \in {call.addr, Masked(call.addr)}
  BY <1>1 DEF Inv, Called
<1>4. line[call.key] = <<>>
  BY <1>1, NotFoundEmpty
<1>5. \A j \in Key : \A i \in 1 .. Len(line[j]) : line[j][i] # call.s
  BY <1>2 DEF Inv, Chained, Chain
<1>6. [line EXCEPT ![call.key] = <<call.s>>] = [line EXCEPT ![call.key] = Append(line[call.key], call.s)]
  BY <1>4
<1>7. PICK line2 : line2 = [line EXCEPT ![call.key] = <<call.s>>]
  OBVIOUS
<1>8. PICK s, a, k : s = call.s /\ a = call.addr /\ k = call.key
  OBVIOUS
<1>9. /\ s \in Sudog /\ a \in Addr /\ k \in {a, Masked(a)}
      /\ \A j \in Key : \A i \in 1 .. Len(line[j]) : line[j][i] # s
      /\ line2 = [line EXCEPT ![k] = Append(line[k], s)]
  BY <1>2, <1>3, <1>5, <1>6, <1>7, <1>8
<1>10. QueueStep(line, line2)
  BY ONLY <1>9, QueuedBack
<1> QED
  BY <1>7, <1>10

LEMMA NewLeafKeeps ==
  ASSUME NEW sub, NEW line, Inv(sub, line), NEW t \in Tickets, NewLeaf(t)
  PROVE  \E sub2, line2 : Inv(sub2, line2)' /\ QueueStep(line, line2)
<1> PICK k : k = call.key
  OBVIOUS
<1> PICK s : s = call.s
  OBVIOUS
<1> PICK q2 : q2 = <<s>>
  OBVIOUS
<1>1. /\ NotFound /\ pc = "search" /\ at = Nil /\ call.name = "queue" /\ Link(s)
      /\ ticket' = [ticket EXCEPT ![s] = t] /\ parent' = [parent EXCEPT ![s] = last]
      /\ pc' = "up" /\ at' = s
      /\ waitlink' = waitlink /\ waittail' = waittail /\ elem' = elem /\ call' = call
      /\ last' = last /\ target' = target /\ targetPred' = targetPred
  BY DEF NewLeaf, NotFound, lists
<1>2. /\ s \in Sudog /\ elem[s] = k /\ s \notin sub[treap] /\ prev[s] = Nil /\ next[s] = Nil
      /\ waitlink[s] = Nil /\ waittail[s] \in {Nil, s} /\ \A i \in 1 .. Len(line[k]) : line[k][i] # s
  BY <1>1 DEF Inv, Called, QueueCall
<1>3. k \in Key /\ line[k] = <<>> /\ k = call.key
  BY <1>1, NotFoundEmpty
<1>4. PICK sub2 : Linked(sub, sub2, s)
  BY <1>1, <1>2, LeafLinked
<1>t. /\ ticket' \in [Sudog -> Tickets \cup {0}]
      /\ \A p \in Sudog : p # s => ticket'[p] = ticket[p]
  BY <1>1, <1>2, Types DEF Inv
<1>5. q2 \in Seq(Sudog) /\ Len(q2) = 1 /\ q2[1] = s /\ q2 # <<>>
  BY <1>2
<1>6. Chain(q2, k)'
  BY <1>1, <1>2, <1>5 DEF Chain
<1> PICK line2 : line2 = [line EXCEPT ![k] = q2]
  OBVIOUS
<1>10. Chained(line2)' /\ Headed(sub2, line2)' /\ Waiting(line2)'
  <2>1. \A p \in Sudog : elem'[p] = elem[p] /\ waitlink'[p] = waitlink[p] /\ waittail'[p] = waittail[p]
    BY <1>1
  <2>2. ASSUME NEW p \in Sudog, elem'[p] = k PROVE \E i \in 1 .. Len(q2) : q2[i] = p
    <3>1. p = s
      <4>1. p # s => \E i \in 1 .. Len(line[k]) : line[k][i] = p
        BY <2>2, <1>1, <1>3, KeyFacts DEF Inv, Waiting, Arriving
      <4> QED
        BY <4>1, <1>3
    <3> QED
      BY <3>1, <1>5
  <2>3. \A n \in sub[treap] : elem[n] # k
    BY <1>3 DEF Inv, Headed
  <2>p. sub2[treap'] = sub[treap] \cup {s}
    BY <1>4 DEF Linked
  <2>4. \A n \in sub2[treap'] : (n \in sub[treap] /\ elem[n] # k) \/ (q2 # <<>> /\ q2[1] = n)
    BY <2>3, <2>p, <1>5
  <2>5. q2 # <<>> => q2[1] \in sub2[treap']
    BY <2>p, <1>5
  <2>6. \A n \in sub[treap] : elem[n] # k => n \in sub2[treap']
    BY <2>p
  <2>7. \A p \in Sudog : elem'[p] \in {elem[p], Nil}
    BY <1>1
  <2>8. pc = "search" /\ call.name = "queue" => call.key = k
    OBVIOUS
  <2>9. NewLine(sub, sub2, k, q2)
    BY <2>1, <2>2, <2>4, <2>5, <2>6, <2>7, <2>8, <1>3, <1>5, <1>6 DEF NewLine
  <2> QED
    BY <2>9, LineChanges
<1>11. ReleasedClean'
  <2>2. ASSUME NEW p \in Sudog, elem[p] = Nil PROVE IsClean(p)'
    <3>1. p # s
      BY <2>2, <1>2, <1>3, KeyFacts
    <3>p. p \notin sub[treap]
      BY <2>2, KeyFacts DEF Inv, Ordered
    <3>2. prev'[p] = prev[p] /\ next'[p] = next[p] /\ parent'[p] = Nil
      BY <3>1, <3>p, <1>4 DEF Linked, Tree
    <3>3. IsClean(p)
      BY <2>2, CleanEach DEF Inv
    <3> QED
      BY <3>1, <3>2, <3>3, <1>1, <1>t DEF IsClean
  <2> QED
    BY <2>2, <1>1, CleanEach
<1>12. Tree(sub2, treap, prev, next, parent)' /\ Ordered(sub2)'
  BY <1>4 DEF Linked
<1>13. Heaped(sub2)'
  <2>1. \A n \in sub[treap] : \A m \in sub[n] : ticket[n] <= ticket[m]
    BY <1>1 DEF Inv, Heaped
  <2>2. /\ sub2[treap'] = sub[treap] \cup {s}
        /\ sub2[s] = {s} /\ \A n \in sub[treap] : \A m \in sub2[n] : m \in sub[n] \/ m = s
    BY <1>4 DEF Linked
  <2>3. \A n \in sub[treap] : sub[n] \subseteq Sudog /\ n # s /\ n \in Sudog
    BY <1>2 DEF Inv, Tree, Pointer
  <2>4. ASSUME NEW n \in sub2[treap'], NEW m \in sub2[n], m # s PROVE ticket'[n] <= ticket'[m]
    BY <2>1, <2>2, <2>3, <2>4, <1>t
  <2> QED
    BY <2>4, <1>1 DEF Heaped
<1>14. Route(sub2)'
  BY <1>1 DEF Route
<1>15. TypeOK'
  BY <1>1, <1>2, <1>4, <1>t, Types DEF Inv, TypeOK, Linked, Pointer
<1>16. Called(sub2, line2)'
  <2>1. s \in sub2[treap']
    BY <1>4 DEF Linked
  <2>2. QueueCall(sub2, line2)'
    BY <2>1, <1>1, <1>2 DEF QueueCall
  <2>3. call.addr \in Addr /\ call.key \in {call.addr, Masked(call.addr)}
    BY <1>1 DEF Inv, Called
  <2> QED
    BY <2>2, <2>3, <1>1 DEF Called
<1>17. QueueStep(line, line2)
  <2>1. QueueStep(line, [line EXCEPT ![call.key] = <<call.s>>])
    BY NewLeafStep
  <2> QED
    BY <2>1
<1> QED
  BY <1>10, <1>11, <1>12, <1>13, <1>14, <1>15, <1>16, <1>17 DEF Inv

\* The first in line leaves.
LEMMA HeadLeaves ==
  ASSUME NEW sub, NEW line, Inv(sub, line), at \in sub[treap], elem[at] = call.key, pc # "unlocked",
         call.name = "dequeue" \/ (call.name = "gcDequeue" /\ at = call.s),
         NEW line2, line2 = [line EXCEPT ![call.key] = Tail(line[call.key])]
  PROVE  DequeueStep(line, line2) \/ GcDequeueStep(line, line2)
<1> PICK k : k = call.key
  OBVIOUS
<1> PICK a : a = call.addr
  OBVIOUS
<1>1. HeldLine(sub, line[k], k)
  BY HoldsLine
<1>2. a \in Addr /\ k \in {a, Masked(a)} /\ k \in Key /\ Masked(a) \in Key
  BY KeyFacts DEF Inv, Called
<1>3. line[k] # <<>> /\ line[k] \in Seq(Sudog) /\ line[k][1] = at /\ 1 \in 1 .. Len(line[k]) /\ at \in Sudog
  BY <1>1 DEF HeldLine
<1>4. line2 = [line EXCEPT ![k] = Tail(@)]
  OBVIOUS
<1>5. CASE call.name = "dequeue"
  <2>1. k = KeyOf(a, line[Masked(a)] # <<>>)
    <3>1. CASE k = Masked(a)
      BY <3>1, <1>3 DEF KeyOf
    <3>2. CASE k # Masked(a)
      <4>1. \A n \in sub[treap] : elem[n] # Masked(a)
        BY <3>2, <1>5 DEF Inv, Called, DequeueCall
      <4>2. ASSUME line[Masked(a)] # <<>> PROVE FALSE
        <5>1. line[Masked(a)] \in Seq(Sudog) /\ Chain(line[Masked(a)], Masked(a))
          BY <1>2 DEF Inv, Chained
        <5>2. 1 \in 1 .. Len(line[Masked(a)])
          BY <5>1, <4>2
        <5>3. elem[line[Masked(a)][1]] = Masked(a)
          BY <5>1, <5>2 DEF Chain
        <5> QED
          BY <5>3, <4>1, <4>2, <1>2 DEF Inv, Headed
      <4> QED
        BY <4>2, <3>2, <1>2 DEF KeyOf
    <3> QED
      BY <3>1, <3>2
  <2>2. DequeueStep(line, line2)
    BY <2>1, <1>2, <1>3, <1>4 DEF DequeueStep
  <2> QED
    BY <2>2
<1>6. CASE call.name = "gcDequeue" /\ at = call.s
  <2>1. k = Masked(a)
    BY <1>6 DEF Inv, Called, GcDequeueCall
  <2>2. RemoveAt(line[k], 1) = Tail(line[k])
    BY <1>3, RemovedFirst
  <2>3. line2 = [line EXCEPT ![Masked(a)] = RemoveAt(@, 1)]
    BY <2>1, <2>2, <1>4
  <2>4. \E i \in 1 .. Len(line[Masked(a)]) :
          line[Masked(a)][i] = at /\ line2 = [line EXCEPT ![Masked(a)] = RemoveAt(@, i)]
    <3>1. 1 \in 1 .. Len(line[Masked(a)]) /\ line[Masked(a)][1] = at
      BY <2>1, <1>3
    <3> 1 \in 1 .. Len(line[Masked(a)])
      BY <3>1
    <3> WITNESS 1 \in 1 .. Len(line[Masked(a)])
    <3> QED
      BY <3>1, <2>3
  <2>5. GcDequeueStep(line, line2)
    BY <2>4, <1>2, <1>3 DEF GcDequeueStep
  <2> QED
    BY <2>5
<1> QED
  BY <1>5, <1>6

LEMMA RemoveLeafKeeps ==
  ASSUME NEW sub, NEW line, Inv(sub, line), RemoveLeaf
  PROVE  \E sub2, line2 : Inv(sub2, line2)' /\ (DequeueStep(line, line2) \/ GcDequeueStep(line, line2))
<1> PICK k : k = call.key
  OBVIOUS
<1> PICK q : q = line[k]
  OBVIOUS
<1> PICK p : p = parent[at]
  OBVIOUS
<1> PICK q2 : q2 = Tail(q)
  OBVIOUS
<1>1. /\ pc = "down" /\ Unlock /\ prev[at] = Nil /\ next[at] = Nil
      /\ elem' = [elem EXCEPT ![at] = Nil] /\ ticket' = [ticket EXCEPT ![at] = 0]
      /\ waitlink' = waitlink /\ waittail' = waittail
      /\ treap' = IF p = Nil THEN Nil ELSE treap
      /\ prev' = IF p # Nil /\ prev[p] = at THEN [prev EXCEPT ![p] = Nil] ELSE prev
      /\ next' = IF p # Nil /\ prev[p] # at THEN [next EXCEPT ![p] = Nil] ELSE next
      /\ parent' = [parent EXCEPT ![at] = Nil]
  BY DEF RemoveLeaf, Reset, lists
<1>2. /\ at \in sub[treap] /\ elem[at] = k /\ waitlink[at] = Nil /\ at \in Sudog
      /\ call.name = "dequeue" \/ (call.name = "gcDequeue" /\ at = call.s)
  <2>1. Called(sub, line) /\ call.name \in {"none", "queue", "dequeue", "gcDequeue"}
    BY Types DEF Inv
  <2>2. at \in sub[treap] /\ elem[at] = k /\ waitlink[at] = Nil
    BY <2>1, <1>1 DEF Called
  <2>3. call.name # "none" /\ call.name # "queue"
    BY <2>1, <1>1 DEF Called, QueueCall
  <2>4. call.name = "gcDequeue" => at = call.s
    BY <2>1, <1>1 DEF Called, GcDequeueCall
  <2> QED
    BY <2>1, <2>2, <2>3, <2>4 DEF Inv, Tree
<1>3. HeldLine(sub, q, k)
  BY <1>2, HoldsLine
<1>4. k \in Key /\ k # Nil /\ q \in Seq(Sudog) /\ q # <<>> /\ Len(q) = 1 /\ q[1] = at /\ waittail[at] \in {Nil, at}
  BY <1>2, <1>3, KeyFacts DEF HeldLine
<1>5. q2 = <<>> /\ q2 \in Seq(Sudog) /\ Len(q2) = 0
  <2>1. q2 \in Seq(Sudog) /\ Len(q2) = 0
    BY <1>4, Popped
  <2> QED
    BY <2>1
<1>t. Tree(sub, treap, prev, next, parent) /\ Nil \notin Sudog
  BY KeyFacts DEF Inv
<1>e. /\ elem' \in [Sudog -> Key \cup {Nil}] /\ ticket' \in [Sudog -> Tickets \cup {0}]
      /\ elem'[at] = Nil /\ ticket'[at] = 0
      /\ \A m \in Sudog : m # at => elem'[m] = elem[m] /\ ticket'[m] = ticket[m]
  BY <1>1, <1>2, Types DEF Inv
<1>6. /\ prev' \in [Sudog -> Pointer] /\ next' \in [Sudog -> Pointer] /\ parent' \in [Sudog -> Pointer]
      /\ treap' \in Pointer
      /\ \A m \in Sudog : /\ prev'[m] = IF m = p /\ prev[m] = at THEN Nil ELSE prev[m]
                          /\ next'[m] = IF m = p /\ next[m] = at THEN Nil ELSE next[m]
                          /\ parent'[m] = IF m = at THEN Nil ELSE parent[m]
  <2>1. \A m \in Sudog : m = p => (prev[m] = at <=> next[m] # at)
    BY <1>t, <1>2, ParentLink
  <2>2. p \in Pointer /\ Nil \in Pointer /\ (p # Nil => p \in Sudog)
    BY <1>2, Types DEF Inv, Pointer
  <2>3. prev \in [Sudog -> Pointer] /\ next \in [Sudog -> Pointer] /\ parent \in [Sudog -> Pointer] /\ treap \in Pointer
    BY Types DEF Inv
  <2>4. prev' \in [Sudog -> Pointer] /\ \A m \in Sudog : prev'[m] = IF m = p /\ prev[m] = at THEN Nil ELSE prev[m]
    BY <2>2, <2>3, <1>1, <1>t
  <2>5. next' \in [Sudog -> Pointer] /\ \A m \in Sudog : next'[m] = IF m = p /\ next[m] = at THEN Nil ELSE next[m]
    BY <2>1, <2>2, <2>3, <1>1, <1>t
  <2>6. parent' \in [Sudog -> Pointer] /\ \A m \in Sudog : parent'[m] = IF m = at THEN Nil ELSE parent[m]
    BY <2>2, <2>3, <1>1, <1>2
  <2>7. treap' \in Pointer
    BY <2>2, <2>3, <1>1
  <2> QED
    BY <2>4, <2>5, <2>6, <2>7
<1>7. Drop(treap, prev, next, parent, at, treap', prev', next', parent')
  BY <1>1, <1>6 DEF Drop
<1>8. PICK sub2 : Dropped(sub, treap, prev, next, at, sub2, treap', prev', next', parent')
  BY <1>t, <1>2, <1>7, DropLeafTree
<1>9. /\ Tree(sub2, treap, prev, next, parent)' /\ sub2[treap'] = sub[treap] \ {at}
      /\ \A n \in sub[treap] : n # at =>
           sub2[n] \subseteq sub[n] \ {at} /\ sub2[prev'[n]] \subseteq sub[prev[n]] /\ sub2[next'[n]] \subseteq sub[next[n]]
  BY <1>8 DEF Dropped
<1>s. \A n \in sub[treap] : n \in Sudog /\ sub[n] \subseteq sub[treap] /\ sub[prev[n]] \subseteq sub[treap]
                            /\ sub[next[n]] \subseteq sub[treap]
  BY <1>t, TreeNode DEF Node
<1> PICK line2 : line2 = [line EXCEPT ![k] = q2]
  OBVIOUS
<1>10. Chained(line2)' /\ Headed(sub2, line2)' /\ Waiting(line2)'
  <2>1. \A m \in Sudog : elem[m] # k => elem'[m] = elem[m] /\ waitlink'[m] = waitlink[m] /\ waittail'[m] = waittail[m]
    BY <1>1, <1>2, <1>e
  <2>2. ASSUME NEW m \in Sudog, elem'[m] = k PROVE FALSE
    <3>1. m # at /\ elem[m] = k
      BY <2>2, <1>4, <1>e
    <3>2. \E i \in 1 .. Len(q) : q[i] = m
      BY <3>1, <1>1, <1>4 DEF Inv, Waiting, Arriving
    <3> QED
      BY <3>1, <3>2, <1>4
  <2>3. \A n \in sub2[treap'] : n \in sub[treap] /\ elem[n] # k
    BY <1>4, <1>9 DEF Inv, Headed
  <2>4. \A n \in sub[treap] : elem[n] # k => n \in sub2[treap']
    BY <1>2, <1>9
  <2>5. \A m \in Sudog : elem'[m] \in {elem[m], Nil}
    BY <1>e
  <2>6. Chain(q2, k)'
    <3>0. \A i \in 1 .. 0 : FALSE
      OBVIOUS
    <3>1. Len(q2) = 0
      BY <1>5
    <3> QED
      BY <3>0, <3>1, <1>5 DEF Chain
  <2>7. NewLine(sub, sub2, k, q2)
    BY <2>1, <2>2, <2>3, <2>4, <2>5, <2>6, <1>1, <1>4, <1>5 DEF NewLine
  <2> QED
    BY <2>7, LineChanges
<1>11. ReleasedClean'
  <2>1. ASSUME NEW m \in Sudog, elem'[m] = Nil PROVE IsClean(m)'
    <3>1. CASE m = at
      <4>1. prev'[at] = Nil /\ next'[at] = Nil /\ parent'[at] = Nil
        BY <1>1, <1>2, <1>6
      <4> QED
        BY <4>1, <3>1, <1>1, <1>2, <1>4, <1>e DEF IsClean
    <3>2. CASE m # at
      <4>1. elem[m] = Nil
        BY <2>1, <3>2, <1>e
      <4>2. m \notin sub[treap]
        BY <4>1, KeyFacts DEF Inv, Ordered
      <4>3. m # p
        BY <4>2, <1>t, <1>2 DEF Tree
      <4>4. IsClean(m)
        BY <4>1, CleanEach DEF Inv
      <4> QED
        BY <4>3, <4>4, <3>2, <1>1, <1>6, <1>e DEF IsClean
    <3> QED
      BY <3>1, <3>2
  <2> QED
    BY <2>1, CleanEach
<1>12. Ordered(sub2)'
  <2>1. ASSUME NEW n \in sub[treap], n # at
        PROVE  /\ elem'[n] \in Key
               /\ \A m \in sub2[prev'[n]] : elem'[m] < elem'[n]
               /\ \A m \in sub2[next'[n]] : elem'[n] < elem'[m]
    <3>1. /\ elem[n] \in Key /\ elem'[n] = elem[n]
          /\ \A m \in sub[prev[n]] : elem[m] < elem[n]
          /\ \A m \in sub[next[n]] : elem[n] < elem[m]
      BY <2>1, <1>e, <1>s DEF Inv, Ordered
    <3>2. /\ \A m \in sub2[prev'[n]] : m \in sub[prev[n]] /\ elem'[m] = elem[m]
          /\ \A m \in sub2[next'[n]] : m \in sub[next[n]] /\ elem'[m] = elem[m]
      <4>1. n \in sub2[treap']
        BY <2>1, <1>9
      <4>2. sub2[prev'[n]] \subseteq sub2[treap'] /\ sub2[next'[n]] \subseteq sub2[treap']
        BY <4>1, <1>9, <1>t, TreeNode DEF Node
      <4> QED
        BY <4>2, <2>1, <1>9, <1>e, <1>s
    <3> QED
      BY <3>1, <3>2
  <2> QED
    BY <2>1, <1>9 DEF Ordered
<1>13. Heaped(sub2)'
  <2>1. ASSUME NEW n \in sub[treap], n # at, NEW m \in sub2[n] PROVE ticket'[n] <= ticket'[m]
    <3>1. m \in sub[n] /\ m # at /\ m \in Sudog /\ n \in Sudog
      BY <2>1, <1>9, <1>s
    <3> QED
      BY <3>1, <2>1, <1>e DEF Inv, Heaped
  <2> QED
    BY <2>1, <1>9 DEF Heaped
<1>14. TypeOK'
  BY <1>1, <1>6, <1>e, Types, UnlockTypes DEF Inv
<1>15. Route(sub2)' /\ Called(sub2, line2)'
  BY <1>1, Unlocks
<1>16. DequeueStep(line, line2) \/ GcDequeueStep(line, line2)
  BY <1>1, <1>2, HeadLeaves
<1> QED
  BY <1>9, <1>10, <1>11, <1>12, <1>13, <1>14, <1>15, <1>16 DEF Inv

LEMMA PopFrontKeeps ==
  ASSUME NEW sub, NEW line, Inv(sub, line), PopFront
  PROVE  \E sub2, line2 : Inv(sub2, line2)' /\ (DequeueStep(line, line2) \/ GcDequeueStep(line, line2))
<1> PICK k : k = call.key
  OBVIOUS
<1> PICK q : q = line[k]
  OBVIOUS
<1> PICK t : t = waitlink[at]
  OBVIOUS
<1> PICK q2 : q2 = Tail(q)
  OBVIOUS
<1> PICK end : end = IF waitlink[t] = Nil THEN Nil ELSE waittail[at]
  OBVIOUS
<1>1. /\ Unlock /\ TakePlace(t, at)
      /\ elem' = [elem EXCEPT ![at] = Nil]
      /\ ticket' = [ticket EXCEPT ![t] = ticket[at], ![at] = 0]
      /\ waitlink' = [waitlink EXCEPT ![at] = Nil]
      /\ waittail' = [waittail EXCEPT ![t] = end, ![at] = Nil]
  BY DEF PopFront, Reset
<1>2. /\ pc \in {"search", "walk"} /\ pc # "unlocked" /\ at # Nil /\ t # Nil /\ elem[at] = k /\ at \in sub[treap]
      /\ call.name = "dequeue" \/ (call.name = "gcDequeue" /\ at = call.s)
  <2>1. CASE Found /\ call.name = "dequeue" /\ t # Nil
    BY <2>1, FoundLine DEF Found
  <2>2. CASE pc = "walk" /\ target = call.s /\ target = at
    <3>1. Walk(sub, line)
      BY <2>2 DEF Inv, Called
    <3>2. at # Nil
      BY <3>1, KeyFacts DEF Inv, Tree, Walk
    <3> QED
      BY <3>1, <3>2, <2>2 DEF Walk
  <2> QED
    BY <2>1, <2>2 DEF PopFront
<1>3. HeldLine(sub, q, k)
  BY <1>2, HoldsLine
<1>n. /\ k \in Key /\ k # Nil /\ Nil \notin Sudog /\ q \in Seq(Sudog) /\ q # <<>> /\ at \in Sudog /\ q[1] = at
      /\ Len(q) \in Nat /\ Len(q) >= 2 /\ waittail[at] = q[Len(q)]
      /\ \A i \in 1 .. Len(q) : q[i] \in Sudog /\ elem[q[i]] = k /\ q[i] # Nil
      /\ \A i \in 1 .. Len(q) : waitlink[q[i]] = IF i = Len(q) THEN Nil ELSE q[i + 1]
      /\ \A i, j \in 1 .. Len(q) : q[i] = q[j] => i = j
      /\ \A i \in 2 .. Len(q) : q[i] \notin sub[treap] /\ q[i] # at
  <2>1. Len(q) # 1
    BY <1>2, <1>3 DEF HeldLine
  <2>2. \A n \in Nat : n >= 1 /\ n # 1 => n >= 2
    OBVIOUS
  <2> QED
    BY <2>1, <2>2, <1>3, KeyFacts DEF HeldLine
<1>4. t = q[2] /\ t \in Sudog /\ elem[t] = k /\ t \notin sub[treap] /\ t # at
  <2>1. 1 \in 1 .. Len(q) /\ 2 \in 1 .. Len(q) /\ 2 \in 2 .. Len(q) /\ 1 + 1 = 2 /\ 1 # Len(q)
    BY <1>n
  <2>2. waitlink[q[1]] = q[2]
    BY <2>1, <1>n
  <2> QED
    BY <2>1, <2>2, <1>n
<1>5. /\ elem' \in [Sudog -> Key \cup {Nil}] /\ elem'[at] = Nil
      /\ \A m \in Sudog : m # at => elem'[m] = elem[m]
  BY <1>1, <1>n, Types DEF Inv
<1>t. /\ ticket' \in [Sudog -> Tickets \cup {0}] /\ ticket'[at] = 0 /\ ticket'[t] = ticket[at]
      /\ \A m \in Sudog : m # at /\ m # t => ticket'[m] = ticket[m]
  BY <1>1, <1>n, <1>4, Types DEF Inv
<1>6. /\ waitlink' \in [Sudog -> Pointer] /\ waitlink'[at] = Nil
      /\ \A m \in Sudog : m # at => waitlink'[m] = waitlink[m]
  BY <1>1, <1>n, KeyFacts, Types DEF Inv
<1>7. /\ waittail' \in [Sudog -> Pointer] /\ waittail'[at] = Nil /\ waittail'[t] = end
      /\ \A m \in Sudog : m # at /\ m # t => waittail'[m] = waittail[m]
  <2>1. end \in Pointer
    BY <1>n, KeyFacts, Types DEF Inv
  <2> QED
    BY <2>1, <1>1, <1>n, <1>4, KeyFacts, Types DEF Inv
<1>8. /\ q2 \in Seq(Sudog) /\ Len(q2) = Len(q) - 1 /\ Len(q2) \in Nat /\ Len(q2) >= 1 /\ q2 # <<>> /\ q2[1] = t
      /\ \A i \in 1 .. Len(q2) : /\ q2[i] = q[i + 1] /\ i + 1 \in 2 .. Len(q) /\ i + 1 \in 1 .. Len(q)
                                 /\ i = Len(q2) <=> i + 1 = Len(q)
                                 /\ i # Len(q2) => i + 1 \in 1 .. Len(q2)
  <2>1. /\ q2 \in Seq(Sudog) /\ Len(q2) = Len(q) - 1
        /\ \A i \in 1 .. Len(q) - 1 : q2[i] = q[i + 1]
    BY <1>n, Popped
  <2>2. Len(q2) \in Nat /\ Len(q2) >= 1 /\ 1 \in 1 .. Len(q) - 1 /\ 1 + 1 = 2
    BY <2>1, <1>n
  <2>3. \A i \in 1 .. Len(q2) : /\ i \in 1 .. Len(q) - 1 /\ i + 1 \in 2 .. Len(q) /\ i + 1 \in 1 .. Len(q)
                                /\ i = Len(q2) <=> i + 1 = Len(q)
                                /\ i # Len(q2) => i + 1 \in 1 .. Len(q2)
    BY <2>1, <1>n
  <2>4. q2[1] = t
    BY <2>1, <2>2, <1>4
  <2>5. q2 # <<>>
    <3>1. \A w : w = <<>> => Len(w) = 0
      OBVIOUS
    <3>2. Len(q2) # 0
      <4>1. \A n \in Nat : n >= 1 => n # 0
        OBVIOUS
      <4> QED
        BY ONLY <2>2, <4>1
    <3> QED
      BY <3>1, <3>2
  <2>6. \A i \in 1 .. Len(q2) : q2[i] = q[i + 1]
    BY <2>1, <2>3
  <2> QED
    BY <2>1, <2>2, <2>3, <2>4, <2>5, <2>6
<1>9. Chain(q2, k)'
  <2>1. ASSUME NEW i \in 1 .. Len(q2)
        PROVE  elem'[q2[i]] = k /\ waitlink'[q2[i]] = IF i = Len(q2) THEN Nil ELSE q2[i + 1]
    <3>1. q2[i] \in Sudog /\ q2[i] # at /\ elem[q2[i]] = k
          /\ waitlink[q2[i]] = IF i + 1 = Len(q) THEN Nil ELSE q[(i + 1) + 1]
      BY <1>n, <1>8
    <3>2. i # Len(q2) => q2[i + 1] = q[(i + 1) + 1]
      BY <1>8
    <3>3. elem'[q2[i]] = k /\ waitlink'[q2[i]] = waitlink[q2[i]]
      BY <3>1, <1>5, <1>6
    <3>4. i = Len(q2) <=> i + 1 = Len(q)
      BY <1>8
    <3> QED
      BY <3>1, <3>2, <3>3, <3>4
  <2>2. ASSUME NEW i \in 1 .. Len(q2), NEW j \in 1 .. Len(q2), q2[i] = q2[j] PROVE i = j
    <3>1. i + 1 \in 1 .. Len(q) /\ j + 1 \in 1 .. Len(q) /\ q[i + 1] = q[j + 1]
      BY <2>2, <1>8
    <3>2. i + 1 = j + 1
      BY <3>1, <1>n
    <3> QED
      BY <3>2
  <2>3. /\ Len(q2) = 1 => waittail'[q2[1]] \in {Nil, q2[1]}
        /\ Len(q2) # 1 => waittail'[q2[1]] = q2[Len(q2)]
    <3>1. 1 \in 1 .. Len(q2) /\ Len(q2) \in 1 .. Len(q2) /\ Len(q2) + 1 = Len(q) /\ 1 + 1 = 2
      BY <1>n, <1>8
    <3>2. waitlink'[t] = waitlink[t] /\ waitlink'[t] = IF 1 = Len(q2) THEN Nil ELSE q2[1 + 1]
      <4>1. q2[1] = t
        BY <1>8
      <4>2. waitlink'[q2[1]] = IF 1 = Len(q2) THEN Nil ELSE q2[1 + 1]
        BY <2>1, <3>1
      <4>3. waitlink'[t] = waitlink[t]
        BY <1>4, <1>6
      <4> QED
        BY <4>1, <4>2, <4>3
    <3>3. Len(q2) # 1 => q2[1 + 1] # Nil
      <4>1. Len(q2) # 1 => 1 + 1 \in 1 .. Len(q2)
        BY <3>1, <1>8
      <4> QED
        BY <4>1, <1>n, <1>8
    <3>4. q2[Len(q2)] = q[Len(q)]
      BY <3>1, <1>8
    <3>5. q2[1] = t /\ waittail'[t] = end
      BY <1>7, <1>8
    <3>6. Len(q2) = 1 => end = Nil
      BY <3>2
    <3>7. Len(q2) # 1 => end = q2[Len(q2)]
      <4>1. Len(q2) # 1 => waitlink[t] # Nil
        BY <3>2, <3>3
      <4>2. waittail[at] = q[Len(q)]
        BY <1>n
      <4> QED
        BY <4>1, <4>2, <3>4
    <3> QED
      BY <3>5, <3>6, <3>7
  <2> QED
    BY <2>1, <2>2, <2>3 DEF Chain
<1>p. PICK sub2 : TookPlace(sub, sub2, t)
  <2>1. elem'[t] = elem[at] /\ ticket'[t] = ticket[at]
    BY <1>2, <1>4, <1>5, <1>t
  <2>2. \A n \in sub[treap] : n # at => elem'[n] = elem[n] /\ ticket'[n] = ticket[n]
    BY <1>4, <1>5, <1>t DEF Inv, Tree
  <2> QED
    BY <2>1, <2>2, <1>1, <1>2, <1>4, PlaceTaken
<1> PICK line2 : line2 = [line EXCEPT ![k] = q2]
  OBVIOUS
<1>10. Chained(line2)' /\ Headed(sub2, line2)' /\ Waiting(line2)'
  <2>1. ASSUME NEW p \in Sudog, elem[p] # k
        PROVE  elem'[p] = elem[p] /\ waitlink'[p] = waitlink[p] /\ waittail'[p] = waittail[p]
    BY <2>1, <1>2, <1>4, <1>5, <1>6, <1>7
  <2>2. ASSUME NEW p \in Sudog, elem'[p] = k PROVE \E i \in 1 .. Len(q2) : q2[i] = p
    <3>1. p # at /\ elem[p] = k
      BY <2>2, <1>n, <1>5
    <3>2. ~ Arriving(p)
      BY <1>2 DEF Arriving
    <3>3. PICK i \in 1 .. Len(q) : q[i] = p
      BY <3>1, <3>2, <1>n DEF Inv, Waiting
    <3>4. i # 1
      BY <3>1, <3>3, <1>n
    <3>5. i - 1 \in 1 .. Len(q2) /\ (i - 1) + 1 = i
      BY <3>3, <3>4, <1>n, <1>8
    <3>6. q2[i - 1] = p
      BY <3>3, <3>5, <1>8
    <3> QED
      BY <3>5, <3>6
  <2>3. \A n \in sub[treap] : elem[n] = k => at = n
    BY <1>n DEF Inv, Headed
  <2>p. \A m : m \in sub2[treap'] <=> (m \in sub[treap] /\ m # at) \/ m = t
    BY <1>p DEF TookPlace
  <2>4. \A n \in sub2[treap'] : (n \in sub[treap] /\ elem[n] # k) \/ (q2 # <<>> /\ q2[1] = n)
    BY <2>3, <2>p, <1>8
  <2>5. q2 # <<>> => q2[1] \in sub2[treap']
    BY <2>p, <1>8
  <2>6. \A n \in sub[treap] : elem[n] # k => n \in sub2[treap']
    BY <2>p, <1>2
  <2>7. \A p \in Sudog : elem'[p] \in {elem[p], Nil}
    BY <1>5
  <2>8. pc = "search" /\ call.name = "queue" => call.key = k
    OBVIOUS
  <2>9. NewLine(sub, sub2, k, q2)
    BY <2>1, <2>2, <2>4, <2>5, <2>6, <2>7, <2>8, <1>n, <1>8, <1>9 DEF NewLine
  <2> QED
    BY <2>9, LineChanges
<1>11. ReleasedClean'
  <2>1. ASSUME NEW m \in Sudog, elem'[m] = Nil PROVE IsClean(m)'
    <3>1. m # t /\ m \notin sub2[treap']
      <4>1. m # t
        BY <2>1, <1>n, <1>4, <1>5
      <4>2. m \in sub[treap] => m = at
        <5>1. m \in sub[treap] => elem[m] # Nil
          BY KeyFacts DEF Inv, Ordered
        <5> QED
          BY <5>1, <2>1, <1>5
      <4> QED
        BY <4>1, <4>2, <1>p DEF TookPlace
    <3>2. parent'[m] = Nil
      BY <3>1, <1>p DEF TookPlace, Tree
    <3>3. CASE m = at
      BY <3>2, <3>3, <1>p, <1>t, <1>6, <1>7 DEF IsClean, TookPlace
    <3>4. CASE m # at
      <4>1. elem[m] = Nil
        BY <2>1, <3>4, <1>5
      <4>2. m \notin sub[treap]
        BY <4>1, KeyFacts DEF Inv, Ordered
      <4>3. prev'[m] = prev[m] /\ next'[m] = next[m]
        BY <4>2, <3>1, <1>p DEF TookPlace
      <4>4. IsClean(m)
        BY <4>1, CleanEach DEF Inv
      <4> QED
        BY <4>3, <4>4, <3>1, <3>2, <3>4, <1>t, <1>6, <1>7 DEF IsClean
    <3> QED
      BY <3>3, <3>4
  <2> QED
    BY <2>1, CleanEach
<1>12. Tree(sub2, treap, prev, next, parent)' /\ Ordered(sub2)' /\ Heaped(sub2)'
  BY <1>p DEF TookPlace
<1>13. TypeOK'
  BY <1>1, <1>5, <1>6, <1>7, <1>t, <1>p, Types, UnlockTypes DEF Inv, TookPlace
<1>14. Route(sub2)' /\ Called(sub2, line2)'
  BY <1>1, Unlocks
<1>15. DequeueStep(line, line2) \/ GcDequeueStep(line, line2)
  BY <1>2, HeadLeaves
<1> QED
  BY <1>10, <1>11, <1>12, <1>13, <1>14, <1>15 DEF Inv

\* x, the i-th waiter of q and not the first, is unlinked from behind y, which leaves q2.
Withdrawn(q, i, q2, x, y) ==
  /\ i \in 2 .. Len(q) /\ q2 = RemoveAt(q, i) /\ x = q[i] /\ y = q[i - 1]
  /\ \A m \in Sudog : m # x => elem'[m] = elem[m]
  /\ \A m \in Sudog : m # x => waitlink'[m] = IF m = y THEN waitlink[x] ELSE waitlink[m]
  /\ waittail'[at] = IF waitlink[x] = Nil THEN y ELSE waittail[at]

\* The queue without its i-th waiter, i # 1.
LEMMA ChainWithout ==
  ASSUME NEW sub, NEW q, NEW k, HeldLine(sub, q, k), TypeOK,
         NEW i, NEW q2, NEW x, NEW y, Withdrawn(q, i, q2, x, y)
  PROVE  /\ Chain(q2, k)' /\ q2 \in Seq(Sudog) /\ q2 # <<>> /\ q2[1] = at /\ x \in Sudog /\ x # at /\ y \in Sudog
         /\ x \notin sub[treap] /\ elem[x] = k /\ elem[y] = k /\ x # y
         /\ \A m \in 1 .. Len(q) : m # i => \E n \in 1 .. Len(q2) : q2[n] = q[m]
<1> i \in 2 .. Len(q) /\ q2 = RemoveAt(q, i) /\ x = q[i] /\ y = q[i - 1]
  BY DEF Withdrawn
<1>w. /\ \A m \in Sudog : m # x => elem'[m] = elem[m]
      /\ \A m \in Sudog : m # x => waitlink'[m] = IF m = y THEN waitlink[x] ELSE waitlink[m]
      /\ waittail'[at] = IF waitlink[x] = Nil THEN y ELSE waittail[at]
  BY DEF Withdrawn
<1> PICK len : len = Len(q)
  OBVIOUS
<1>1. /\ q \in Seq(Sudog) /\ len \in Nat /\ i \in Nat /\ 2 <= i /\ i <= len /\ q[1] = at /\ at \in Sudog
      /\ i \in 1 .. len /\ i - 1 \in 1 .. len /\ i # 1 /\ i # i - 1 /\ 1 \in 1 .. len
      /\ \A m \in 1 .. len : q[m] \in Sudog /\ elem[q[m]] = k /\ q[m] # Nil
      /\ \A m \in 1 .. len : waitlink[q[m]] = IF m = len THEN Nil ELSE q[m + 1]
      /\ \A m, n \in 1 .. len : q[m] = q[n] => m = n
      /\ waittail[at] = q[len] /\ x \notin sub[treap] /\ x # at
  <2>1. q \in Seq(Sudog) /\ len \in Nat /\ q[1] = at /\ at \in Sudog
    BY DEF HeldLine
  <2>2. /\ i \in Nat /\ 2 <= i /\ i <= len /\ i \in 1 .. len /\ i - 1 \in 1 .. len /\ i # 1 /\ i # i - 1
        /\ 1 \in 1 .. len /\ len # 1
    BY <2>1
  <2> QED
    BY <2>1, <2>2 DEF HeldLine
<1>2. /\ q2 \in Seq(Sudog) /\ Len(q2) = len - 1
      /\ \A j \in 1 .. len - 1 : q2[j] = IF j < i THEN q[j] ELSE q[j + 1]
  <2>1. q \in Seq(Sudog) /\ i \in 1 .. Len(q)
    BY <1>1
  <2>2. /\ RemoveAt(q, i) \in Seq(Sudog) /\ Len(RemoveAt(q, i)) = Len(q) - 1
        /\ \A j \in 1 .. Len(q) - 1 : RemoveAt(q, i)[j] = IF j < i THEN q[j] ELSE q[j + 1]
    BY ONLY <2>1, Removed
  <2> QED
    BY <2>2, Zenon
<1> PICK len2 : len2 = len - 1
  OBVIOUS
<1>3. len2 \in Nat /\ len2 >= 1 /\ len2 + 1 = len /\ 1 \in 1 .. len2 /\ len2 \in 1 .. len2 /\ 1 < i
  BY <1>1
<1>4. x \in Sudog /\ y \in Sudog /\ elem[x] = k /\ elem[y] = k /\ x # y
      /\ waitlink[x] = IF i = len THEN Nil ELSE q[i + 1]
  BY <1>1
<1>5. q2[1] = at /\ q2 # <<>> /\ Len(q2) = len2
  <2>1. q2[1] = q[1]
    BY <1>2, <1>3
  <2>2. \A w : w = <<>> => Len(w) = 0
    OBVIOUS
  <2>3. len2 # 0
    BY <1>3
  <2> QED
    BY <2>1, <2>2, <2>3, <1>1, <1>2
<1>6. ASSUME NEW m \in 1 .. len, m # i PROVE \E n \in 1 .. len2 : q2[n] = q[m]
  <2>1. CASE m < i
    <3>1. m \in 1 .. len2
      BY <2>1, <1>1, <1>3
    <3> QED
      BY <3>1, <2>1, <1>2
  <2>2. CASE ~(m < i)
    <3>1. m - 1 \in 1 .. len2 /\ ~(m - 1 < i) /\ (m - 1) + 1 = m
      BY <2>2, <1>1, <1>3, <1>6
    <3> QED
      BY <3>1, <1>2
  <2> QED
    BY <2>1, <2>2
<1>7. ASSUME NEW j \in 1 .. len2
      PROVE  elem'[q2[j]] = k /\ waitlink'[q2[j]] = IF j = len2 THEN Nil ELSE q2[j + 1]
  <2>1. CASE j < i - 1
    <3>1. j \in 1 .. len /\ j # i /\ j # i - 1 /\ j # len /\ j < i /\ j + 1 < i /\ j # len2 /\ j + 1 \in 1 .. len2
      BY <2>1, <1>1, <1>3
    <3>2. q2[j] = q[j] /\ q2[j + 1] = q[j + 1]
      BY <3>1, <1>2
    <3>3. q[j] # x /\ q[j] # y /\ q[j] \in Sudog /\ elem[q[j]] = k /\ waitlink[q[j]] = q[j + 1]
      BY <3>1, <1>1
    <3> QED
      BY <3>1, <3>2, <3>3, <1>w
  <2>2. CASE j = i - 1
    <3>1. j < i /\ j \in 1 .. len /\ (j = len2 <=> i = len) /\ j + 1 = i /\ (j # len2 => i \in 1 .. len2) /\ ~(i < i)
      BY <2>2, <1>1, <1>3
    <3>2. q2[j] = y /\ (j # len2 => q2[j + 1] = q[i + 1])
      BY <3>1, <2>2, <1>2
    <3> QED
      BY <3>1, <3>2, <1>4, <1>w
  <2>3. CASE ~(j < i - 1) /\ j # i - 1
    <3>1. /\ ~(j < i) /\ ~(j + 1 < i) /\ j + 1 \in 1 .. len /\ j + 1 # i /\ j + 1 # i - 1 /\ (j = len2 <=> j + 1 = len)
          /\ j # len2 => j + 1 \in 1 .. len2
      BY <2>3, <1>1, <1>3
    <3>2. q2[j] = q[j + 1] /\ (j # len2 => q2[j + 1] = q[(j + 1) + 1])
      BY <3>1, <1>2
    <3>3. /\ q[j + 1] # x /\ q[j + 1] # y /\ q[j + 1] \in Sudog /\ elem[q[j + 1]] = k
          /\ waitlink[q[j + 1]] = IF j + 1 = len THEN Nil ELSE q[(j + 1) + 1]
      BY <3>1, <1>1
    <3> QED
      BY <3>1, <3>2, <3>3, <1>w
  <2> QED
    BY <2>1, <2>2, <2>3
<1>8. ASSUME NEW j \in 1 .. len2, NEW n \in 1 .. len2, q2[j] = q2[n] PROVE j = n
  <2>1. /\ j \in 1 .. len /\ j + 1 \in 1 .. len /\ n \in 1 .. len /\ n + 1 \in 1 .. len
        /\ j < i => j # n + 1 \/ ~(n >= i)
        /\ n < i => n # j + 1 \/ ~(j >= i)
        /\ (~(j < i) <=> j >= i) /\ (~(n < i) <=> n >= i)
    BY <1>1, <1>3
  <2>2. /\ q2[j] = IF j < i THEN q[j] ELSE q[j + 1]
        /\ q2[n] = IF n < i THEN q[n] ELSE q[n + 1]
    BY <1>2
  <2>3. j + 1 = n + 1 => j = n
    OBVIOUS
  <2>4. CASE j < i /\ n < i
    BY <2>1, <2>2, <2>4, <1>1, <1>8
  <2>5. CASE ~(j < i) /\ ~(n < i)
    BY <2>1, <2>2, <2>3, <2>5, <1>1, <1>8
  <2>6. CASE j < i /\ ~(n < i)
    BY <2>1, <2>2, <2>6, <1>1, <1>8
  <2>7. CASE ~(j < i) /\ n < i
    BY <2>1, <2>2, <2>7, <1>1, <1>8
  <2> QED
    BY <2>4, <2>5, <2>6, <2>7
<1>9. /\ len2 = 1 => waittail'[at] \in {Nil, at}
      /\ len2 # 1 => waittail'[at] = q2[len2]
  <2>1. CASE i = len
    <3>1. waittail'[at] = y
      BY <2>1, <1>4, <1>w
    <3>2. q2[len2] = y
      <4>1. len2 < i /\ len2 = i - 1
        BY <2>1, <1>1, <1>3
      <4>2. len2 \in 1 .. len - 1
        BY <1>1, <1>3
      <4>3. q2[len2] = q[len2]
        BY <4>1, <4>2, <1>2
      <4> QED
        BY <4>1, <4>3
    <3>3. len2 = 1 => y = at
      BY <3>2, <1>5
    <3> QED
      BY ONLY <3>1, <3>2, <3>3
  <2>2. CASE i # len
    <3>1. ~(len2 < i) /\ i + 1 \in 1 .. len /\ len2 # 1
      BY <2>2, <1>1, <1>3
    <3>2. q2[len2] = q[len]
      <4>1. len2 \in 1 .. len - 1 /\ len2 + 1 = len
        BY <1>1, <1>3
      <4>2. q2[len2] = q[len2 + 1]
        BY <3>1, <4>1, <1>2
      <4> QED
        BY <4>1, <4>2
    <3>3. waittail'[at] = waittail[at]
      BY <3>1, <2>2, <1>1, <1>4, <1>w
    <3> QED
      BY <3>1, <3>2, <3>3, <1>1
  <2> QED
    BY <2>1, <2>2
<1>10. Chain(q2, k)'
  <2>1. \A j \in 1 .. Len(q2) : elem'[q2[j]] = k /\ waitlink'[q2[j]] = IF j = Len(q2) THEN Nil ELSE q2[j + 1]
    BY <1>5, <1>7
  <2>2. \A j, n \in 1 .. Len(q2) : q2[j] = q2[n] => j = n
    BY <1>5, <1>8
  <2>3. /\ Len(q2) = 1 => waittail'[q2[1]] \in {Nil, q2[1]}
        /\ Len(q2) # 1 => waittail'[q2[1]] = q2[Len(q2)]
    BY <1>5, <1>9
  <2> QED
    BY ONLY <2>1, <2>2, <2>3, Zenon DEF Chain
<1> QED
  BY <1>1, <1>2, <1>4, <1>5, <1>6, <1>10

LEMMA RemoveInnerKeeps ==
  ASSUME NEW sub, NEW line, Inv(sub, line), RemoveInner
  PROVE  \E line2 : Inv(sub, line2)' /\ GcDequeueStep(line, line2)
<1> PICK k : k = call.key
  OBVIOUS
<1> PICK q : q = line[k]
  OBVIOUS
<1> PICK x : x = target
  OBVIOUS
<1> PICK y : y = targetPred
  OBVIOUS
<1> PICK end : end = IF waitlink[x] = Nil THEN y ELSE waittail[at]
  OBVIOUS
<1>1. /\ pc = "walk" /\ Unlock /\ x = call.s /\ x # at
      /\ waitlink' = [waitlink EXCEPT ![y] = waitlink[x], ![x] = Nil]
      /\ waittail' = [waittail EXCEPT ![at] = end, ![x] = Nil]
      /\ prev' = [prev EXCEPT ![x] = Nil] /\ next' = [next EXCEPT ![x] = Nil]
      /\ parent' = [parent EXCEPT ![x] = Nil] /\ treap' = treap
      /\ elem' = [elem EXCEPT ![x] = Nil] /\ ticket' = [ticket EXCEPT ![x] = 0]
  BY DEF RemoveInner, Reset
<1>2. /\ Walk(sub, line) /\ at \in sub[treap] /\ elem[at] = k /\ call.addr \in Addr /\ k = Masked(call.addr)
  BY <1>1 DEF Inv, Called, Walk, GcDequeueCall
<1>3. HeldLine(sub, q, k)
  BY <1>2, HoldsLine
<1>4. PICK i \in 2 .. Len(q) : x = q[i] /\ y = q[i - 1] /\ i \in 1 .. Len(q)
  <2>1. PICK i, j \in 1 .. Len(q) : i <= j /\ x = q[i] /\ call.s = q[j] /\ (i # 1 => y = q[i - 1])
    BY <1>2 DEF Walk
  <2>2. i # 1
    BY <2>1, <1>1, <1>3 DEF HeldLine
  <2>3. i \in 2 .. Len(q)
    BY <2>2, <1>3 DEF HeldLine
  <2> QED
    BY <2>1, <2>2, <2>3
<1> PICK q2 : q2 = RemoveAt(q, i)
  OBVIOUS
<1>s. x \in Sudog /\ y \in Sudog /\ at \in Sudog /\ x # y /\ k \in Key /\ k # Nil
  <2>1. i \in 1 .. Len(q) /\ i - 1 \in 1 .. Len(q) /\ i # i - 1
    BY <1>3, <1>4 DEF HeldLine
  <2> QED
    BY <2>1, <1>3, <1>4, KeyFacts DEF HeldLine
<1>5. /\ elem' \in [Sudog -> Key \cup {Nil}] /\ elem'[x] = Nil
      /\ \A m \in Sudog : m # x => elem'[m] = elem[m]
  BY <1>1, <1>s, Types DEF Inv
<1>t. /\ ticket' \in [Sudog -> Tickets \cup {0}] /\ ticket'[x] = 0
      /\ \A m \in Sudog : m # x => ticket'[m] = ticket[m]
  BY <1>1, <1>s, Types DEF Inv
<1>6. /\ waitlink' \in [Sudog -> Pointer] /\ waitlink'[x] = Nil
      /\ \A m \in Sudog : m # x => waitlink'[m] = IF m = y THEN waitlink[x] ELSE waitlink[m]
  BY <1>1, <1>s, KeyFacts, Types DEF Inv
<1>7. /\ waittail' \in [Sudog -> Pointer] /\ waittail'[x] = Nil /\ waittail'[at] = end
      /\ \A m \in Sudog : m # x /\ m # at => waittail'[m] = waittail[m]
  <2>1. end \in Pointer
    BY <1>s, Types DEF Inv, Pointer
  <2> QED
    BY <2>1, <1>1, <1>s, KeyFacts, Types DEF Inv
<1>8. /\ prev' \in [Sudog -> Pointer] /\ next' \in [Sudog -> Pointer] /\ parent' \in [Sudog -> Pointer]
      /\ prev'[x] = Nil /\ next'[x] = Nil /\ parent'[x] = Nil
      /\ \A m \in Sudog : m # x => prev'[m] = prev[m] /\ next'[m] = next[m] /\ parent'[m] = parent[m]
  BY <1>1, <1>s, KeyFacts, Types DEF Inv
<1>9. /\ Chain(q2, k)' /\ q2 \in Seq(Sudog) /\ q2 # <<>> /\ q2[1] = at
      /\ x \notin sub[treap] /\ elem[x] = k /\ elem[y] = k
      /\ \A m \in 1 .. Len(q) : m # i => \E n \in 1 .. Len(q2) : q2[n] = q[m]
  <2>1. waittail'[at] = IF waitlink[x] = Nil THEN y ELSE waittail[at]
    BY <1>7
  <2>2. TypeOK
    BY DEF Inv
  <2>3. Withdrawn(q, i, q2, x, y)
    BY <2>1, <1>4, <1>5, <1>6 DEF Withdrawn
  <2> QED
    BY ONLY <2>2, <2>3, <1>3, ChainWithout
<1> PICK line2 : line2 = [line EXCEPT ![k] = q2]
  OBVIOUS
<1>10. Chained(line2)' /\ Headed(sub, line2)' /\ Waiting(line2)'
  <2>1. ASSUME NEW p \in Sudog, elem[p] # k
        PROVE  elem'[p] = elem[p] /\ waitlink'[p] = waitlink[p] /\ waittail'[p] = waittail[p]
    <3>1. p # x /\ p # y /\ p # at
      BY <2>1, <1>2, <1>9
    <3> QED
      BY <3>1, <1>5, <1>6, <1>7
  <2>2. ASSUME NEW p \in Sudog, elem'[p] = k PROVE \E n \in 1 .. Len(q2) : q2[n] = p
    <3>1. p # x /\ elem[p] = k
      BY <2>2, <1>s, <1>5
    <3>2. ~ Arriving(p)
      BY <1>1 DEF Arriving
    <3>3. PICK m \in 1 .. Len(q) : q[m] = p
      BY <3>1, <3>2, <1>s DEF Inv, Waiting
    <3>4. m # i
      BY <3>1, <3>3, <1>4
    <3> QED
      BY <3>3, <3>4, <1>9
  <2>3. \A n \in sub[treap] : elem[n] = k => q2[1] = n
    BY <1>3, <1>9 DEF Inv, Headed, HeldLine
  <2>4. \A n \in sub[treap'] : (n \in sub[treap] /\ elem[n] # k) \/ (q2 # <<>> /\ q2[1] = n)
    BY <2>3, <1>1, <1>9
  <2>5. q2 # <<>> => q2[1] \in sub[treap']
    BY <1>1, <1>2, <1>9
  <2>6. \A n \in sub[treap] : elem[n] # k => n \in sub[treap']
    BY <1>1
  <2>7. \A p \in Sudog : elem'[p] \in {elem[p], Nil}
    BY <1>5
  <2>8. pc = "search" /\ call.name = "queue" => call.key = k
    OBVIOUS
  <2>9. NewLine(sub, sub, k, q2)
    BY <2>1, <2>2, <2>4, <2>5, <2>6, <2>7, <2>8, <1>s, <1>9 DEF NewLine
  <2> QED
    BY <2>9, LineChanges
<1>11. ReleasedClean'
  <2>1. ASSUME NEW m \in Sudog, elem'[m] = Nil PROVE IsClean(m)'
    <3>1. CASE m = x
      BY <3>1, <1>t, <1>6, <1>7, <1>8 DEF IsClean
    <3>2. CASE m # x
      <4>1. elem[m] = Nil /\ m # y /\ m # at
        BY <2>1, <3>2, <1>s, <1>2, <1>5, <1>9
      <4>2. IsClean(m)
        BY <4>1, CleanEach DEF Inv
      <4> QED
        BY <4>1, <4>2, <3>2, <1>t, <1>6, <1>7, <1>8 DEF IsClean
    <3> QED
      BY <3>1, <3>2
  <2> QED
    BY <2>1, CleanEach
<1>r. Tree(sub, treap, prev, next, parent) /\ Nil \notin Sudog
  BY KeyFacts DEF Inv
<1>12. /\ \A n \in sub[treap] : n \in Sudog /\ n # x /\ prev'[n] = prev[n] /\ next'[n] = next[n]
       /\ parent' = parent
  <2>1. parent[x] = Nil
    BY <1>s, <1>9, <1>r DEF Tree
  <2>2. parent' = parent
    BY <2>1, <1>1, <1>s, Types DEF Inv
  <2>3. \A n \in sub[treap] : n \in Sudog /\ n # x
    BY <1>9, <1>r DEF Tree
  <2> QED
    BY <2>2, <2>3, <1>8
<1>13. Tree(sub, treap, prev, next, parent)'
  <2> PICK L, R : L = prev' /\ R = next'
    OBVIOUS
  <2>1. /\ L \in [Sudog -> Pointer] /\ R \in [Sudog -> Pointer] /\ parent \in [Sudog -> Pointer]
        /\ \A n \in sub[treap] : L[n] = prev[n] /\ R[n] = next[n]
    BY <1>8, <1>12, <1>r DEF Tree
  <2>2. Tree(sub, treap, L, R, parent)
    <3>1. \A n \in sub[treap] : n = treap \/ (parent[n] \in sub[treap] /\ n \in {L[parent[n]], R[parent[n]]})
      BY <2>1, <1>r DEF Tree
    <3> QED
      BY <2>1, <3>1, <1>r DEF Tree
  <2> QED
    BY <2>2, <1>1, <1>12
<1>14. Ordered(sub)'
  <2>1. \A n \in sub[treap] : sub[prev[n]] \subseteq sub[treap] /\ sub[next[n]] \subseteq sub[treap]
    BY <1>r, TreeNode DEF Node
  <2>2. \A n \in sub[treap] : elem'[n] = elem[n]
    BY <1>5, <1>12
  <2> QED
    BY <2>1, <2>2, <1>1, <1>12 DEF Inv, Ordered
<1>15. Heaped(sub)'
  <2>1. \A n \in sub[treap] : sub[n] \subseteq sub[treap]
    BY <1>r, TreeNode DEF Node
  <2>2. \A n \in sub[treap] : ticket'[n] = ticket[n]
    BY <1>t, <1>12
  <2> QED
    BY <2>1, <2>2, <1>1 DEF Inv, Heaped
<1>16. TypeOK'
  <2>1. treap' \in Pointer
    BY <1>1, Types DEF Inv
  <2> QED
    BY <2>1, <1>1, <1>5, <1>6, <1>7, <1>8, <1>t, UnlockTypes DEF Inv
<1>17. Route(sub)' /\ Called(sub, line2)'
  BY <1>1, Unlocks
<1>18. GcDequeueStep(line, line2)
  <2> PICK a : a = call.addr
    OBVIOUS
  <2>1. line2 = [line EXCEPT ![Masked(a)] = RemoveAt(@, i)]
    BY <1>2
  <2>2. i \in 1 .. Len(line[Masked(a)]) /\ line[Masked(a)][i] = x
    BY <1>2, <1>4
  <2>3. \E n \in 1 .. Len(line[Masked(a)]) :
          line[Masked(a)][n] = x /\ line2 = [line EXCEPT ![Masked(a)] = RemoveAt(@, n)]
    BY <2>1, <2>2
  <2>4. a \in Addr /\ x \in Sudog
    BY <1>2, <1>s
  <2> QED
    BY ONLY <2>3, <2>4 DEF GcDequeueStep
<1> QED
  BY <1>10, <1>11, <1>13, <1>14, <1>15, <1>16, <1>17, <1>18 DEF Inv

LEMMA Stutters ==
  ASSUME NEW sub, NEW line, Inv(sub, line), UNCHANGED vars
  PROVE  Inv(sub, line)'
<1>1. /\ treap' = treap /\ prev' = prev /\ next' = next /\ parent' = parent /\ waitlink' = waitlink
      /\ waittail' = waittail /\ elem' = elem /\ ticket' = ticket /\ pc' = pc /\ call' = call
      /\ at' = at /\ last' = last /\ target' = target /\ targetPred' = targetPred
  BY DEF vars, links, lists, cursors
<1>2. UNCHANGED <<links, lists, elem, ticket>> /\ \A s : Arriving(s) => Arriving(s)'
  BY <1>1 DEF links, lists, Arriving
<1>3. /\ ReleasedClean' /\ Tree(sub, treap, prev, next, parent)' /\ Ordered(sub)'
      /\ Chained(line)' /\ Headed(sub, line)' /\ Waiting(line)'
  BY <1>2, SameData
<1>4. Heaped(sub)'
  BY <1>1 DEF Inv, Heaped
<1>5. Route(sub)'
  BY <1>1 DEF Inv, Route
<1>6. Called(sub, line)'
  <2>1. QueueCall(sub, line) => QueueCall(sub, line)'
    BY <1>1 DEF QueueCall
  <2>2. DequeueCall(sub) => DequeueCall(sub)'
    BY <1>1 DEF DequeueCall
  <2>3. GcDequeueCall(sub, line) => GcDequeueCall(sub, line)'
    BY <1>1 DEF GcDequeueCall
  <2>4. Walk(sub, line) => Walk(sub, line)'
    BY <1>1 DEF Walk
  <2> QED
    BY <2>1, <2>2, <2>3, <2>4, <1>1 DEF Inv, Called
<1>7. TypeOK'
  BY <1>1 DEF Inv, TypeOK
<1> QED
  BY <1>3, <1>4, <1>5, <1>6, <1>7 DEF Inv

LEMMA StepKeeps ==
  ASSUME NEW sub, NEW line, Inv(sub, line), Next
  PROVE  \E sub2, line2 : Inv(sub2, line2)' /\ Steps(line, line2)
<1> DEFINE Goal == \E sub2, line2 : Inv(sub2, line2)' /\ Steps(line, line2)
<1>s. Steps(line, line)
  BY DEF Steps, NoStep
<1>i. Inv(sub, line)' => Goal
  BY <1>s
<1>t. (\E sub2 : Inv(sub2, line)') => Goal
  BY <1>s
<1>q. (\E sub2, line2 : Inv(sub2, line2)' /\ QueueStep(line, line2)) => Goal
  BY DEF Steps
<1>d. (\E sub2, line2 : Inv(sub2, line2)' /\ (DequeueStep(line, line2) \/ GcDequeueStep(line, line2))) => Goal
  BY DEF Steps
<1>b. (\E line2 : Inv(sub, line2)' /\ QueueStep(line, line2)) => Goal
  BY DEF Steps
<1>g. (\E line2 : Inv(sub, line2)' /\ GcDequeueStep(line, line2)) => Goal
  BY DEF Steps
<1> HIDE DEF Goal
<1>1. ASSUME NEW s \in Sudog, NEW a \in Addr, NEW lifo \in BOOLEAN, NEW isSync \in BOOLEAN, Queue(s, a, lifo, isSync)
      PROVE  Goal
  BY <1>1, <1>i, QueueStarts
<1>2. ASSUME NEW a \in Addr, Dequeue(a) PROVE Goal
  BY <1>2, <1>i, DequeueStarts
<1>3. ASSUME NEW s \in Sudog, NEW a \in Addr, GcDequeue(s, a) PROVE Goal
  BY <1>3, <1>i, GcDequeueStarts
<1>4. ASSUME Search PROVE Goal
  BY <1>4, <1>i, SearchGoesOn
<1>5. ASSUME PushFront PROVE Goal
  BY <1>5, <1>q, PushFrontKeeps
<1>6. ASSUME PushBack PROVE Goal
  BY <1>6, <1>b, PushBackKeeps
<1>7. ASSUME NEW t \in Tickets, NewLeaf(t) PROVE Goal
  BY <1>7, <1>q, NewLeafKeeps
<1>8. ASSUME RotateUp PROVE Goal
  BY <1>8, <1>t, RotateUpKeeps
<1>9. ASSUME Queued \/ NobodyWaits PROVE Goal
  BY <1>9, <1>i, JustUnlocks
<1>10. ASSUME SearchPlain PROVE Goal
  BY <1>10, <1>i, PlainSearchStarts
<1>11. ASSUME LoneWaiter PROVE Goal
  BY <1>11, <1>i, LoneWaiterFound
<1>12. ASSUME RotateDown PROVE Goal
  BY <1>12, <1>t, RotateDownKeeps
<1>13. ASSUME RemoveLeaf PROVE Goal
  BY <1>13, <1>d, RemoveLeafKeeps
<1>14. ASSUME PopFront PROVE Goal
  BY <1>14, <1>d, PopFrontKeeps
<1>15. ASSUME WalkList PROVE Goal
  BY <1>15, <1>i, WalkStarts
<1>16. ASSUME WalkOn PROVE Goal
  BY <1>16, <1>i, WalkGoesOn
<1>17. ASSUME RemoveInner PROVE Goal
  BY <1>17, <1>g, RemoveInnerKeeps
<1>18. Goal
  BY <1>1, <1>2, <1>3, <1>4, <1>5, <1>6, <1>7, <1>8, <1>9, <1>10, <1>11, <1>12, <1>13, <1>14, <1>15, <1>16,
     <1>17 DEF Next
<1> QED
  BY <1>18 DEF Goal

LEMMA InitIInv == Init => IInv
<1> SUFFICES ASSUME Init PROVE IInv
  OBVIOUS
<1> PICK sub : sub = [p \in Pointer |-> {}]
  OBVIOUS
<1> PICK line : line = [k \in Key |-> <<>>]
  OBVIOUS
<1>1. /\ treap = Nil /\ elem = [s \in Sudog |-> Nil] /\ ticket = [s \in Sudog |-> 0]
      /\ prev = elem /\ next = elem /\ parent = elem /\ waitlink = elem /\ waittail = elem
      /\ pc = "unlocked" /\ call = NoCall /\ at = Nil /\ last = Nil /\ target = Nil /\ targetPred = Nil
  BY DEF Init
<1>2. sub \in [Pointer -> SUBSET Sudog] /\ \A p \in Pointer : sub[p] = {}
  OBVIOUS
<1>3. sub[treap] = {} /\ sub[Nil] = {}
  BY <1>1, <1>2, KeyFacts
<1>4. line \in [Key -> Seq(Sudog)] /\ \A k \in Key : line[k] = <<>>
  OBVIOUS
<1>5. TypeOK
  BY <1>1, KeyFacts DEF TypeOK, NoCall
<1>6. ReleasedClean
  BY <1>1 DEF ReleasedClean
<1>7. Tree(sub, treap, prev, next, parent)
  BY <1>1, <1>2, <1>3, KeyFacts DEF Tree
<1>8. Ordered(sub) /\ Heaped(sub)
  BY <1>3 DEF Ordered, Heaped
<1>9. Route(sub) /\ Called(sub, line)
  BY <1>1 DEF Route, Called
<1>10. Chained(line)
  <2>1. \A k : Chain(<<>>, k)
    <3>1. Len(<<>>) = 0 /\ \A i \in 1 .. 0 : FALSE
      OBVIOUS
    <3> QED
      BY <3>1 DEF Chain
  <2> QED
    BY <2>1, <1>4 DEF Chained
<1>11. Headed(sub, line)
  BY <1>3, <1>4 DEF Headed
<1>12. Waiting(line)
  BY <1>1 DEF Waiting
<1>13. Inv(sub, line)
  BY <1>5, <1>6, <1>7, <1>8, <1>9, <1>10, <1>11, <1>12 DEF Inv
<1> QED
  BY <1>13 DEF IInv

LEMMA NextIInv == IInv /\ [Next]_vars => IInv'
<1> SUFFICES ASSUME IInv, [Next]_vars PROVE IInv'
  OBVIOUS
<1>1. PICK sub, line : Inv(sub, line)
  BY DEF IInv
<1>2. ASSUME Next PROVE IInv'
  BY <1>1, <1>2, StepKeeps DEF IInv
<1>3. ASSUME UNCHANGED vars PROVE IInv'
  BY <1>1, <1>3, Stutters DEF IInv
<1> QED
  BY <1>2, <1>3

(* The invariant of the argument above, from which the rest follows.        *)
THEOREM Inductive == Spec => []IInv
BY InitIInv, NextIInv, PTL DEF Spec

(* From here on, what the invariant gives. *)
LEMMA InTheTree ==
  ASSUME NEW sub, NEW line, Inv(sub, line), NEW n \in Sudog
  PROVE  InTree(n) <=> n \in sub[treap]
<1>1. Tree(sub, treap, prev, next, parent) /\ Nil \notin Sudog
  BY KeyFacts DEF Inv
<1>2. n \notin sub[treap] => parent[n] = Nil /\ n # treap
  BY <1>1 DEF Tree
<1>3. n \in sub[treap] => n = treap \/ parent[n] \in sub[treap]
  BY <1>1 DEF Tree
<1>4. sub[treap] \subseteq Sudog
  BY <1>1 DEF Tree
<1> QED
  BY <1>1, <1>2, <1>3, <1>4 DEF InTree

LEMMA NothingMoreBelow ==
  ASSUME NEW sub, NEW line, Inv(sub, line), NEW t, t = Nil \/ t \in sub[treap]
  PROVE  Below(t) \subseteq sub[t]
<1>1. Tree(sub, treap, prev, next, parent) /\ Nil \notin Sudog
  BY KeyFacts DEF Inv
<1>2. sub[t] \subseteq Sudog /\ sub[t] \in SUBSET Sudog
  BY <1>1 DEF Tree
<1>3. t # Nil => t \in sub[t] /\ sub[t] \subseteq sub[treap]
  BY <1>1, TreeNode DEF Node
<1>4. ASSUME NEW n \in sub[t] PROVE {prev[n], next[n]} \subseteq sub[t] \cup {Nil}
  <2>1. t # Nil
    BY <1>1, NothingBelowNil
  <2>2. n \in sub[treap]
    BY <2>1, <1>3
  <2>3. Node(sub, treap, prev, next, parent, n) /\ sub[n] \subseteq sub[t]
    BY <2>1, <2>2, <1>1, TreeNode DEF Tree
  <2> QED
    BY <2>3 DEF Node
<1> QED
  BY <1>2, <1>3, <1>4 DEF Below

\* Every node is reached from the root: of those that are not, one with as
\* many nodes below it as possible has a parent that is reached.
LEMMA AllBelow ==
  ASSUME NEW sub, NEW line, Inv(sub, line)
  PROVE  sub[treap] \subseteq Below(treap)
<1>1. Tree(sub, treap, prev, next, parent) /\ Nil \notin Sudog
  BY KeyFacts DEF Inv
<1>2. sub[treap] \subseteq Sudog
  BY <1>1 DEF Tree
<1>3. ASSUME NEW S \in SUBSET Sudog, treap # Nil => treap \in S,
             \A n \in S : {prev[n], next[n]} \subseteq S \cup {Nil},
             sub[treap] \ S # {}
      PROVE  FALSE
  <2> DEFINE Rest(m) == Sudog \ sub[m]
  <2> DEFINE T == {Rest(m) : m \in sub[treap] \ S}
  <2>1. T \subseteq SUBSET Sudog /\ T # {}
    BY <1>3
  <2>2. FiniteSubsetsOf(Sudog) = SUBSET Sudog
    BY SudogAssumption, FS_FiniteSubsetsOfFinite
  <2>3. IsWellFoundedOn(StrictSubsetOrdering(Sudog), SUBSET Sudog)
    BY <2>2, FS_StrictSubsetOrderingWellFounded
  <2> HIDE DEF T
  <2>4. PICK x \in T : \A y \in T : <<y, x>> \notin StrictSubsetOrdering(Sudog)
    BY <2>1, <2>3, WFMin
  <2>5. PICK m \in sub[treap] \ S : x = Rest(m)
    BY <2>4 DEF T
  <2>6. treap # Nil /\ m # treap
    BY <2>5, <1>1, <1>3, NothingBelowNil
  <2>7. PICK p : p = parent[m]
    OBVIOUS
  <2>8. p \in sub[treap] /\ m \in {prev[p], next[p]} /\ m # Nil /\ m \in Sudog
    BY <2>5, <2>6, <2>7, <1>1 DEF Tree
  <2>9. Node(sub, treap, prev, next, parent, p) /\ Node(sub, treap, prev, next, parent, m)
    BY <2>5, <2>8, <1>1, TreeNode
  <2>10. p \notin S
    BY <2>5, <2>8, <1>3
  <2>11. p \in sub[p] /\ p \notin sub[m] /\ sub[m] \subseteq sub[p] /\ p \in Sudog
    BY <2>8, <2>9 DEF Node
  <2>12. Rest(p) \in T
    BY <2>8, <2>10 DEF T
  <2>13. Rest(p) \subseteq Rest(m) /\ Rest(p) # Rest(m)
    BY <2>11
  <2>14. <<Rest(p), x>> \in StrictSubsetOrdering(Sudog)
    BY <2>5, <2>13 DEF StrictSubsetOrdering
  <2> QED
    BY <2>4, <2>12, <2>14
<1> QED
  BY <1>2, <1>3 DEF Below

LEMMA NothingThrown ==
  ASSUME NEW sub, NEW line, Inv(sub, line)
  PROVE  NeverThrows
<1>1. Tree(sub, treap, prev, next, parent) /\ Nil \notin Sudog
  BY KeyFacts DEF Inv
<1>2. ASSUME NEW n \in sub[treap] PROVE Attached(n) /\ (parent[n] # Nil => parent[n] \in sub[treap])
  BY <1>1, TreeNode DEF Tree, Node, Attached
<1>3. pc \in {"up", "down"} => at \in sub[treap]
  BY DEF Inv, Called, QueueCall
<1>4. ASSUME call.name = "gcDequeue", pc \in {"search", "walk"}
      PROVE  /\ call.key \in Key
             /\ \E i \in 1 .. Len(line[call.key]) : line[call.key][i] = call.s
  <2>1. call.s \in Sudog /\ elem[call.s] = call.key /\ call.key \in Key
    BY <1>4, KeyFacts DEF Inv, Called, GcDequeueCall
  <2> QED
    BY <2>1, <1>4, KeyFacts DEF Inv, Waiting, Arriving
<1>5. ASSUME call.name = "gcDequeue", NotFound PROVE FALSE
  <2>1. line[call.key] = <<>> /\ pc \in {"search", "walk"}
    BY <1>5, NotFoundEmpty DEF NotFound
  <2>2. Len(<<>>) = 0 /\ \A i \in 1 .. 0 : FALSE
    OBVIOUS
  <2> QED
    BY <2>1, <2>2, <1>4, <1>5
<1>6. ASSUME call.name = "gcDequeue", Found PROVE waitlink[at] # Nil \/ at = call.s
  <2>1. HeldLine(sub, line[call.key], call.key) /\ pc \in {"search", "walk"}
    BY <1>6, FoundLine DEF Found
  <2>2. PICK i \in 1 .. Len(line[call.key]) : line[call.key][i] = call.s
    BY <2>1, <1>4, <1>6
  <2>3. Len(line[call.key]) = 1 => i = 1
    BY <2>2
  <2> QED
    BY <2>1, <2>2, <2>3 DEF HeldLine
<1>7. ASSUME pc = "walk" PROVE target # Nil
  <2>1. PICK i \in 1 .. Len(line[call.key]) : target = line[call.key][i]
    BY <1>7 DEF Inv, Called, Walk
  <2>2. call.key \in Key
    BY <1>7, KeyFacts DEF Inv, Called
  <2>3. line[call.key] \in Seq(Sudog)
    BY <2>2 DEF Inv, Chained
  <2> QED
    BY <2>1, <2>3, <1>1
<1> QED
  BY <1>2, <1>3, <1>5, <1>6, <1>7 DEF NeverThrows

LEMMA ShapeHolds == IInv => TreapShape
<1> SUFFICES ASSUME NEW sub, NEW line, Inv(sub, line) PROVE TreapShape
  BY DEF IInv
<1>1. Tree(sub, treap, prev, next, parent) /\ Nil \notin Sudog
  BY KeyFacts DEF Inv
<1>2. TypeOK /\ NeverThrows
  BY NothingThrown DEF Inv
<1>3. treap # Nil => parent[treap] = Nil
  BY <1>1 DEF Tree
<1>4. \A n \in Sudog : InTree(n) => n \in Below(treap)
  BY InTheTree, AllBelow
<1>5. treap = Nil \/ treap \in sub[treap]
  BY <1>1 DEF Tree
<1>6. ASSUME NEW n \in Below(treap)
      PROVE  /\ \A l \in Below(prev[n]) : elem[l] < elem[n]
             /\ \A r \in Below(next[n]) : elem[n] < elem[r]
             /\ \A c \in {prev[n], next[n]} \ {Nil} :
                  /\ parent[c] = n
                  /\ ticket[n] <= ticket[c] \/ (pc \in {"up", "down"} /\ at \in {n, c})
  <2>1. n \in sub[treap]
    BY <1>5, NothingMoreBelow
  <2>2. Node(sub, treap, prev, next, parent, n)
    BY <2>1, <1>1, TreeNode
  <2>3. /\ prev[n] = Nil \/ prev[n] \in sub[treap]
        /\ next[n] = Nil \/ next[n] \in sub[treap]
    BY <2>2 DEF Node
  <2>4. Below(prev[n]) \subseteq sub[prev[n]] /\ Below(next[n]) \subseteq sub[next[n]]
    BY <2>3, NothingMoreBelow
  <2>5. ASSUME NEW c \in {prev[n], next[n]} \ {Nil} PROVE parent[c] = n /\ c \in sub[n]
    BY <2>2 DEF Node
  <2> QED
    BY <2>1, <2>4, <2>5 DEF Inv, Ordered, Heaped
<1> QED
  BY <1>2, <1>3, <1>4, <1>6 DEF TreapShape

(* The tree is a treap, its pointers agree, and no operation throws        *)
(* (rotateLeft, rotateRight, gcDequeue).                                   *)
THEOREM Shape == Spec => []TreapShape
BY Inductive, ShapeHolds, PTL

(* Whoever leaves is handed back clean (dequeue, gcDequeue).               *)
THEOREM Released == Spec => []ReleasedClean
<1>1. IInv => ReleasedClean
  BY DEF IInv, Inv
<1> QED
  BY <1>1, Inductive, PTL

Less == {p \in Nat \X Nat : p[1] < p[2]}

LEMMA Least ==
  ASSUME NEW S \in SUBSET Nat, S # {}
  PROVE  \E j \in S : \A k \in S : ~(k < j)
<1>1. OpToRel(<, Nat) = Less
  BY DEF OpToRel, Less
<1>2. IsWellFoundedOn(Less, Nat)
  BY <1>1, NatLessThanWellFounded
<1>3. PICK j \in S : \A k \in S : <<k, j>> \notin Less
  BY <1>2, WFMin
<1>4. \A k \in S : ~(k < j)
  BY <1>3 DEF Less
<1> QED
  BY <1>4

(* A sequence of waiters for k that follows the links from the tree to the *)
(* end, as WaitersOf looks for.                                            *)
Follows(w, k) ==
  /\ w \in Seq(Sudog) /\ w # <<>> /\ (\A i \in 1 .. Len(w) : elem[w[i]] = k) /\ InTree(w[1])
  /\ \A i \in 1 .. Len(w) : waitlink[w[i]] = IF i = Len(w) THEN Nil ELSE w[i + 1]

LEMMA OneLine ==
  ASSUME NEW sub, NEW line, Inv(sub, line), NEW k \in Key, NEW w, Follows(w, k)
  PROVE  w = line[k]
<1> PICK q : q = line[k]
  OBVIOUS
<1>1. w \in Seq(Sudog) /\ Len(w) \in Nat /\ Len(w) >= 1 /\ w[1] \in Sudog /\ 1 \in 1 .. Len(w) /\ Len(w) \in 1 .. Len(w)
  <2>1. w \in Seq(Sudog) /\ w # <<>>
    BY DEF Follows
  <2>2. Len(w) \in Nat /\ Len(w) >= 1
    BY <2>1
  <2> QED
    BY <2>1, <2>2
<1>2. w[1] \in sub[treap] /\ elem[w[1]] = k
  BY <1>1, InTheTree DEF Follows
<1>3. q # <<>> /\ q[1] = w[1] /\ q \in Seq(Sudog) /\ Chain(q, k)
  BY <1>2 DEF Inv, Headed, Chained
<1>4. Len(q) \in Nat /\ Len(q) >= 1
  BY <1>3
<1>5. \A i \in 1 .. Len(w) : /\ w[i] \in Sudog /\ w[i] # Nil
                             /\ waitlink[w[i]] = IF i = Len(w) THEN Nil ELSE w[i + 1]
  BY <1>1, KeyFacts DEF Follows
<1>6. \A i \in 1 .. Len(q) : /\ q[i] \in Sudog /\ q[i] # Nil
                             /\ waitlink[q[i]] = IF i = Len(q) THEN Nil ELSE q[i + 1]
  BY <1>3, KeyFacts DEF Chain
<1>7. \A i \in 1 .. Len(w) : i <= Len(q) /\ w[i] = q[i]
  <2> DEFINE Bad == {i \in 1 .. Len(w) : ~(i <= Len(q) /\ w[i] = q[i])}
  <2>1. SUFFICES ASSUME Bad # {} PROVE FALSE
    OBVIOUS
  <2>2. Bad \in SUBSET Nat
    BY <1>1
  <2>3. PICK j \in Bad : \A i \in Bad : ~(i < j)
    BY <2>1, <2>2, Least
  <2>4. j \in 1 .. Len(w) /\ ~(j <= Len(q) /\ w[j] = q[j])
    BY <2>3
  <2>5. j # 1
    BY <2>4, <1>3, <1>4
  <2>6. j - 1 \in 1 .. Len(w) /\ (j - 1) + 1 = j /\ j - 1 < j /\ j - 1 # Len(w)
    BY <2>4, <2>5, <1>1
  <2>7. j - 1 \notin Bad
    BY <2>3, <2>6
  <2>8. j - 1 <= Len(q) /\ w[j - 1] = q[j - 1]
    BY <2>6, <2>7
  <2>9. j - 1 \in 1 .. Len(q) /\ (j - 1 # Len(q) => j <= Len(q))
    BY <2>6, <2>8, <1>4
  <2>10. waitlink[w[j - 1]] = w[j] /\ w[j] # Nil
    BY <2>4, <2>6, <1>5
  <2>11. waitlink[q[j - 1]] = IF j - 1 = Len(q) THEN Nil ELSE q[j]
    BY <2>6, <2>9, <1>6
  <2> QED
    BY <2>4, <2>8, <2>9, <2>10, <2>11
<1>8. Len(w) = Len(q)
  <2>1. Len(w) \in 1 .. Len(q) /\ w[Len(w)] = q[Len(w)]
    BY <1>1, <1>4, <1>7
  <2>2. waitlink[w[Len(w)]] = Nil
    BY <1>1, <1>5
  <2>3. Len(w) # Len(q) => Len(w) + 1 \in 1 .. Len(q)
    BY <2>1, <1>1, <1>4
  <2> QED
    BY <2>1, <2>2, <2>3, <1>6
<1>9. w = q
  BY <1>1, <1>3, <1>7, <1>8
<1> QED
  BY <1>9

LEMMA LineFollows ==
  ASSUME NEW sub, NEW line, Inv(sub, line), NEW k \in Key, line[k] # <<>>
  PROVE  Follows(line[k], k)
<1>1. line[k] \in Seq(Sudog) /\ Chain(line[k], k) /\ line[k][1] \in sub[treap]
  BY DEF Inv, Headed, Chained
<1>2. line[k][1] \in Sudog
  BY <1>1 DEF Inv, Tree
<1>3. InTree(line[k][1])
  BY <1>1, <1>2, InTheTree
<1> QED
  BY <1>1, <1>3 DEF Follows, Chain

LEMMA WaitersLine ==
  ASSUME NEW sub, NEW line, Inv(sub, line), NEW k \in Key
  PROVE  WaitersOf(k) = line[k]
<1> DEFINE waiting == {s \in Sudog : elem[s] = k}
<1> DEFINE all == SeqOf(waiting, Cardinality(waiting)) \ {<<>>}
<1> DEFINE lines == {w \in all :
                       /\ InTree(w[1])
                       /\ \A i \in 1 .. Len(w) : waitlink[w[i]] = IF i = Len(w) THEN Nil ELSE w[i + 1]}
<1>1. WaitersOf(k) = IF lines = {} THEN <<>> ELSE CHOOSE w \in lines : TRUE
  BY DEF WaitersOf
<1>2. IsFiniteSet(waiting) /\ Cardinality(waiting) \in Nat
  <2>1. waiting \in SUBSET Sudog
    OBVIOUS
  <2> QED
    BY <2>1, SudogAssumption, FS_Subset, FS_CardinalityType
<1>3. ASSUME NEW w \in lines PROVE Follows(w, k)
  <2>1. w \in SeqOf(waiting, Cardinality(waiting)) /\ w # <<>>
    OBVIOUS
  <2>2. PICK m \in 0 .. Cardinality(waiting) : w \in [1 .. m -> waiting]
    BY <2>1 DEF SeqOf
  <2>3. m \in Nat
    BY <1>2
  <2>4. w \in Seq(waiting)
    BY <2>2, <2>3, SeqDef
  <2>5. w \in Seq(Sudog) /\ \A i \in 1 .. Len(w) : elem[w[i]] = k
    BY <2>4
  <2> QED
    BY <2>1, <2>5 DEF Follows
<1>4. ASSUME line[k] # <<>> PROVE line[k] \in lines
  <2> PICK q : q = line[k]
    OBVIOUS
  <2>1. Follows(q, k)
    BY <1>4, LineFollows
  <2>2. q \in Seq(Sudog) /\ Len(q) \in Nat /\ q # <<>>
    <3>1. q \in Seq(Sudog) /\ q # <<>>
      BY <2>1 DEF Follows
    <3> QED
      BY <3>1
  <2>3. \A i, j \in 1 .. Len(q) : q[i] = q[j] => i = j
    BY DEF Inv, Chained, Chain
  <2>4. q \in [1 .. Len(q) -> waiting]
    BY <2>1, <2>2 DEF Follows
  <2>5. q \in Injection(1 .. Len(q), waiting)
    BY <2>3, <2>4 DEF Injection, IsInjective
  <2>6. Cardinality(1 .. Len(q)) <= Cardinality(waiting)
    BY <2>5, <1>2, FS_Injection
  <2>7. Cardinality(1 .. Len(q)) = Len(q)
    <3>1. Len(q) \in Int /\ 1 \in Int
      BY <2>2
    <3>2. Cardinality(1 .. Len(q)) = IF 1 > Len(q) THEN 0 ELSE Len(q) - 1 + 1
      BY <3>1, FS_Interval
    <3> QED
      BY <3>2, <2>2
  <2>8. Len(q) \in 0 .. Cardinality(waiting)
    BY <2>2, <2>6, <2>7, <1>2
  <2>9. q \in SeqOf(waiting, Cardinality(waiting))
    BY <2>4, <2>8 DEF SeqOf
  <2> QED
    BY <2>1, <2>2, <2>9 DEF Follows
<1> HIDE DEF lines
<1>5. \A w \in lines : w = line[k]
  BY <1>3, OneLine
<1>6. lines = {} => line[k] = <<>>
  BY <1>4
<1>7. lines # {} => (CHOOSE w \in lines : TRUE) \in lines
  OBVIOUS
<1> QED
  BY <1>1, <1>5, <1>6, <1>7

Waiters == [k \in Key |-> WaitersOf(k)]

LEMMA AbstractNames ==
  /\ Abstract!Key = Key /\ \A a : Abstract!Masked(a) = Masked(a)
  /\ \A a : \A b : Abstract!KeyOf(a, b) = KeyOf(a, b)
  /\ \A s, i : Abstract!RemoveAt(s, i) = RemoveAt(s, i)
BY DEF Abstract!Key, Abstract!Masked, Abstract!KeyOf, Abstract!RemoveAt, Key, Masked, KeyOf, RemoveAt

LEMMA WaitersAre ==
  ASSUME NEW sub, NEW line, Inv(sub, line)
  PROVE  Waiters = line
<1>1. line \in [Key -> Seq(Sudog)]
  BY DEF Inv, Chained
<1>2. \A k \in Key : WaitersOf(k) = line[k]
  BY WaitersLine
<1> QED
  BY <1>1, <1>2 DEF Waiters

LEMMA EveryWaitersAre == \A s2, l2 : Inv(s2, l2) => Waiters = l2
BY WaitersAre

LEMMA StepImplements ==
  ASSUME NEW line, line \in [Key -> Seq(Sudog)], NEW line2, Steps(line, line2), Waiters = line, Waiters' = line2
  PROVE  [Abstract!Next]_Waiters
<1>1. ASSUME NEW s \in Sudog, \A k \in Key : \A i \in 1 .. Len(line[k]) : line[k][i] # s
      PROVE  s \in Abstract!Idle
  <2>1. \A k \in Key : s \notin Abstract!ToSet(Waiters[k])
    BY <1>1 DEF Abstract!ToSet
  <2> QED
    BY <2>1, AbstractNames DEF Abstract!Idle, Waiters
<1>2. ASSUME NEW s \in Sudog, NEW a \in Addr, NEW lifo \in BOOLEAN, NEW isSync \in BOOLEAN,
             line2 = [line EXCEPT ![KeyOf(a, isSync)] = IF lifo THEN <<s>> \o @ ELSE Append(@, s)]
      PROVE  Abstract!Queue(s, a, lifo, isSync)
  BY <1>2, AbstractNames DEF Abstract!Queue, Waiters
<1>3. ASSUME QueueStep(line, line2) PROVE Abstract!Next
  BY <1>1, <1>2, <1>3 DEF QueueStep, Abstract!Next
<1>4. ASSUME DequeueStep(line, line2) PROVE Abstract!Next
  <2>1. PICK a \in Addr, k \in Key :
          /\ k = KeyOf(a, line[Masked(a)] # <<>>) /\ line[k] # <<>>
          /\ line2 = [line EXCEPT ![k] = Tail(@)]
    BY <1>4 DEF DequeueStep
  <2>2. Abstract!Dequeue(a)
    BY <2>1, AbstractNames DEF Abstract!Dequeue, Waiters
  <2> QED
    BY <2>2 DEF Abstract!Next
<1>5. ASSUME GcDequeueStep(line, line2) PROVE Abstract!Next
  <2>1. PICK s \in Sudog, a \in Addr : \E i \in 1 .. Len(line[Masked(a)]) :
          line[Masked(a)][i] = s /\ line2 = [line EXCEPT ![Masked(a)] = RemoveAt(@, i)]
    BY <1>5 DEF GcDequeueStep
  <2>2. DOMAIN line[Masked(a)] = 1 .. Len(line[Masked(a)])
    BY KeyFacts
  <2>3. Abstract!GcDequeue(s, a)
    BY <2>1, <2>2, AbstractNames DEF Abstract!GcDequeue, Waiters
  <2> QED
    BY <2>3 DEF Abstract!Next
<1> QED
  BY <1>3, <1>4, <1>5 DEF Steps, NoStep

(* The treap implements the queues: a step of the program is the step of   *)
(* SemaQueue that the operation promises, or leaves the queues alone       *)
(* (queue, dequeue, gcDequeue).                                            *)
THEOREM Implements == Spec => ImplementsQueue
<1>1. Init => Abstract!Init
  <2> SUFFICES ASSUME Init PROVE Waiters = [k \in Key |-> <<>>]
    BY AbstractNames DEF Abstract!Init, Waiters
  <2>1. PICK sub, line : Inv(sub, line)
    BY InitIInv DEF IInv
  <2>2. treap = Nil /\ sub[Nil] = {}
    BY <2>1, NothingBelowNil DEF Init, Inv
  <2>3. line \in [Key -> Seq(Sudog)] /\ \A k \in Key : line[k] = <<>>
    BY <2>1, <2>2 DEF Inv, Chained, Headed
  <2> QED
    BY <2>1, <2>3, WaitersAre
<1>2. IInv /\ IInv' /\ [Next]_vars => [Abstract!Next]_Waiters
  <2> SUFFICES ASSUME IInv, [Next]_vars PROVE [Abstract!Next]_Waiters
    OBVIOUS
  <2>1. PICK sub, line : Inv(sub, line)
    BY DEF IInv
  <2>2. line \in [Key -> Seq(Sudog)] /\ Waiters = line
    BY <2>1, WaitersAre DEF Inv, Chained
  <2>v. (\A s2, l2 : Inv(s2, l2) => Waiters = l2)'
    BY EveryWaitersAre, PTL
  <2>3. ASSUME Next PROVE [Abstract!Next]_Waiters
    <3>1. PICK sub2, line2 : Inv(sub2, line2)' /\ Steps(line, line2)
      BY <2>1, <2>3, StepKeeps
    <3>2. Waiters' = line2
      BY <2>v, <3>1
    <3> QED
      BY <2>2, <3>1, <3>2, StepImplements
  <2>4. ASSUME UNCHANGED vars PROVE [Abstract!Next]_Waiters
    <3>1. Inv(sub, line)'
      BY <2>1, <2>4, Stutters
    <3>2. Waiters' = line
      BY <2>v, <3>1
    <3> QED
      BY <2>2, <3>2
  <2> QED
    BY <2>3, <2>4
<1>3. Waiters = [k \in Key |-> WaitersOf(k)]
  BY DEF Waiters
<1> QED
  BY <1>1, <1>2, Inductive, PTL DEF Spec, ImplementsQueue, Abstract!Spec, Waiters
=============================================================================
