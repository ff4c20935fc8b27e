------------------------ MODULE ConfigurationProofs ------------------------
(***************************************************************************)
(* The layers of any graph, what has_cycle() finds in it, and what becomes *)
(* of any file, for any names, numerals and files. Both walks remove the   *)
(* same nodes, whatever the order: all but those of a stuck set, of which  *)
(* each has a link from another, or more links than neighbours. DagInv is  *)
(* the inductive invariant of the walks, FileInv that of the files.        *)
(***************************************************************************)
EXTENDS Configuration, FiniteSetTheorems, TLAPS

\* A graph of nodes ns and links ls.
Into(ls, n) == {i \in DOMAIN ls : ls[i][2] = n}
Degree(ls, n) == Cardinality(Into(ls, n))
Preds(ns, ls, n) == {m \in ns : \E i \in DOMAIN ls : ls[i] = <<m, n>>}
Stuck(ns, ls, S) ==
  S # {} /\ \A n \in S : Degree(ls, n) > Cardinality(Preds(ns, ls, n) \ S)

IsGraph(ns, ls) == IsFiniteSet(ns) /\ ls \in Seq(ns \X ns)

\* A node has as many links to it as predecessors, or more if some are repeated.
LEMMA Degrees ==
  ASSUME NEW ns, NEW ls, IsGraph(ns, ls), NEW n \in ns
  PROVE  /\ Degree(ls, n) \in 0..Len(ls)
         /\ IsFiniteSet(Preds(ns, ls, n)) /\ Preds(ns, ls, n) \subseteq ns
         /\ Cardinality(Preds(ns, ls, n)) \in Nat
         /\ Cardinality(Preds(ns, ls, n)) <= Degree(ls, n)
         /\ IsInjective(ls) => Cardinality(Preds(ns, ls, n)) = Degree(ls, n)
<1> DEFINE D == Into(ls, n)
<1> DEFINE P == Preds(ns, ls, n)
<1> DEFINE f == [i \in D |-> ls[i][1]]
<1>1. /\ Len(ls) \in Nat /\ DOMAIN ls = 1..Len(ls)
      /\ \A i \in DOMAIN ls : ls[i] \in ns \X ns
  BY DEF IsGraph
<1>2. D \subseteq 1..Len(ls)
  BY <1>1 DEF Into
<1>3. IsFiniteSet(1..Len(ls)) /\ Cardinality(1..Len(ls)) = Len(ls)
  <2>1. 1 \in Int /\ Len(ls) \in Int
    BY <1>1
  <2>2. /\ IsFiniteSet(1..Len(ls))
        /\ Cardinality(1..Len(ls)) = IF 1 > Len(ls) THEN 0 ELSE Len(ls) - 1 + 1
    BY <2>1, FS_Interval
  <2> QED BY <1>1, <2>2
<1>4. IsFiniteSet(D) /\ Cardinality(D) <= Len(ls)
  BY <1>2, <1>3, FS_Subset
<1>5. Cardinality(D) \in Nat
  BY <1>4, FS_CardinalityType
<1>6. \A i \in D : ls[i] = <<ls[i][1], n>> /\ ls[i][1] \in ns
  BY <1>1 DEF Into
<1>7. f \in [D -> P]
  BY <1>2, <1>6, <1>1 DEF Preds
<1>8. \A m \in P : \E i \in D : f[i] = m
  <2> SUFFICES ASSUME NEW m \in P PROVE \E i \in D : f[i] = m
    OBVIOUS
  <2>1. PICK i \in DOMAIN ls : ls[i] = <<m, n>>
    BY DEF Preds
  <2>2. i \in D /\ ls[i][1] = m
    BY <2>1 DEF Into
  <2> QED BY <2>2
<1>9. f \in Surjection(D, P)
  BY <1>7, <1>8 DEF Surjection
<1>10. /\ IsFiniteSet(P) /\ Cardinality(P) <= Cardinality(D)
       /\ Cardinality(P) = Cardinality(D) <=> f \in Injection(D, P)
  BY <1>4, <1>9, FS_Surjection
<1>11. Cardinality(P) \in Nat
  BY <1>10, FS_CardinalityType
<1>12. ASSUME IsInjective(ls) PROVE f \in Injection(D, P)
  <2>1. ASSUME NEW i \in D, NEW j \in D, f[i] = f[j] PROVE i = j
    <3>1. ls[i] = ls[j] /\ i \in DOMAIN ls /\ j \in DOMAIN ls
      BY <1>1, <1>2, <1>6, <2>1
    <3> QED BY <1>12, <3>1 DEF IsInjective
  <2>2. DOMAIN f = D
    OBVIOUS
  <2> QED BY <1>7, <2>1, <2>2 DEF Injection, IsInjective
<1> QED
  BY <1>1, <1>4, <1>5, <1>10, <1>11, <1>12 DEF Degree, Preds

LEMMA Subsets ==
  ASSUME NEW S, IsFiniteSet(S), NEW T \in SUBSET S
  PROVE  /\ IsFiniteSet(T)
         /\ Cardinality(S) \in Nat /\ Cardinality(T) \in Nat
         /\ Cardinality(T) <= Cardinality(S)
         /\ T # S => Cardinality(T) < Cardinality(S)
<1>1. /\ IsFiniteSet(T) /\ Cardinality(T) <= Cardinality(S)
      /\ Cardinality(S) = Cardinality(T) => S = T
  BY FS_Subset
<1>2. Cardinality(S) \in Nat /\ Cardinality(T) \in Nat
  BY <1>1, FS_CardinalityType
<1> QED BY <1>1, <1>2

\* Without repeated links a stuck set is a cycle.
LEMMA StuckIsCyclic ==
  ASSUME NEW ns, NEW ls, IsGraph(ns, ls), IsInjective(ls), NEW S \in SUBSET ns, S # {}
  PROVE  Stuck(ns, ls, S) <=> \A n \in S : \E m \in S : <<m, n>> \in Range(ls)
<1> SUFFICES ASSUME NEW n \in S
             PROVE  Degree(ls, n) > Cardinality(Preds(ns, ls, n) \ S)
                      <=> \E m \in S : <<m, n>> \in Range(ls)
  BY DEF Stuck
<1> DEFINE P == Preds(ns, ls, n)
<1>1. /\ IsFiniteSet(P) /\ Cardinality(P) \in Nat
      /\ Cardinality(P) = Degree(ls, n)
  BY Degrees
<1>2. /\ Cardinality(P \ S) \in Nat /\ Cardinality(P \ S) <= Cardinality(P)
      /\ Cardinality(P) = Cardinality(P \ S) => P = P \ S
  <2>1. P \ S \in SUBSET P
    OBVIOUS
  <2> HIDE DEF P
  <2> QED BY <1>1, <2>1, Subsets
<1>3. (\E m \in S : <<m, n>> \in Range(ls)) <=> P \cap S # {}
  BY DEF Preds, Range
<1>4. P = P \ S <=> P \cap S = {}
  OBVIOUS
<1>5. P \cap S # {} <=> Degree(ls, n) > Cardinality(P \ S)
  <2> HIDE DEF P
  <2>1. CASE P = P \ S
    BY <1>1, <1>4, <2>1
  <2>2. CASE P # P \ S
    BY <1>1, <1>2, <1>4, <2>2
  <2> QED BY <2>1, <2>2
<1> QED BY <1>3, <1>5

\* A node of degree 0 has its predecessors behind it; one with a predecessor yet
\* to come has not.
LEMMA Behind ==
  ASSUME NEW ns, NEW ls, IsGraph(ns, ls), NEW n \in ns, NEW d \in Nat, NEW D,
         d + Cardinality(Preds(ns, ls, n) \cap D) = Degree(ls, n)
  PROVE  /\ d = 0 => Preds(ns, ls, n) \subseteq D
         /\ Preds(ns, ls, n) \ D # {} => d > 0
<1> DEFINE P == Preds(ns, ls, n)
<1>1. /\ IsFiniteSet(P) /\ Cardinality(P) \in Nat /\ Degree(ls, n) \in Nat
      /\ Cardinality(P) <= Degree(ls, n)
  BY Degrees
<1>2. d + Cardinality(P \cap D) = Degree(ls, n)
  OBVIOUS
<1> HIDE DEF P
<1>3. /\ Cardinality(P \cap D) \in Nat
      /\ P \cap D # P => Cardinality(P \cap D) < Cardinality(P)
  <2>1. P \cap D \in SUBSET P
    OBVIOUS
  <2> QED BY <1>1, <2>1, Subsets
<1>4. P \cap D # P => d > 0
  BY <1>1, <1>2, <1>3
<1> QED BY <1>4 DEF P

-----------------------------------------------------------------------------
(***************************************************************************)
(* The walks. A node that has been taken from the queue has degree 0 and   *)
(* is not in it; a degree is what is left when the links from such nodes   *)
(* are gone, counted once for each two nodes.                              *)
(***************************************************************************)
Done == {n \in Added : inDeg[n] = 0 /\ n \notin Range(queue)}
PredsOf(n) == Preds(Added, edges, n)

GraphInv ==
  /\ IsGraph(Added, edges)
  /\ \A m \in Added : adj[m] \subseteq Added
  /\ \A m, n \in Added : n \in adj[m] <=> m \in PredsOf(n)

Counted(n) == inDeg[n] + Cardinality(PredsOf(n) \cap Done) = Degree(edges, n)

WalkInv ==
  walk # "none" =>
    /\ inDeg \in [Added -> Nat]
    /\ queue \in Seq(Added) /\ IsInjective(queue)
    /\ \A n \in Range(queue) : inDeg[n] = 0
    /\ \A n \in Added : Counted(n)
    /\ \A S \in SUBSET Added :
         Stuck(Added, edges, S) => S \cap (Done \cup Range(queue)) = {}

LEMMA Removing ==
  ASSUME GraphInv, WalkInv, walk # "none", NEW node \in Range(queue),
         inDeg' = Decreased(node), UNCHANGED <<adj, edges, walk>>,
         queue' \in Seq(Added), IsInjective(queue'),
         Range(queue') = (Range(queue) \ {node}) \cup Freed(node)
  PROVE  /\ WalkInv'
         /\ Done' = Done \cup {node} /\ node \notin Done
         /\ \A n \in Range(queue') : PredsOf(n) \subseteq Done'
<1>1. /\ node \in Added /\ inDeg[node] = 0 /\ node \notin Done
      /\ inDeg \in [Added -> Nat] /\ \A n \in Added : Counted(n)
  BY DEF WalkInv, Done, Range
<1>2. Added' = Added /\ \A n : PredsOf(n)' = PredsOf(n)
  BY DEF Added, PredsOf
<1>3. \A n \in Added : n \in adj[node] => inDeg[n] > 0
  <2> SUFFICES ASSUME NEW n \in Added, n \in adj[node] PROVE inDeg[n] > 0
    OBVIOUS
  <2>1. node \in PredsOf(n)
    BY <1>1 DEF GraphInv
  <2>2. PredsOf(n) \ Done # {}
    BY <1>1, <2>1
  <2>3. IsGraph(Added, edges) /\ inDeg[n] \in Nat
    BY <1>1 DEF GraphInv
  <2>4. inDeg[n] + Cardinality(PredsOf(n) \cap Done) = Degree(edges, n)
    BY <1>1 DEF Counted
  <2> QED BY <2>2, <2>3, <2>4, Behind DEF PredsOf
<1>4. node \notin adj[node]
  BY <1>1, <1>3
<1>5. /\ inDeg' \in [Added -> Nat]
      /\ \A n \in Added : inDeg'[n] = IF n \in adj[node] THEN inDeg[n] - 1 ELSE inDeg[n]
  BY <1>1, <1>3 DEF Decreased
<1>6. Freed(node) \subseteq Added /\ \A n \in Added : n \in Freed(node) <=> n \in adj[node] /\ inDeg[n] = 1
  BY <1>1 DEF Freed, GraphInv
<1>7. Done' = Done \cup {node}
  <2>1. ASSUME NEW n \in Done PROVE n \in Done'
    <3>1. n \in Added /\ inDeg[n] = 0 /\ n \notin Range(queue)
      BY DEF Done
    <3>2. n \notin adj[node] /\ inDeg'[n] = 0
      BY <1>3, <1>5, <3>1
    <3>3. n \notin Range(queue')
      BY <1>6, <3>1, <3>2
    <3> QED BY <1>2, <3>1, <3>2, <3>3 DEF Done
  <2>2. node \in Done'
    <3>1. inDeg'[node] = 0
      BY <1>1, <1>4, <1>5
    <3>2. node \notin Range(queue')
      BY <1>1, <1>4, <1>6
    <3> QED BY <1>1, <1>2, <3>1, <3>2 DEF Done
  <2>3. ASSUME NEW n \in Done', n # node PROVE n \in Done
    <3>1. n \in Added /\ inDeg'[n] = 0 /\ n \notin Range(queue')
      BY <1>2 DEF Done
    <3>2. n \notin adj[node]
      <4> SUFFICES ASSUME n \in adj[node] PROVE FALSE
        OBVIOUS
      <4>1. inDeg[n] \in Nat /\ inDeg[n] - 1 = 0
        BY <1>1, <1>5, <3>1
      <4> QED BY <1>6, <3>1, <4>1
    <3>3. inDeg[n] = 0 /\ n \notin Range(queue)
      BY <1>5, <2>3, <3>1, <3>2
    <3> QED BY <3>1, <3>3 DEF Done
  <2> QED BY <2>1, <2>2, <2>3
<1>8. \A n \in Added : Counted(n)'
  <2> SUFFICES ASSUME NEW n \in Added
               PROVE  inDeg'[n] + Cardinality(PredsOf(n) \cap Done') = Degree(edges, n)
    BY <1>2 DEF Counted
  <2>1. /\ Degree(edges, n) \in Nat /\ IsFiniteSet(PredsOf(n) \cap Done)
        /\ Cardinality(PredsOf(n) \cap Done) \in Nat
    <3>1. Degree(edges, n) \in Nat /\ IsFiniteSet(PredsOf(n))
      BY Degrees DEF GraphInv, PredsOf
    <3>2. PredsOf(n) \cap Done \in SUBSET PredsOf(n)
      OBVIOUS
    <3> QED BY <3>1, <3>2, Subsets
  <2>2. inDeg[n] + Cardinality(PredsOf(n) \cap Done) = Degree(edges, n) /\ inDeg[n] \in Nat
    BY <1>1 DEF Counted
  <2>3. CASE n \in adj[node]
    <3>1. node \in PredsOf(n)
      BY <1>1, <2>3 DEF GraphInv
    <3>2. PredsOf(n) \cap Done' = (PredsOf(n) \cap Done) \cup {node}
      BY <1>7, <3>1
    <3>3. Cardinality(PredsOf(n) \cap Done') = Cardinality(PredsOf(n) \cap Done) + 1
      <4> DEFINE A == PredsOf(n) \cap Done
      <4>1. IsFiniteSet(A) /\ node \notin A
        BY <1>1, <2>1
      <4> HIDE DEF A
      <4>2. Cardinality(A \cup {node}) = Cardinality(A) + 1
        BY <4>1, FS_AddElement
      <4> QED BY <3>2, <4>2 DEF A
    <3>4. inDeg'[n] = inDeg[n] - 1
      BY <1>5, <2>3
    <3> QED BY <2>1, <2>2, <3>3, <3>4
  <2>4. CASE n \notin adj[node]
    <3>1. node \notin PredsOf(n)
      BY <1>1, <2>4 DEF GraphInv
    <3>2. PredsOf(n) \cap Done' = PredsOf(n) \cap Done
      BY <1>7, <3>1
    <3>3. inDeg'[n] = inDeg[n]
      BY <1>5, <2>4
    <3> QED BY <2>2, <3>2, <3>3
  <2> QED BY <2>3, <2>4
<1>9. \A n \in Range(queue') : n \in Added /\ inDeg'[n] = 0
  <2> SUFFICES ASSUME NEW n \in Range(queue') PROVE n \in Added /\ inDeg'[n] = 0
    OBVIOUS
  <2>1. CASE n \in Freed(node)
    <3>1. n \in Added /\ n \in adj[node] /\ inDeg[n] = 1
      BY <1>6, <2>1
    <3> QED BY <1>5, <3>1
  <2>2. CASE n \in Range(queue)
    <3>1. n \in Added /\ inDeg[n] = 0
      BY <2>2 DEF WalkInv, Range
    <3> QED BY <1>3, <1>5, <3>1
  <2> QED BY <2>1, <2>2
<1>10. \A n \in Range(queue') : PredsOf(n) \subseteq Done'
  <2> SUFFICES ASSUME NEW n \in Range(queue') PROVE PredsOf(n) \subseteq Done'
    OBVIOUS
  <2>1. n \in Added /\ inDeg'[n] = 0 /\ IsGraph(Added, edges)
    BY <1>9 DEF GraphInv
  <2>2. 0 + Cardinality(PredsOf(n) \cap Done') = Degree(edges, n)
    BY <1>2, <1>8, <2>1 DEF Counted
  <2> HIDE DEF Done
  <2> QED BY <2>1, <2>2, Behind DEF PredsOf
<1>11. ASSUME NEW S \in SUBSET Added, Stuck(Added, edges, S)
       PROVE  S \cap (Done' \cup Range(queue')) = {}
  <2>1. S \cap (Done \cup Range(queue)) = {}
    BY <1>11 DEF WalkInv
  <2>2. S \cap Done' = {}
    BY <1>7, <2>1
  <2>3. ASSUME NEW n \in S, n \in Range(queue') PROVE FALSE
    <3>1. n \in Added /\ PredsOf(n) \subseteq Done' /\ inDeg'[n] = 0
      BY <1>9, <1>10, <2>3
    <3>2. inDeg'[n] + Cardinality(PredsOf(n) \cap Done') = Degree(edges, n)
      BY <1>2, <1>8, <3>1 DEF Counted
    <3>3. PredsOf(n) \cap Done' = PredsOf(n) /\ PredsOf(n) \ S = PredsOf(n)
      BY <2>2, <3>1
    <3>4. Cardinality(PredsOf(n)) \in Nat
      BY <3>1, Degrees DEF GraphInv, PredsOf
    <3>5. Degree(edges, n) > Cardinality(PredsOf(n) \ S)
      BY <1>11, <2>3 DEF Stuck, PredsOf
    <3>6. 0 + Cardinality(PredsOf(n)) = Degree(edges, n)
      BY <3>1, <3>2, <3>3
    <3>7. Degree(edges, n) > Cardinality(PredsOf(n))
      BY <3>3, <3>5
    <3> QED BY <3>4, <3>6, <3>7
  <2> QED BY <2>2, <2>3
<1>12. WalkInv'
  BY <1>2, <1>5, <1>8, <1>9, <1>11 DEF WalkInv
<1> QED BY <1>1, <1>2, <1>7, <1>10, <1>12

-----------------------------------------------------------------------------
(***************************************************************************)
(* Queues without repetitions.                                             *)
(***************************************************************************)
LEMMA Enumerates ==
  ASSUME NEW F, IsFiniteSet(F), NEW s \in SetToSeqs(F)
  PROVE  s \in Seq(F) /\ IsInjective(s) /\ Range(s) = F
<1>1. Cardinality(F) \in Nat
  BY FS_CardinalityType
<1>2. /\ s \in [1..Cardinality(F) -> F]
      /\ \A i, j \in 1..Cardinality(F) : i # j => s[i] # s[j]
  BY DEF SetToSeqs
<1>3. s \in Injection(1..Cardinality(F), F)
  BY <1>2 DEF Injection, IsInjective
<1>4. Cardinality(1..Cardinality(F)) = Cardinality(F)
  <2>1. 1 \in Int /\ Cardinality(F) \in Int
    BY <1>1
  <2>2. Cardinality(1..Cardinality(F)) =
          IF 1 > Cardinality(F) THEN 0 ELSE Cardinality(F) - 1 + 1
    BY <2>1, FS_Interval
  <2> QED BY <1>1, <2>2
<1>5. s \in Surjection(1..Cardinality(F), F)
  BY <1>3, <1>4, FS_Injection
<1>6. s \in Seq(F)
  BY <1>1, <1>2
<1>7. Range(s) = F
  BY <1>2, <1>5 DEF Surjection, Range
<1> QED BY <1>2, <1>6, <1>7 DEF IsInjective

LEMMA Queued ==
  ASSUME NEW S, NEW q \in Seq(S), IsInjective(q), IsFiniteSet(S)
  PROVE  Len(q) \in 0..Cardinality(S)
<1>1. Len(q) \in Nat /\ q \in [1..Len(q) -> S] /\ DOMAIN q = 1..Len(q)
  OBVIOUS
<1>2. q \in Injection(1..Len(q), S)
  BY <1>1 DEF Injection
<1>3. Cardinality(1..Len(q)) <= Cardinality(S)
  BY <1>2, FS_Injection
<1>4. Cardinality(1..Len(q)) = Len(q)
  <2>1. 1 \in Int /\ Len(q) \in Int
    BY <1>1
  <2>2. Cardinality(1..Len(q)) = IF 1 > Len(q) THEN 0 ELSE Len(q) - 1 + 1
    BY <2>1, FS_Interval
  <2> QED BY <1>1, <2>2
<1>5. Cardinality(S) \in Nat
  BY FS_CardinalityType
<1> QED BY <1>1, <1>3, <1>4, <1>5

LEMMA FromHead ==
  ASSUME NEW S, NEW q \in Seq(S), IsInjective(q), q # <<>>
  PROVE  /\ Tail(q) \in Seq(S) /\ IsInjective(Tail(q))
         /\ Head(q) \in Range(q) /\ Head(q) = q[1]
         /\ Len(Tail(q)) = Len(q) - 1
         /\ \A i \in 1..Len(Tail(q)) : Tail(q)[i] = q[i + 1]
         /\ Range(Tail(q)) = Range(q) \ {Head(q)}
<1>1. /\ Len(q) \in Nat \ {0} /\ DOMAIN q = 1..Len(q) /\ Head(q) = q[1]
      /\ Tail(q) \in Seq(S) /\ DOMAIN Tail(q) = 1..(Len(q) - 1)
      /\ Len(Tail(q)) = Len(q) - 1
      /\ \A i \in 1..(Len(q) - 1) : Tail(q)[i] = q[i + 1]
  OBVIOUS
<1>2. \A i, j \in 1..Len(q) : q[i] = q[j] => i = j
  BY <1>1 DEF IsInjective
<1>3. IsInjective(Tail(q))
  BY <1>1, <1>2 DEF IsInjective
<1>4. ASSUME NEW x \in Range(Tail(q)) PROVE x \in Range(q) \ {Head(q)}
  <2>1. PICK i \in 1..(Len(q) - 1) : x = q[i + 1]
    BY <1>1 DEF Range
  <2>2. i + 1 \in 1..Len(q) /\ i + 1 # 1 /\ 1 \in 1..Len(q)
    BY <1>1
  <2> QED BY <1>1, <1>2, <2>1, <2>2 DEF Range
<1>5. ASSUME NEW x \in Range(q), x # Head(q) PROVE x \in Range(Tail(q))
  <2>1. PICK i \in 1..Len(q) : x = q[i] /\ i # 1
    BY <1>1, <1>5 DEF Range
  <2>2. i - 1 \in 1..(Len(q) - 1) /\ (i - 1) + 1 = i
    BY <1>1, <2>1
  <2>3. Tail(q)[i - 1] = x
    BY <1>1, <2>1, <2>2
  <2> QED BY <1>1, <2>2, <2>3 DEF Range
<1>6. Head(q) \in Range(q)
  BY <1>1 DEF Range
<1> QED BY <1>1, <1>3, <1>4, <1>5, <1>6

LEMMA FromEnd ==
  ASSUME NEW S, NEW q \in Seq(S), IsInjective(q), q # <<>>
  PROVE  /\ Front(q) \in Seq(S) /\ IsInjective(Front(q))
         /\ Last(q) \in Range(q)
         /\ Range(Front(q)) = Range(q) \ {Last(q)}
<1>1. /\ Len(q) \in Nat \ {0} /\ DOMAIN q = 1..Len(q) /\ Last(q) = q[Len(q)]
      /\ Front(q) = SubSeq(q, 1, Len(q) - 1)
  BY DEF Last, Front
<1>0. Len(q) \in Nat \ {0}
  BY <1>1
<1>2. /\ Front(q) \in Seq(S) /\ DOMAIN Front(q) = 1..(Len(q) - 1)
      /\ \A i \in 1..(Len(q) - 1) : Front(q)[i] = q[i]
  BY <1>1
<1>3. \A i, j \in 1..Len(q) : q[i] = q[j] => i = j
  BY <1>1 DEF IsInjective
<1>4. IsInjective(Front(q))
  BY <1>1, <1>2, <1>3 DEF IsInjective
<1>5. ASSUME NEW x \in Range(Front(q)) PROVE x \in Range(q) \ {Last(q)}
  <2>1. PICK i \in 1..(Len(q) - 1) : x = q[i]
    BY <1>2 DEF Range
  <2>2. i \in 1..Len(q) /\ i # Len(q) /\ Len(q) \in 1..Len(q)
    BY <1>0
  <2> QED BY <1>1, <1>3, <2>1, <2>2 DEF Range
<1>6. ASSUME NEW x \in Range(q), x # Last(q) PROVE x \in Range(Front(q))
  <2>1. PICK i \in 1..Len(q) : x = q[i] /\ i # Len(q)
    BY <1>1, <1>6 DEF Range
  <2>2. i \in 1..(Len(q) - 1)
    BY <1>0, <2>1
  <2> QED BY <1>2, <2>1, <2>2 DEF Range
<1>7. Last(q) \in Range(q)
  BY <1>1 DEF Range
<1> QED BY <1>2, <1>4, <1>5, <1>6, <1>7

LEMMA Joined ==
  ASSUME NEW S, NEW q \in Seq(S), NEW r \in Seq(S), IsInjective(q), IsInjective(r),
         Range(q) \cap Range(r) = {}
  PROVE  /\ q \o r \in Seq(S) /\ IsInjective(q \o r)
         /\ Range(q \o r) = Range(q) \cup Range(r)
         /\ \A i \in 1..Len(q) : (q \o r)[i] = q[i]
         /\ Len(q \o r) = Len(q) + Len(r)
<1> DEFINE s == q \o r
<1>1. /\ Len(q) \in Nat /\ Len(r) \in Nat /\ DOMAIN q = 1..Len(q) /\ DOMAIN r = 1..Len(r)
      /\ s \in Seq(S) /\ Len(s) = Len(q) + Len(r) /\ DOMAIN s = 1..(Len(q) + Len(r))
      /\ \A i \in 1..Len(q) : s[i] = q[i]
      /\ \A i \in 1..(Len(q) + Len(r)) : i > Len(q) => s[i] = r[i - Len(q)]
  OBVIOUS
<1> HIDE DEF s
<1>2. \A i \in 1..(Len(q) + Len(r)) : i > Len(q) => i - Len(q) \in 1..Len(r)
  BY <1>1
<1>3. \A i \in 1..Len(q) : s[i] \in Range(q)
  BY <1>1 DEF Range
<1>4. \A i \in 1..(Len(q) + Len(r)) : i > Len(q) => s[i] \in Range(r)
  BY <1>1, <1>2 DEF Range
<1>5. ASSUME NEW i \in DOMAIN s, NEW j \in DOMAIN s, s[i] = s[j] PROVE i = j
  <2>1. CASE i <= Len(q) /\ j <= Len(q)
    <3>1. i \in 1..Len(q) /\ j \in 1..Len(q) /\ q[i] = q[j]
      BY <1>1, <1>5, <2>1
    <3> QED BY <1>1, <3>1 DEF IsInjective
  <2>2. CASE i > Len(q) /\ j > Len(q)
    <3>1. /\ i - Len(q) \in 1..Len(r) /\ j - Len(q) \in 1..Len(r)
          /\ r[i - Len(q)] = r[j - Len(q)]
      BY <1>1, <1>2, <1>5, <2>2
    <3>2. i - Len(q) = j - Len(q)
      BY <1>1, <3>1 DEF IsInjective
    <3> QED BY <1>1, <3>2
  <2>3. i \in 1..(Len(q) + Len(r)) /\ j \in 1..(Len(q) + Len(r))
    BY <1>1
  <2>4. CASE i <= Len(q) /\ j > Len(q)
    <3>1. s[i] \in Range(q) /\ s[j] \in Range(r)
      BY <1>1, <1>3, <1>4, <2>3, <2>4
    <3> QED BY <1>5, <3>1
  <2>5. CASE i > Len(q) /\ j <= Len(q)
    <3>1. s[j] \in Range(q) /\ s[i] \in Range(r)
      BY <1>1, <1>3, <1>4, <2>3, <2>5
    <3> QED BY <1>5, <3>1
  <2> QED BY <1>1, <2>1, <2>2, <2>3, <2>4, <2>5
<1>6. Range(s) \subseteq Range(q) \cup Range(r)
  <2> SUFFICES ASSUME NEW i \in DOMAIN s PROVE s[i] \in Range(q) \cup Range(r)
    BY DEF Range
  <2> QED BY <1>1, <1>3, <1>4
<1>7. \A i \in 1..Len(r) : i + Len(q) \in DOMAIN s /\ s[i + Len(q)] = r[i]
  <2>1. Len(q) \in Nat /\ Len(r) \in Nat
    BY <1>1
  <2> SUFFICES ASSUME NEW i \in 1..Len(r)
               PROVE  i + Len(q) \in DOMAIN s /\ s[i + Len(q)] = r[i]
    OBVIOUS
  <2>2. /\ i + Len(q) \in 1..(Len(q) + Len(r)) /\ i + Len(q) > Len(q)
        /\ (i + Len(q)) - Len(q) = i
    BY <2>1
  <2>3. s[i + Len(q)] = r[(i + Len(q)) - Len(q)]
    BY <1>1, <2>2
  <2> QED BY <1>1, <2>2, <2>3
<1>8. Range(q) \cup Range(r) \subseteq Range(s)
  <2>1. ASSUME NEW i \in DOMAIN q PROVE q[i] \in Range(s)
    <3>1. i \in DOMAIN s /\ s[i] = q[i]
      BY <1>1
    <3> QED BY <3>1 DEF Range
  <2>2. ASSUME NEW i \in DOMAIN r PROVE r[i] \in Range(s)
    <3>1. i + Len(q) \in DOMAIN s /\ s[i + Len(q)] = r[i]
      BY <1>1, <1>7
    <3> QED BY <3>1 DEF Range
  <2> QED BY <2>1, <2>2 DEF Range
<1>9. IsInjective(s)
  BY <1>5 DEF IsInjective
<1> QED BY <1>1, <1>6, <1>8, <1>9 DEF s

LEMMA Appended ==
  ASSUME NEW S, NEW q \in Seq(S), NEW x \in S
  PROVE  /\ Append(q, x) \in Seq(S)
         /\ DOMAIN Append(q, x) = 1..(Len(q) + 1) /\ Len(q) \in Nat /\ DOMAIN q = 1..Len(q)
         /\ Append(q, x)[Len(q) + 1] = x
         /\ \A i \in 1..Len(q) : Append(q, x)[i] = q[i]
         /\ Range(Append(q, x)) = Range(q) \cup {x}
         /\ IsInjective(q) /\ x \notin Range(q) => IsInjective(Append(q, x))
<1> DEFINE s == Append(q, x)
<1>1. /\ s \in Seq(S) /\ DOMAIN s = 1..(Len(q) + 1)
      /\ Len(q) \in Nat /\ DOMAIN q = 1..Len(q)
      /\ s[Len(q) + 1] = x /\ \A i \in 1..Len(q) : s[i] = q[i]
  OBVIOUS
<1> HIDE DEF s
<1>2. \A i \in 1..(Len(q) + 1) : i \in 1..Len(q) \/ i = Len(q) + 1
  BY <1>1
<1>3. 1..Len(q) \subseteq 1..(Len(q) + 1) /\ Len(q) + 1 \in 1..(Len(q) + 1)
  BY <1>1
<1>4. Range(s) = Range(q) \cup {x}
  BY <1>1, <1>2, <1>3 DEF Range
<1>5. IsInjective(q) /\ x \notin Range(q) => IsInjective(s)
  BY <1>1, <1>2, <1>3 DEF IsInjective, Range
<1> QED BY <1>1, <1>4, <1>5 DEF s

-----------------------------------------------------------------------------
(***************************************************************************)
(* BFS(): the predecessors of a layer are in those before it, and so are   *)
(* those of the level that is being made and of what it has yet to take    *)
(* from the queue. has_cycle() counts what it takes.                       *)
(***************************************************************************)
InLayers == {n \in Added : \E i \in DOMAIN layers : InLayer(n, i)}

PlacedOnce ==
  \A i, j \in DOMAIN layers : \A p \in DOMAIN layers[i], q \in DOMAIN layers[j] :
    layers[i][p] = layers[j][q] => i = j /\ p = q

LayersBehind ==
  \A j \in DOMAIN layers : \A n \in Range(layers[j]) : \A m \in PredsOf(n) :
    \E i \in DOMAIN layers : i < j /\ InLayer(m, i)

LevelBehind ==
  /\ \A n \in Range(level) : PredsOf(n) \subseteq InLayers
  /\ \A p \in 1..size : PredsOf(queue[p]) \subseteq InLayers

BfsInv ==
  /\ walk # "bfs" => layers = <<>> /\ level = <<>>
  /\ walk = "bfs" =>
       /\ layers \in Seq(Seq(Added)) /\ level \in Seq(Added)
       /\ size \in 0..Len(queue) /\ (size = 0 => queue = <<>> /\ level = <<>>)
       /\ Done = Range(level) \cup InLayers /\ Range(level) \cap InLayers = {}
       /\ IsInjective(level) /\ PlacedOnce
       /\ LayersBehind /\ LevelBehind

CountInv ==
  /\ walk \in {"none", "bfs", "cycle"}
  /\ walk = "none" => queue = <<>>
  /\ visited = IF walk = "cycle" THEN Cardinality(Done) ELSE 0
  /\ size \in 0..Cardinality(Added)

DagInv == GraphInv /\ WalkInv /\ BfsInv /\ CountInv

LEMMA NewDag == DagInit => DagInv
<1> SUFFICES ASSUME DagInit PROVE DagInv
  OBVIOUS
<1>1. Added = {} /\ edges = <<>> /\ walk = "none"
  BY DEF DagInit, Added
<1>2. IsFiniteSet({}) /\ Cardinality({}) = 0
  BY FS_EmptySet
<1>3. GraphInv
  BY <1>1, <1>2 DEF GraphInv, IsGraph
<1>4. WalkInv /\ BfsInv
  BY <1>1 DEF DagInit, WalkInv, BfsInv
<1>5. CountInv
  BY <1>1, <1>2 DEF DagInit, CountInv
<1> QED BY <1>3, <1>4, <1>5 DEF DagInv

LEMMA Built ==
  ASSUME NEW names, IsFiniteSet(names), NEW ls \in Seq(Names \X Names),
         ~Dangling(names, ls), Build(names, ls)
  PROVE  /\ DagInv'
         /\ Added' = names /\ edges' = ls /\ walk' = "none"
<1>1. Added' = names /\ edges' = ls /\ walk' = "none"
  BY DEF Build, Added
<1>2. \A i \in DOMAIN ls : /\ ls[i] = <<ls[i][1], ls[i][2]>>
                           /\ ls[i][1] \in names /\ ls[i][2] \in names
  BY DEF Dangling
<1>3. ls \in Seq(names \X names)
  <2>1. Len(ls) \in Nat /\ ls = [i \in 1..Len(ls) |-> ls[i]] /\ DOMAIN ls = 1..Len(ls)
    OBVIOUS
  <2>2. \A i \in 1..Len(ls) : ls[i] \in names \X names
    BY <1>2, <2>1
  <2> QED BY <2>1, <2>2
<1>4. \A m, n \in names : n \in adj'[m] <=> \E i \in DOMAIN ls : ls[i] = <<m, n>>
  <2> SUFFICES ASSUME NEW m \in names, NEW n \in names
               PROVE  n \in adj'[m] <=> \E i \in DOMAIN ls : ls[i] = <<m, n>>
    OBVIOUS
  <2>1. adj'[m] = {l[2] : l \in {k \in Range(ls) : k[1] = m}}
    BY DEF Build
  <2>2. ASSUME NEW i \in DOMAIN ls, ls[i] = <<m, n>> PROVE n \in adj'[m]
    <3>1. ls[i] \in Range(ls) /\ ls[i][1] = m /\ ls[i][2] = n
      BY <2>2 DEF Range
    <3> QED BY <2>1, <3>1
  <2>3. ASSUME n \in adj'[m] PROVE \E i \in DOMAIN ls : ls[i] = <<m, n>>
    <3>1. PICK k \in Range(ls) : k[1] = m /\ k[2] = n
      BY <2>1, <2>3
    <3>2. PICK i \in DOMAIN ls : k = ls[i]
      BY DEF Range
    <3> QED BY <1>2, <3>1, <3>2
  <2> QED BY <2>2, <2>3
<1>5. \A m \in names : adj'[m] \subseteq names
  BY <1>2 DEF Build, Range
<1>6. GraphInv'
  BY <1>1, <1>3, <1>4, <1>5 DEF GraphInv, IsGraph, PredsOf, Preds
<1>7. WalkInv' /\ BfsInv'
  BY <1>1 DEF Build, WalkInv, BfsInv
<1>8. CountInv'
  <2>1. Cardinality(names) \in Nat
    BY FS_CardinalityType
  <2> QED BY <1>1, <2>1 DEF Build, CountInv
<1> QED BY <1>1, <1>6, <1>7, <1>8 DEF DagInv

LEMMA Begun ==
  ASSUME DagInv, NEW w \in {"bfs", "cycle"}, NEW place, Begin(w, place)
  PROVE  DagInv'
<1> DEFINE Heads == {n \in Added : InDegree(n) = 0}
<1>1. /\ Added' = Added /\ edges' = edges /\ adj' = adj /\ walk = "none" /\ walk' = w
      /\ \A n : PredsOf(n)' = PredsOf(n)
      /\ layers' = layers /\ level' = level /\ visited' = visited
      /\ layers = <<>> /\ level = <<>> /\ visited = 0
  BY DEF Begin, Added, PredsOf, DagInv, BfsInv, CountInv
<1>2. IsGraph(Added, edges) /\ IsFiniteSet(Added)
  BY DEF DagInv, GraphInv, IsGraph
<1>3. \A n \in Added : InDegree(n) = Degree(edges, n) /\ Degree(edges, n) \in Nat
  <2>1. \A n \in Added : Degree(edges, n) \in 0..Len(edges) /\ Len(edges) \in Nat
    BY <1>2, Degrees DEF IsGraph
  <2> QED BY <2>1 DEF InDegree, Degree, Into
<1>4. /\ inDeg' \in [Added -> Nat]
      /\ \A n \in Added : inDeg'[n] = Degree(edges, n)
  BY <1>3 DEF Begin
<1>5. Heads \in SUBSET Added /\ IsFiniteSet(Heads)
  BY <1>2, FS_Subset
<1>6. queue' \in SetToSeqs(Heads) /\ size' = Len(queue')
  BY DEF Begin
<1>7. queue' \in Seq(Heads) /\ IsInjective(queue') /\ Range(queue') = Heads
  BY <1>5, <1>6, Enumerates
<1>8. queue' \in Seq(Added)
  BY <1>5, <1>7
<1>9. \A n \in Range(queue') : n \in Added /\ inDeg'[n] = 0
  BY <1>3, <1>4, <1>7
<1>10. Done' = {}
  BY <1>1, <1>3, <1>4, <1>7 DEF Done
<1>11. \A n \in Added : Counted(n)'
  <2>1. \A n \in Added : PredsOf(n) \cap Done' = {}
    BY <1>10
  <2>2. Cardinality({}) = 0
    BY FS_EmptySet
  <2> SUFFICES ASSUME NEW n \in Added
               PROVE  inDeg'[n] + Cardinality(PredsOf(n) \cap Done') = Degree(edges, n)
    BY <1>1 DEF Counted
  <2>3. PredsOf(n) \cap Done' = {}
    BY <2>1
  <2>4. inDeg'[n] = Degree(edges, n) /\ Degree(edges, n) \in Nat
    BY <1>3, <1>4
  <2>5. Degree(edges, n) + 0 = Degree(edges, n)
    BY <2>4
  <2> QED BY <2>2, <2>3, <2>4, <2>5
<1>12. \A n \in Range(queue') : PredsOf(n) = {}
  <2> SUFFICES ASSUME NEW n \in Range(queue') PROVE PredsOf(n) = {}
    OBVIOUS
  <2>1. n \in Added /\ 0 = Degree(edges, n)
    BY <1>4, <1>9
  <2>2. /\ IsFiniteSet(PredsOf(n)) /\ Cardinality(PredsOf(n)) \in Nat
        /\ Cardinality(PredsOf(n)) <= Degree(edges, n)
    BY <1>2, <2>1, Degrees DEF PredsOf
  <2>3. Cardinality(PredsOf(n)) = 0
    BY <2>1, <2>2
  <2> QED BY <2>2, <2>3, FS_EmptySet
<1>13. ASSUME NEW S \in SUBSET Added, Stuck(Added, edges, S), NEW n \in S, n \in Range(queue')
       PROVE  FALSE
  <2>1. Degree(edges, n) > Cardinality(PredsOf(n) \ S) /\ Degree(edges, n) = 0
    BY <1>4, <1>9, <1>13 DEF Stuck, PredsOf
  <2>2. PredsOf(n) \ S = {} /\ Cardinality({}) = 0
    BY <1>12, <1>13, FS_EmptySet
  <2> QED BY <2>1, <2>2
<1>14. WalkInv'
  BY <1>1, <1>4, <1>7, <1>8, <1>9, <1>10, <1>11, <1>13 DEF WalkInv
<1>15. GraphInv'
  BY <1>1 DEF DagInv, GraphInv
<1>16. size' \in 0..Cardinality(Added) /\ size' \in 0..Len(queue')
  <2>1. size' \in 0..Cardinality(Added)
    BY <1>2, <1>6, <1>7, <1>8, Queued
  <2> QED BY <1>6, <1>8, <2>1
<1>17. CountInv'
  <2>1. Cardinality({}) = 0
    BY FS_EmptySet
  <2> QED BY <1>1, <1>10, <1>16, <2>1 DEF CountInv
<1>18. BfsInv'
  <2>1. InLayers' = {} /\ Range(level') = {}
    BY <1>1 DEF InLayers, Range
  <2>2. size' = 0 => queue' = <<>>
    <3>1. \A q \in Seq(Added) : Len(q) = 0 => q = <<>>
      OBVIOUS
    <3> QED BY <1>6, <1>8, <3>1
  <2>3. LevelBehind'
    <3>1. \A p \in 1..size' : queue'[p] \in Range(queue')
      BY <1>6, <1>8 DEF Range
    <3> QED BY <1>1, <1>12, <2>1, <3>1 DEF LevelBehind
  <2>4. PlacedOnce' /\ LayersBehind' /\ IsInjective(level')
    BY <1>1 DEF PlacedOnce, LayersBehind, IsInjective
  <2> QED BY <1>1, <1>10, <1>16, <2>1, <2>2, <2>3, <2>4 DEF BfsInv
<1> QED BY <1>14, <1>15, <1>17, <1>18 DEF DagInv

\* One turn of BFS().
LEMMA Visited ==
  ASSUME DagInv, Visit
  PROVE  DagInv'
<1> DEFINE node == Head(queue)
<1> DEFINE whole == Append(level, node)
<1>1. /\ walk = "bfs" /\ queue # <<>> /\ queue \in Seq(Added) /\ IsInjective(queue)
      /\ layers \in Seq(Seq(Added)) /\ level \in Seq(Added)
      /\ size \in 0..Len(queue) /\ size # 0 /\ visited = 0
      /\ Done = Range(level) \cup InLayers /\ Range(level) \cap InLayers = {}
      /\ IsInjective(level) /\ PlacedOnce /\ LayersBehind /\ LevelBehind
  BY DEF Visit, DagInv, WalkInv, BfsInv, CountInv
<1>2. /\ UNCHANGED <<adj, edges, walk, visited>>
      /\ Added' = Added /\ \A n : PredsOf(n)' = PredsOf(n)
  BY DEF Visit, Added, PredsOf
<1>3. /\ Tail(queue) \in Seq(Added) /\ IsInjective(Tail(queue))
      /\ node \in Range(queue) /\ node = queue[1] /\ node \in Added
      /\ Len(Tail(queue)) = Len(queue) - 1
      /\ \A i \in 1..Len(Tail(queue)) : Tail(queue)[i] = queue[i + 1]
      /\ Range(Tail(queue)) = Range(queue) \ {node}
  <2>1. Range(queue) \subseteq Added
    BY <1>1 DEF Range
  <2> QED BY <1>1, <2>1, FromHead
<1>4. Freed(node) \in SUBSET Added /\ Freed(node) \cap Range(queue) = {} /\ IsFiniteSet(Freed(node))
  <2>1. Freed(node) \in SUBSET Added /\ IsFiniteSet(Added)
    BY <1>3 DEF Freed, DagInv, GraphInv, IsGraph
  <2>2. Freed(node) \cap Range(queue) = {}
    BY <1>1 DEF Freed, DagInv, WalkInv
  <2> QED BY <2>1, <2>2, FS_Subset
<1>5. PICK freed \in SetToSeqs(Freed(node)) :
        /\ queue' = Tail(queue) \o freed
        /\ \/ /\ size = 1
              /\ layers' = Append(layers, whole) /\ level' = <<>> /\ size' = Len(queue')
           \/ /\ size # 1
              /\ level' = whole /\ size' = size - 1 /\ layers' = layers
  BY DEF Visit
<1>6. freed \in Seq(Added) /\ IsInjective(freed) /\ Range(freed) = Freed(node)
  <2>1. freed \in Seq(Freed(node)) /\ IsInjective(freed) /\ Range(freed) = Freed(node)
    BY <1>4, Enumerates
  <2> QED BY <1>4, <2>1
<1>7. /\ queue' \in Seq(Added) /\ IsInjective(queue')
      /\ Range(queue') = (Range(queue) \ {node}) \cup Freed(node)
      /\ \A i \in 1..Len(Tail(queue)) : queue'[i] = queue[i + 1]
      /\ Len(queue') = Len(Tail(queue)) + Len(freed)
  <2>1. Range(Tail(queue)) \cap Range(freed) = {}
    BY <1>3, <1>4, <1>6
  <2>2. /\ Tail(queue) \o freed \in Seq(Added) /\ IsInjective(Tail(queue) \o freed)
        /\ Range(Tail(queue) \o freed) = Range(Tail(queue)) \cup Range(freed)
        /\ \A i \in 1..Len(Tail(queue)) : (Tail(queue) \o freed)[i] = Tail(queue)[i]
        /\ Len(Tail(queue) \o freed) = Len(Tail(queue)) + Len(freed)
    <3> DEFINE rest == Tail(queue)
    <3>1. rest \in Seq(Added) /\ IsInjective(rest) /\ Range(rest) \cap Range(freed) = {}
      BY <1>3, <2>1
    <3> HIDE DEF rest
    <3>2. /\ rest \o freed \in Seq(Added) /\ IsInjective(rest \o freed)
          /\ Range(rest \o freed) = Range(rest) \cup Range(freed)
          /\ \A i \in 1..Len(rest) : (rest \o freed)[i] = rest[i]
          /\ Len(rest \o freed) = Len(rest) + Len(freed)
      BY <1>6, <3>1, Joined
    <3> QED BY <3>2 DEF rest
  <2> HIDE DEF node
  <2> QED BY <1>3, <1>5, <1>6, <2>2
<1>8. inDeg' = Decreased(node)
  BY DEF Visit
<1>9. /\ WalkInv' /\ Done' = Done \cup {node} /\ node \notin Done
      /\ \A n \in Range(queue') : PredsOf(n) \subseteq Done'
  <2>1. GraphInv /\ WalkInv /\ walk # "none"
    BY <1>1 DEF DagInv
  <2> HIDE DEF node
  <2> QED BY <1>2, <1>3, <1>7, <1>8, <2>1, Removing
<1> HIDE DEF node
<1>10. PredsOf(node) \subseteq InLayers
  <2>1. 1 \in 1..size
    BY <1>1
  <2> QED BY <1>1, <1>3, <2>1 DEF LevelBehind
<1>11. /\ whole \in Seq(Added) /\ IsInjective(whole)
       /\ Range(whole) = Range(level) \cup {node}
  BY <1>1, <1>3, <1>9, Appended
<1>12. GraphInv'
  BY <1>2 DEF DagInv, GraphInv
<1>13. \A n \in Range(whole) : PredsOf(n) \subseteq InLayers
  BY <1>1, <1>10, <1>11 DEF LevelBehind
<1>14. Len(queue') \in 0..Cardinality(Added) /\ Len(queue') \in Nat
  BY <1>7, Queued DEF DagInv, GraphInv, IsGraph
<1> HIDE DEF whole
<1>15. CASE size # 1
  <2>1. level' = whole /\ size' = size - 1 /\ layers' = layers
    BY <1>5, <1>15
  <2>2. InLayers' = InLayers
    BY <1>2, <2>1 DEF InLayers, InLayer
  <2>3. Len(queue) \in Nat /\ Len(freed) \in Nat
    BY <1>1, <1>6
  <2>4. size' \in 1..Len(Tail(queue)) /\ size' \in 0..Len(queue') /\ size' # 0
    BY <1>1, <1>3, <1>7, <1>15, <2>1, <2>3
  <2>5. \A p \in 1..size' : queue'[p] = queue[p + 1] /\ p + 1 \in 1..size
    <3> SUFFICES ASSUME NEW p \in 1..size' PROVE queue'[p] = queue[p + 1] /\ p + 1 \in 1..size
      OBVIOUS
    <3>1. p \in 1..Len(Tail(queue)) /\ p + 1 \in 1..size
      BY <1>1, <1>3, <2>1, <2>3, <2>4
    <3> QED BY <1>7, <3>1
  <2>6. LevelBehind'
    <3>1. \A n \in Range(level') : PredsOf(n)' \subseteq InLayers'
      BY <1>2, <1>13, <2>1, <2>2
    <3>2. \A p \in 1..size' : PredsOf(queue'[p]) \subseteq InLayers
      BY <1>1, <2>5 DEF LevelBehind
    <3>3. \A p \in 1..size' : Preds(Added', edges', queue'[p]) \subseteq InLayers'
      BY <1>2, <2>2, <3>2 DEF PredsOf
    <3> QED BY <3>1, <3>3 DEF LevelBehind, PredsOf
  <2>7. PlacedOnce' /\ LayersBehind'
    BY <1>1, <1>2, <2>1 DEF PlacedOnce, LayersBehind, InLayer, PredsOf
  <2>8. Done' = Range(level') \cup InLayers' /\ Range(level') \cap InLayers' = {}
    BY <1>1, <1>9, <1>11, <2>1, <2>2
  <2>9. BfsInv'
    BY <1>1, <1>2, <1>11, <2>1, <2>4, <2>6, <2>7, <2>8 DEF BfsInv
  <2>10. Len(queue) \in 0..Cardinality(Added) /\ Cardinality(Added) \in Nat
    BY <1>1, Queued, FS_CardinalityType DEF DagInv, GraphInv, IsGraph
  <2>11. size' \in 0..Cardinality(Added)
    BY <1>1, <2>1, <2>3, <2>10
  <2>12. CountInv'
    BY <1>1, <1>2, <2>11 DEF CountInv
  <2> QED BY <1>9, <1>12, <2>9, <2>12 DEF DagInv
<1>16. CASE size = 1
  <2>1. layers' = Append(layers, whole) /\ level' = <<>> /\ size' = Len(queue')
    BY <1>5, <1>16
  <2>2. /\ layers' \in Seq(Seq(Added)) /\ DOMAIN layers' = 1..(Len(layers) + 1)
        /\ Len(layers) \in Nat /\ DOMAIN layers = 1..Len(layers)
        /\ layers'[Len(layers) + 1] = whole
        /\ \A i \in 1..Len(layers) : layers'[i] = layers[i]
    BY <1>1, <1>11, <2>1, Appended
  <2>3. /\ \A i \in DOMAIN layers' : i \in DOMAIN layers \/ i = Len(layers) + 1
        /\ DOMAIN layers \subseteq DOMAIN layers' /\ Len(layers) + 1 \in DOMAIN layers'
        /\ \A i \in DOMAIN layers : i < Len(layers) + 1
    BY <2>2
  <2>4. \A n, i : InLayer(n, i)' <=> n \in Range(layers'[i])
    BY DEF InLayer
  <2>5. InLayers' = InLayers \cup Range(whole)
    <3>1. ASSUME NEW n \in InLayers PROVE n \in InLayers'
      <4>1. PICK i \in DOMAIN layers : n \in Range(layers[i])
        BY DEF InLayers, InLayer
      <4>2. i \in DOMAIN layers' /\ n \in Range(layers'[i])
        BY <2>2, <2>3, <4>1
      <4> QED BY <1>2, <2>4, <4>2 DEF InLayers
    <3>2. ASSUME NEW n \in Range(whole) PROVE n \in InLayers'
      <4>1. n \in Added
        BY <1>11 DEF Range
      <4> QED BY <1>2, <2>2, <2>3, <2>4, <4>1 DEF InLayers
    <3>3. ASSUME NEW n \in InLayers' PROVE n \in InLayers \cup Range(whole)
      <4>1. PICK i \in DOMAIN layers' : n \in Range(layers'[i])
        BY <2>4 DEF InLayers
      <4>2. n \in Added
        BY <1>2 DEF InLayers
      <4> QED BY <2>2, <2>3, <4>1, <4>2 DEF InLayers, InLayer
    <3> QED BY <3>1, <3>2, <3>3
  <2>6. Done' = InLayers' /\ Range(level') = {}
    <3>1. Range(<<>>) = {}
      BY DEF Range
    <3> QED BY <1>1, <1>9, <1>11, <2>1, <2>5, <3>1
  <2>7. Range(whole) \cap InLayers = {}
    BY <1>1, <1>9, <1>11
  <2>8. PlacedOnce'
    <3>1. ASSUME NEW i \in DOMAIN layers, NEW p \in DOMAIN layers[i] PROVE layers[i][p] \in InLayers
      <4>1. layers[i][p] \in Added
        BY <1>1
      <4> QED BY <4>1 DEF InLayers, InLayer, Range
    <3>2. \A p \in DOMAIN whole : whole[p] \in Range(whole)
      BY DEF Range
    <3> SUFFICES ASSUME NEW i \in DOMAIN layers', NEW j \in DOMAIN layers',
                        NEW p \in DOMAIN layers'[i], NEW q \in DOMAIN layers'[j],
                        layers'[i][p] = layers'[j][q]
                 PROVE  i = j /\ p = q
      BY DEF PlacedOnce
    <3>3. CASE i \in DOMAIN layers /\ j \in DOMAIN layers
      <4>1. layers'[i] = layers[i] /\ layers'[j] = layers[j]
        BY <2>2, <3>3
      <4> QED BY <1>1, <3>3, <4>1 DEF PlacedOnce
    <3>4. CASE i = Len(layers) + 1 /\ j = Len(layers) + 1
      <4>1. layers'[i] = whole /\ layers'[j] = whole
        BY <2>2, <3>4
      <4> QED BY <1>11, <3>4, <4>1 DEF IsInjective
    <3>5. CASE i \in DOMAIN layers /\ j = Len(layers) + 1
      <4>1. layers'[i] = layers[i] /\ layers'[j] = whole
        BY <2>2, <3>5
      <4> QED BY <2>7, <3>1, <3>2, <3>5, <4>1
    <3>6. CASE i = Len(layers) + 1 /\ j \in DOMAIN layers
      <4>1. layers'[j] = layers[j] /\ layers'[i] = whole
        BY <2>2, <3>6
      <4> QED BY <2>7, <3>1, <3>2, <3>6, <4>1
    <3> QED BY <2>3, <3>3, <3>4, <3>5, <3>6
  <2>9. LayersBehind'
    <3> SUFFICES ASSUME NEW j \in DOMAIN layers', NEW n \in Range(layers'[j]),
                        NEW m \in PredsOf(n)
                 PROVE  \E i \in DOMAIN layers' : i < j /\ m \in Range(layers'[i])
      BY <1>2, <2>4 DEF LayersBehind, PredsOf
    <3>1. CASE j \in DOMAIN layers
      <4>1. n \in Range(layers[j])
        BY <2>2, <3>1
      <4>2. PICK i \in DOMAIN layers : i < j /\ m \in Range(layers[i])
        BY <1>1, <3>1, <4>1 DEF LayersBehind, InLayer
      <4> QED BY <2>2, <2>3, <4>2
    <3>2. CASE j = Len(layers) + 1
      <4>1. n \in Range(whole)
        BY <2>2, <3>2
      <4>2. m \in InLayers
        BY <1>13, <4>1
      <4>3. PICK i \in DOMAIN layers : m \in Range(layers[i])
        BY <4>2 DEF InLayers, InLayer
      <4> QED BY <2>2, <2>3, <3>2, <4>3
    <3> QED BY <2>3, <3>1, <3>2
  <2>10. LevelBehind'
    <3>1. \A p \in 1..size' : queue'[p] \in Range(queue')
      BY <1>7, <2>1 DEF Range
    <3>2. \A p \in 1..size' : PredsOf(queue'[p]) \subseteq InLayers'
      BY <1>9, <2>6, <3>1
    <3>3. \A p \in 1..size' : Preds(Added', edges', queue'[p]) \subseteq InLayers'
      BY <1>2, <3>2 DEF PredsOf
    <3> QED BY <2>6, <3>3 DEF LevelBehind, PredsOf
  <2>11. size' = 0 => queue' = <<>>
    <3>1. \A q \in Seq(Added) : Len(q) = 0 => q = <<>>
      OBVIOUS
    <3> QED BY <1>7, <2>1, <3>1
  <2>12. size' \in 0..Len(queue') /\ level' \in Seq(Added) /\ IsInjective(level')
    BY <1>14, <2>1 DEF IsInjective
  <2>13. BfsInv'
    BY <1>1, <1>2, <2>1, <2>2, <2>6, <2>8, <2>9, <2>10, <2>11, <2>12 DEF BfsInv
  <2>14. CountInv'
    BY <1>1, <1>2, <1>14, <2>1 DEF CountInv
  <2> QED BY <1>9, <1>12, <2>13, <2>14 DEF DagInv
<1> QED BY <1>15, <1>16

\* One turn of has_cycle().
LEMMA VisitedLast ==
  ASSUME DagInv, VisitLast
  PROVE  DagInv'
<1> DEFINE node == Last(queue)
<1>1. /\ walk = "cycle" /\ queue # <<>> /\ queue \in Seq(Added) /\ IsInjective(queue)
      /\ visited = Cardinality(Done) /\ visited' = visited + 1
      /\ inDeg' = Decreased(node)
  BY DEF VisitLast, DagInv, WalkInv, CountInv
<1>2. /\ UNCHANGED <<adj, edges, walk, layers, level, size>>
      /\ Added' = Added /\ \A n : PredsOf(n)' = PredsOf(n)
  BY DEF VisitLast, Added, PredsOf
<1>3. /\ Front(queue) \in Seq(Added) /\ IsInjective(Front(queue))
      /\ node \in Range(queue) /\ node \in Added
      /\ Range(Front(queue)) = Range(queue) \ {node}
  <2>1. Range(queue) \subseteq Added
    BY <1>1 DEF Range
  <2> QED BY <1>1, <2>1, FromEnd
<1>4. Freed(node) \in SUBSET Added /\ Freed(node) \cap Range(queue) = {} /\ IsFiniteSet(Freed(node))
  <2>1. Freed(node) \in SUBSET Added /\ IsFiniteSet(Added)
    BY <1>3 DEF Freed, DagInv, GraphInv, IsGraph
  <2>2. Freed(node) \cap Range(queue) = {}
    BY <1>1 DEF Freed, DagInv, WalkInv
  <2> QED BY <2>1, <2>2, FS_Subset
<1>5. PICK freed \in SetToSeqs(Freed(node)) : queue' = Front(queue) \o freed
  BY DEF VisitLast
<1>6. freed \in Seq(Added) /\ IsInjective(freed) /\ Range(freed) = Freed(node)
  <2>1. freed \in Seq(Freed(node)) /\ IsInjective(freed) /\ Range(freed) = Freed(node)
    BY <1>4, Enumerates
  <2> QED BY <1>4, <2>1
<1> HIDE DEF node
<1>7. /\ queue' \in Seq(Added) /\ IsInjective(queue')
      /\ Range(queue') = (Range(queue) \ {node}) \cup Freed(node)
  <2>1. Range(Front(queue)) \cap Range(freed) = {}
    BY <1>3, <1>4, <1>6
  <2> QED BY <1>3, <1>5, <1>6, <2>1, Joined
<1>8. WalkInv' /\ Done' = Done \cup {node} /\ node \notin Done
  <2>1. GraphInv /\ WalkInv /\ walk # "none"
    BY <1>1 DEF DagInv
  <2> QED BY <1>1, <1>2, <1>3, <1>7, <2>1, Removing
<1>9. GraphInv' /\ BfsInv'
  BY <1>1, <1>2 DEF DagInv, GraphInv, BfsInv
<1>10. visited' = Cardinality(Done')
  <2>1. IsFiniteSet(Done)
    <3>1. Done \in SUBSET Added /\ IsFiniteSet(Added)
      BY DEF Done, DagInv, GraphInv, IsGraph
    <3> QED BY <3>1, FS_Subset
  <2>2. Cardinality(Done \cup {node}) = Cardinality(Done) + 1
    BY <1>8, <2>1, FS_AddElement
  <2> QED BY <1>1, <1>8, <2>2
<1>11. CountInv'
  BY <1>1, <1>2, <1>10 DEF DagInv, CountInv
<1> QED BY <1>8, <1>9, <1>11 DEF DagInv

LEMMA DagKept ==
  ASSUME DagInv, UNCHANGED dagVars
  PROVE  DagInv' /\ Added' = Added
<1>1. /\ adj' = adj /\ edges' = edges /\ walk' = walk /\ inDeg' = inDeg /\ queue' = queue
      /\ layers' = layers /\ level' = level /\ size' = size /\ visited' = visited
  BY DEF dagVars
<1>2. /\ Added' = Added /\ Done' = Done /\ InLayers' = InLayers
      /\ \A n : PredsOf(n)' = PredsOf(n)
  BY <1>1 DEF Added, Done, InLayers, InLayer, PredsOf
<1>3. GraphInv'
  BY <1>1, <1>2 DEF DagInv, GraphInv
<1>4. WalkInv'
  BY <1>1, <1>2 DEF DagInv, WalkInv, Counted
<1>5. PlacedOnce' = PlacedOnce /\ LayersBehind' = LayersBehind /\ LevelBehind' = LevelBehind
  BY <1>1, <1>2 DEF PlacedOnce, LayersBehind, LevelBehind, InLayer, PredsOf
<1>6. BfsInv' /\ CountInv'
  BY <1>1, <1>2, <1>5 DEF DagInv, BfsInv, CountInv
<1> QED BY <1>2, <1>3, <1>4, <1>6 DEF DagInv

-----------------------------------------------------------------------------
(***************************************************************************)
(* The end of a walk leaves out nothing, or a stuck set; a stuck set is    *)
(* never reached.                                                          *)
(***************************************************************************)
LEMMA LeftOver ==
  ASSUME DagInv, walk # "none", queue = <<>>
  PROVE  /\ Added \ Done # {} => Stuck(Added, edges, Added \ Done)
         /\ \A S \in SUBSET Added : Stuck(Added, edges, S) => S \cap Done = {}
<1>1. /\ inDeg \in [Added -> Nat] /\ \A n \in Added : Counted(n)
      /\ IsGraph(Added, edges)
  BY DEF DagInv, WalkInv, GraphInv
<1>2. Range(queue) = {}
  BY DEF Range
<1>3. ASSUME NEW n \in Added \ Done
      PROVE  Degree(edges, n) > Cardinality(PredsOf(n) \ (Added \ Done))
  <2>1. inDeg[n] \in Nat /\ inDeg[n] # 0
    BY <1>1, <1>2 DEF Done
  <2>2. inDeg[n] + Cardinality(PredsOf(n) \cap Done) = Degree(edges, n)
    BY <1>1 DEF Counted
  <2>3. /\ IsFiniteSet(PredsOf(n)) /\ PredsOf(n) \subseteq Added
        /\ Degree(edges, n) \in Nat
    BY <1>1, Degrees DEF PredsOf
  <2>4. PredsOf(n) \ (Added \ Done) = PredsOf(n) \cap Done
    BY <2>3
  <2>5. Cardinality(PredsOf(n) \cap Done) \in Nat
    <3>1. PredsOf(n) \cap Done \in SUBSET PredsOf(n)
      OBVIOUS
    <3> QED BY <2>3, <3>1, Subsets
  <2>6. Degree(edges, n) > Cardinality(PredsOf(n) \cap Done)
    BY <2>1, <2>2, <2>3, <2>5
  <2> QED BY <2>4, <2>6
<1>4. Added \ Done # {} => Stuck(Added, edges, Added \ Done)
  BY <1>3 DEF Stuck, PredsOf
<1>5. \A S \in SUBSET Added : Stuck(Added, edges, S) => S \cap Done = {}
  BY <1>2 DEF DagInv, WalkInv
<1> QED BY <1>4, <1>5

\* What BFS() ends with is placed, each node once.
LEMMA PlacedAll ==
  ASSUME DagInv, WalkOver("bfs"), Added \subseteq Done
  PROVE  AllPlaced
<1>1. walk = "bfs" /\ queue = <<>> /\ Len(queue) = 0
  BY DEF WalkOver
<1>2. /\ size \in 0..Len(queue) /\ (size = 0 => level = <<>>)
      /\ Done = Range(level) \cup InLayers /\ PlacedOnce
  BY <1>1 DEF DagInv, BfsInv
<1>3. Range(level) = {}
  BY <1>1, <1>2 DEF Range
<1>4. Added \subseteq InLayers
  BY <1>2, <1>3
<1> QED BY <1>2, <1>4 DEF AllPlaced, InLayers, PlacedOnce

LEMMA CyclicIsStuck ==
  ASSUME DagInv, Distinct
  PROVE  Cyclic <=> \E S \in SUBSET Added : Stuck(Added, edges, S)
<1>1. IsGraph(Added, edges) /\ IsInjective(edges)
  BY DEF DagInv, GraphInv, Distinct
<1>2. \A S \in SUBSET Added : S # {} =>
        (Stuck(Added, edges, S) <=> \A n \in S : \E m \in S : <<m, n>> \in Range(edges))
  BY <1>1, StuckIsCyclic
<1>3. \A S \in SUBSET Added : Stuck(Added, edges, S) => S # {}
  BY DEF Stuck
<1> QED BY <1>2, <1>3 DEF Cyclic, Links

LEMMA LayersOfDag == DagInv => LayersRight
<1> SUFFICES ASSUME DagInv PROVE LayersRight
  OBVIOUS
<1>1. ASSUME NEW i \in DOMAIN layers, NEW j \in DOMAIN layers, NEW m \in Added, NEW n \in Added,
             <<m, n>> \in Links, InLayer(m, i), InLayer(n, j)
      PROVE  i < j
  <2>1. walk = "bfs"
    BY DEF DagInv, BfsInv
  <2>2. PlacedOnce /\ LayersBehind /\ layers \in Seq(Seq(Added))
    BY <2>1 DEF DagInv, BfsInv
  <2>3. m \in PredsOf(n)
    <3>1. PICK k \in DOMAIN edges : edges[k] = <<m, n>>
      BY <1>1 DEF Links, Range
    <3> QED BY <3>1 DEF PredsOf, Preds
  <2>4. PICK k \in DOMAIN layers : k < j /\ InLayer(m, k)
    BY <1>1, <2>2, <2>3 DEF LayersBehind, InLayer
  <2>5. PICK p \in DOMAIN layers[i] : layers[i][p] = m
    BY <1>1 DEF InLayer, Range
  <2>6. PICK q \in DOMAIN layers[k] : layers[k][q] = m
    BY <2>4 DEF InLayer, Range
  <2>7. i = k
    BY <2>2, <2>5, <2>6 DEF PlacedOnce
  <2> QED BY <2>4, <2>7
<1>2. ASSUME WalkOver("bfs"), Distinct, ~Cyclic PROVE AllPlaced
  <2>1. walk # "none" /\ queue = <<>>
    BY <1>2 DEF WalkOver
  <2>2. ~Stuck(Added, edges, Added \ Done)
    BY <1>2, CyclicIsStuck
  <2>3. Added \subseteq Done
    BY <2>1, <2>2, LeftOver
  <2> QED BY <1>2, <2>3, PlacedAll
<1> QED BY <1>1, <1>2 DEF LayersRight

LEMMA CyclesOfDag == DagInv => HasCycleRight
<1> SUFFICES ASSUME DagInv, WalkOver("cycle"), Distinct PROVE HasCycle <=> Cyclic
  BY DEF HasCycleRight
<1>1. walk = "cycle" /\ queue = <<>>
  BY DEF WalkOver
<1>2. visited = Cardinality(Done) /\ IsFiniteSet(Added) /\ Done \in SUBSET Added
  BY <1>1 DEF DagInv, CountInv, GraphInv, IsGraph, Done
<1>3. HasCycle <=> Done # Added
  BY <1>2, FS_Subset DEF HasCycle
<1>4. ASSUME Done # Added PROVE Cyclic
  <2>1. Added \ Done # {} /\ Added \ Done \in SUBSET Added
    BY <1>2, <1>4
  <2>2. Stuck(Added, edges, Added \ Done)
    BY <1>1, <2>1, LeftOver
  <2> QED BY <2>1, <2>2, CyclicIsStuck
<1>5. ASSUME Cyclic PROVE Done # Added
  <2>1. PICK S \in SUBSET Added : Stuck(Added, edges, S)
    BY <1>5, CyclicIsStuck
  <2>2. S \cap Done = {}
    BY <1>1, <2>1, LeftOver
  <2>3. S # {}
    BY <2>1 DEF Stuck
  <2> QED BY <2>2, <2>3
<1> QED BY <1>3, <1>4, <1>5

-----------------------------------------------------------------------------
(***************************************************************************)
(* The file: what the creator makes has no link to nowhere, and what       *)
(* validate lets pass has no stuck set, and only sources that no link      *)
(* leads to.                                                               *)
(***************************************************************************)
Sound ==
  /\ \A S \in SUBSET Named : ~Stuck(Named, links, S)
  /\ \A n \in Named : Degree(links, n) = 0 => TypeOf(n) = "source"

FileTyped ==
  /\ stage \in {"creator", "file", "checking", "launched", "failed", "left"}
  /\ nodes \in Seq(Nodes) /\ links \in Seq(Names \X Names)
  /\ mode \in {"base", "link"} /\ from \in Named \cup {None}
  /\ mode = "base" => from = None
  /\ created \in BOOLEAN /\ verdict \in {"none", "valid", "invalid"}
  /\ Added \subseteq Names

CreatorInv ==
  created => /\ IsInjective(NamesOf(nodes))
             /\ \A i \in DOMAIN links : links[i][1] # links[i][2]
             /\ ~Dangling(Named, links)

StageInv ==
  /\ stage = "creator" => verdict = "none"
  /\ verdict = "valid" => ~Dangling(Named, links) /\ Sound
  /\ stage \in {"checking", "launched"} => Added = Named /\ edges = links
  /\ stage = "failed" => nodes = <<>> \/ Dangling(Named, links)

FileInv == DagInv /\ FileTyped /\ CreatorInv /\ StageInv

LEMMA Naming ==
  ASSUME NEW ns \in Seq(Nodes)
  PROVE  Range(NamesOf(ns)) \subseteq Names /\ IsFiniteSet(Range(NamesOf(ns)))
<1>1. \A i \in DOMAIN ns : ns[i] \in Nodes
  OBVIOUS
<1>2. \A i \in DOMAIN ns : ns[i].name \in Names
  BY <1>1 DEF Nodes
<1>3. Range(NamesOf(ns)) \in SUBSET Names
  BY <1>2 DEF Range, NamesOf
<1> QED BY <1>3, DagAssumption, FS_Subset

LEMMA OneMore ==
  ASSUME NEW ns \in Seq(Nodes), NEW node \in Nodes, node.name \notin Range(NamesOf(ns))
  PROVE  /\ Append(ns, node) \in Seq(Nodes)
         /\ Range(NamesOf(ns)) \subseteq Range(NamesOf(Append(ns, node)))
         /\ IsInjective(NamesOf(ns)) => IsInjective(NamesOf(Append(ns, node)))
<1> DEFINE more == Append(ns, node)
<1>1. /\ more \in Seq(Nodes)
      /\ DOMAIN more = 1..(Len(ns) + 1) /\ Len(ns) \in Nat /\ DOMAIN ns = 1..Len(ns)
      /\ more[Len(ns) + 1] = node
      /\ \A i \in 1..Len(ns) : more[i] = ns[i]
  BY Appended
<1> HIDE DEF more
<1>2. /\ \A i \in DOMAIN more : i \in 1..Len(ns) \/ i = Len(ns) + 1
      /\ 1..Len(ns) \subseteq DOMAIN more
  BY <1>1
<1>3. /\ DOMAIN NamesOf(more) = DOMAIN more /\ DOMAIN NamesOf(ns) = 1..Len(ns)
      /\ NamesOf(more)[Len(ns) + 1] = node.name
      /\ \A i \in 1..Len(ns) : NamesOf(more)[i] = NamesOf(ns)[i]
  <2>1. Len(ns) + 1 \in DOMAIN more
    BY <1>1
  <2> QED BY <1>1, <1>2, <2>1 DEF NamesOf
<1>4. Range(NamesOf(ns)) \subseteq Range(NamesOf(more))
  BY <1>2, <1>3 DEF Range
<1>5. \A i \in 1..Len(ns) : NamesOf(more)[i] # node.name
  BY <1>3 DEF Range
<1>6. IsInjective(NamesOf(ns)) => IsInjective(NamesOf(more))
  BY <1>2, <1>3, <1>5 DEF IsInjective
<1> QED BY <1>1, <1>4, <1>6 DEF more

\* As long as the file and what is known of it stay the same.
LEMMA FileKept ==
  ASSUME FileInv, UNCHANGED fileVars
  PROVE  /\ nodes' = nodes /\ links' = links /\ created' = created /\ Named' = Named
         /\ Dangling(Named', links') = Dangling(Named, links)
         /\ Sound' = Sound /\ CreatorInv'
<1>1. nodes' = nodes /\ links' = links /\ created' = created
  BY DEF fileVars
<1>2. Named' = Named /\ \A n : TypeOf(n)' = TypeOf(n)
  BY <1>1 DEF Named, NamesOf, TypeOf
<1>3. Sound' = Sound
  BY <1>1, <1>2 DEF Sound
<1>4. CreatorInv'
  BY <1>1, <1>2 DEF FileInv, CreatorInv, NamesOf
<1> QED BY <1>1, <1>2, <1>3, <1>4

\* As long as the stage and the verdict stay the same too, and the graph is
\* still that of the same nodes and links.
LEMMA FileWalked ==
  ASSUME FileInv, UNCHANGED <<stage, fileVars, creatorVars, verdict>>,
         DagInv', Added' = Added, edges' = edges
  PROVE  FileInv'
<1>1. /\ nodes' = nodes /\ links' = links /\ created' = created /\ Named' = Named
      /\ Dangling(Named', links') = Dangling(Named, links)
      /\ Sound' = Sound /\ CreatorInv'
  BY FileKept
<1>2. stage' = stage /\ mode' = mode /\ from' = from /\ verdict' = verdict
  BY DEF creatorVars
<1>3. FileTyped'
  BY <1>1, <1>2 DEF FileInv, FileTyped
<1>4. StageInv'
  BY <1>1, <1>2 DEF FileInv, StageInv
<1> QED BY <1>1, <1>3, <1>4 DEF FileInv

LEMMA FileStart == Init => FileInv
<1> SUFFICES ASSUME Init PROVE FileInv
  OBVIOUS
<1>1. DagInv /\ Added = {}
  BY NewDag DEF Init, DagInit, Added
<1>2. nodes \in Seq(Nodes) /\ links \in Seq(Names \X Names)
  <2>1. CASE nodes = <<>> /\ links = <<>>
    BY <2>1
  <2>2. CASE \E f \in Files : nodes = f.nodes /\ links = f.links
    <3>1. PICK f \in Files : nodes = f.nodes /\ links = f.links
      BY <2>2
    <3>2. f \in [nodes : Seq(Nodes), links : Seq(Names \X Names)]
      BY ConfigurationAssumption
    <3> QED BY <3>1, <3>2
  <2> QED BY <2>1, <2>2 DEF Init
<1>3. FileTyped
  BY <1>1, <1>2 DEF Init, FileTyped
<1>4. CreatorInv
  BY DEF Init, CreatorInv, NamesOf, IsInjective, Dangling
<1>5. StageInv
  BY DEF Init, StageInv
<1> QED BY <1>1, <1>3, <1>4, <1>5 DEF FileInv

\* A turn of the creator: none has a verdict or a graph.
LEMMA CreatorStep ==
  ASSUME FileInv,
         \/ \E t \in Texts, type \in Types : CreateNode(t, type)
         \/ LinkMode
         \/ \E t \in Texts : LinkFrom(t) \/ LinkTo(t)
         \/ LinkInterrupted
         \/ Save
         \/ Exit
  PROVE  FileInv'
<1>1. UNCHANGED dagVars /\ UNCHANGED verdict /\ stage = "creator" /\ verdict = "none"
  BY DEF FileInv, StageInv, CreateNode, LinkMode, LinkFrom, LinkTo, LinkInterrupted, Save, Exit
<1>2. DagInv' /\ Added' = Added
  BY <1>1, DagKept DEF FileInv
<1>3. /\ nodes \in Seq(Nodes) /\ links \in Seq(Names \X Names)
      /\ mode \in {"base", "link"} /\ from \in Named \cup {None}
      /\ mode = "base" => from = None
      /\ created \in BOOLEAN /\ Added \subseteq Names
      /\ Named \subseteq Names /\ None \notin Named
  BY Naming, ConfigurationAssumption DEF FileInv, FileTyped, Named
<1>4. \A t \in Texts : Resolve(t) \in Named \cup {None}
  <2> SUFFICES ASSUME NEW t \in Texts PROVE Resolve(t) \in Named \cup {None}
    OBVIOUS
  <2>1. CASE t.body \in DOMAIN Numeral /\ Numeral[t.body] < Len(nodes)
    <3>1. Numeral[t.body] \in Nat
      BY <2>1, ConfigurationAssumption DEF Range
    <3>2. Numeral[t.body] + 1 \in DOMAIN nodes
      BY <1>3, <2>1, <3>1
    <3>3. nodes[Numeral[t.body] + 1].name \in Named
      BY <3>2 DEF Named, NamesOf, Range
    <3> QED BY <2>1, <3>3 DEF Resolve
  <2>2. CASE ~(t.body \in DOMAIN Numeral /\ Numeral[t.body] < Len(nodes))
    BY <2>2 DEF Resolve
  <2> QED BY <2>1, <2>2
<1>5. ASSUME NEW t \in Texts, NEW type \in Types, CreateNode(t, type) PROVE FileInv'
  <2> DEFINE node == [name |-> Strip(t), type |-> type]
  <2>1. /\ nodes' = Append(nodes, node)
        /\ stage' = stage /\ links' = links /\ mode' = mode /\ from' = from
        /\ created' = created /\ verdict' = verdict
        /\ Strip(t) \notin Named \cup {None}
    BY <1>5 DEF CreateNode
  <2>2. node \in Nodes /\ node.name \notin Range(NamesOf(nodes))
    <3>1. Strip(t) \in Names
      BY <2>1 DEF Texts, Strip
    <3> QED BY <2>1, <3>1 DEF Nodes, Named
  <2> HIDE DEF node
  <2>3. /\ nodes' \in Seq(Nodes) /\ Named \subseteq Named'
        /\ IsInjective(NamesOf(nodes)) => IsInjective(NamesOf(nodes'))
    BY <1>3, <2>1, <2>2, OneMore DEF Named
  <2>4. FileTyped'
    BY <1>2, <1>3, <2>1, <2>3 DEF FileInv, FileTyped
  <2>5. ~Dangling(Named, links) => ~Dangling(Named', links')
    BY <2>1, <2>3 DEF Dangling
  <2>6. CreatorInv'
    BY <2>1, <2>3, <2>5 DEF FileInv, CreatorInv
  <2>7. StageInv'
    BY <1>1, <2>1 DEF StageInv
  <2> QED BY <1>2, <2>4, <2>6, <2>7 DEF FileInv
<1>6. ASSUME UNCHANGED fileVars, mode' \in {"base", "link"}, from' \in Named \cup {None},
             mode' = "base" => from' = None, stage' \in {"creator", "file", "left"}
      PROVE  FileInv'
  <2>1. /\ nodes' = nodes /\ links' = links /\ created' = created /\ Named' = Named
        /\ CreatorInv'
    BY <1>6, FileKept
  <2>2. FileTyped'
    BY <1>1, <1>2, <1>3, <1>6, <2>1 DEF FileTyped
  <2>3. StageInv'
    BY <1>1, <1>6, <2>1 DEF StageInv
  <2> QED BY <1>2, <2>1, <2>2, <2>3 DEF FileInv
<1>7. CASE LinkMode
  <2>1. /\ UNCHANGED fileVars /\ mode' = "link" /\ from' = None /\ stage' = "creator"
    BY <1>1, <1>7 DEF LinkMode
  <2> QED BY <1>6, <2>1
<1>8. ASSUME NEW t \in Texts, LinkFrom(t) PROVE FileInv'
  <2>1. /\ UNCHANGED fileVars /\ from' \in Named \cup {None} /\ stage' = "creator"
        /\ mode' \in {"base", "link"} /\ (mode' = "base" => from' = None)
    BY <1>1, <1>4, <1>8 DEF LinkFrom
  <2> QED BY <1>6, <2>1
<1>9. ASSUME NEW t \in Texts, LinkTo(t) PROVE FileInv'
  <2>1. /\ nodes' = nodes /\ created' = created /\ mode' = "base" /\ from' = None
        /\ stage' = "creator" /\ verdict' = verdict
        /\ from # None
        /\ links' = IF Resolve(t) \in {None, from} THEN links ELSE Append(links, <<from, Resolve(t)>>)
    BY <1>9, <1>1 DEF LinkTo
  <2>2. Named' = Named
    BY <2>1 DEF Named
  <2>3. from \in Named
    BY <1>3, <2>1
  <2>4. /\ links' \in Seq(Names \X Names)
        /\ created => (\A i \in DOMAIN links' : links'[i][1] # links'[i][2]) /\ ~Dangling(Named, links')
    <3>1. CASE Resolve(t) \in {None, from}
      BY <1>3, <2>1, <3>1 DEF FileInv, CreatorInv
    <3>2. CASE Resolve(t) \notin {None, from}
      <4> DEFINE link == <<from, Resolve(t)>>
      <4>1. /\ links' = Append(links, link)
            /\ link \in Names \X Names
            /\ link[1] \in Named /\ link[2] \in Named /\ link[1] # link[2]
        BY <1>3, <1>4, <2>1, <2>3, <3>2
      <4> HIDE DEF link
      <4>2. /\ links' \in Seq(Names \X Names)
            /\ Len(links) \in Nat /\ DOMAIN links' = 1..(Len(links) + 1) /\ DOMAIN links = 1..Len(links)
            /\ links'[Len(links) + 1] = link
            /\ \A i \in 1..Len(links) : links'[i] = links[i]
        BY <1>3, <4>1, Appended
      <4>3. \A i \in DOMAIN links' : i \in 1..Len(links) \/ i = Len(links) + 1
        BY <4>2
      <4>4. created => \A i \in DOMAIN links : /\ links[i][1] # links[i][2]
                                               /\ links[i][1] \in Named /\ links[i][2] \in Named
        BY DEF FileInv, CreatorInv, Dangling
      <4>5. created => \A i \in DOMAIN links' : /\ links'[i][1] # links'[i][2]
                                                /\ links'[i][1] \in Named /\ links'[i][2] \in Named
        BY <4>1, <4>2, <4>3, <4>4
      <4> QED BY <4>2, <4>5 DEF Dangling
    <3> QED BY <3>1, <3>2
  <2>5. FileTyped'
    BY <1>1, <1>2, <1>3, <2>1, <2>2, <2>4 DEF FileTyped
  <2>6. CreatorInv'
    BY <2>1, <2>2, <2>4 DEF FileInv, CreatorInv
  <2>7. StageInv'
    BY <1>1, <2>1 DEF StageInv
  <2> QED BY <1>2, <2>5, <2>6, <2>7 DEF FileInv
<1>10. CASE LinkInterrupted
  <2>1. UNCHANGED fileVars /\ mode' = "base" /\ from' = None /\ stage' = "creator"
    BY <1>1, <1>10 DEF LinkInterrupted
  <2> QED BY <1>6, <2>1
<1>11. CASE Save \/ Exit
  <2>1. /\ UNCHANGED fileVars /\ mode' = mode /\ from' = from
        /\ stage' \in {"file", "left"}
    BY <1>11 DEF Save, Exit, creatorVars
  <2> QED BY <1>3, <1>6, <2>1
<1> QED BY <1>5, <1>7, <1>8, <1>9, <1>10, <1>11

LEMMA ValidateStep ==
  ASSUME FileInv, Validate
  PROVE  FileInv'
<1>1. UNCHANGED fileVars /\ UNCHANGED creatorVars /\ stage = "file"
  BY DEF Validate
<1>2. /\ nodes' = nodes /\ links' = links /\ created' = created /\ Named' = Named
      /\ Dangling(Named', links') = Dangling(Named, links)
      /\ Sound' = Sound /\ CreatorInv'
  BY <1>1, FileKept
<1>3. CASE Dangling(Named, links)
  <2>1. verdict' = "invalid" /\ stage' = stage /\ UNCHANGED dagVars
    BY <1>3 DEF Validate
  <2>2. DagInv' /\ Added' = Added
    BY <2>1, DagKept DEF FileInv
  <2>3. FileTyped'
    BY <1>1, <1>2, <2>1, <2>2 DEF FileInv, FileTyped, creatorVars
  <2>4. StageInv'
    BY <1>1, <1>2, <2>1, <2>2 DEF StageInv
  <2> QED BY <1>2, <2>2, <2>3, <2>4 DEF FileInv
<1>4. CASE ~Dangling(Named, links)
  <2>1. verdict' = verdict /\ verdict = "none" /\ stage' = "checking" /\ Build(Named, links)
    BY <1>4 DEF Validate
  <2>2. /\ links \in Seq(Names \X Names)
        /\ IsFiniteSet(Named) /\ Named \subseteq Names
    BY Naming DEF FileInv, FileTyped, Named
  <2>3. DagInv' /\ Added' = Named /\ edges' = links
    BY <1>4, <2>1, <2>2, Built
  <2>4. FileTyped'
    BY <1>1, <1>2, <2>1, <2>2, <2>3 DEF FileInv, FileTyped, creatorVars
  <2>5. StageInv'
    BY <1>2, <2>1, <2>3 DEF StageInv
  <2> QED BY <1>2, <2>3, <2>4, <2>5 DEF FileInv
<1> QED BY <1>3, <1>4

LEMMA LaunchStep ==
  ASSUME FileInv, Launch
  PROVE  FileInv'
<1>1. UNCHANGED fileVars /\ UNCHANGED creatorVars /\ verdict' = verdict
  BY DEF Launch
<1>2. /\ nodes' = nodes /\ links' = links /\ created' = created /\ Named' = Named
      /\ Dangling(Named', links') = Dangling(Named, links)
      /\ Sound' = Sound /\ CreatorInv'
  BY <1>1, FileKept
<1>3. CASE Dangling(Named, links) \/ nodes = <<>>
  <2>1. stage' = "failed" /\ UNCHANGED dagVars
    BY <1>3 DEF Launch
  <2>2. DagInv' /\ Added' = Added
    BY <2>1, DagKept DEF FileInv
  <2>3. FileTyped'
    BY <1>1, <1>2, <2>1, <2>2 DEF FileInv, FileTyped, creatorVars
  <2>4. StageInv'
    BY <1>1, <1>2, <1>3, <2>1 DEF FileInv, StageInv
  <2> QED BY <1>2, <2>2, <2>3, <2>4 DEF FileInv
<1>4. CASE ~(Dangling(Named, links) \/ nodes = <<>>)
  <2>1. stage' = "launched" /\ Build(Named, links)
    BY <1>4 DEF Launch
  <2>2. /\ links \in Seq(Names \X Names)
        /\ IsFiniteSet(Named) /\ Named \subseteq Names
    BY Naming DEF FileInv, FileTyped, Named
  <2>3. DagInv' /\ Added' = Named /\ edges' = links
    BY <1>4, <2>1, <2>2, Built
  <2>4. FileTyped'
    BY <1>1, <1>2, <2>1, <2>2, <2>3 DEF FileInv, FileTyped, creatorVars
  <2>5. StageInv'
    BY <1>1, <1>2, <2>1, <2>3 DEF FileInv, StageInv
  <2> QED BY <1>2, <2>3, <2>4, <2>5 DEF FileInv
<1> QED BY <1>3, <1>4

LEMMA CheckStep ==
  ASSUME FileInv, CheckDagProperties
  PROVE  FileInv'
<1>1. /\ UNCHANGED fileVars /\ UNCHANGED creatorVars /\ UNCHANGED dagVars
      /\ stage = "checking" /\ stage' = "file"
      /\ walk = "cycle" /\ queue = <<>>
      /\ verdict' = IF HasCycle \/ ~HeadsAreSources THEN "invalid" ELSE "valid"
  BY DEF CheckDagProperties, WalkOver
<1>2. /\ nodes' = nodes /\ links' = links /\ created' = created /\ Named' = Named
      /\ Dangling(Named', links') = Dangling(Named, links)
      /\ Sound' = Sound /\ CreatorInv'
  BY <1>1, FileKept
<1>3. DagInv' /\ Added' = Added
  BY <1>1, DagKept DEF FileInv
<1>4. /\ Added = Named /\ edges = links /\ DagInv
      /\ links \in Seq(Added \X Added)
  BY <1>1 DEF FileInv, StageInv, DagInv, GraphInv, IsGraph
<1>5. ~Dangling(Named, links)
  <2>1. \A i \in DOMAIN links : links[i] \in Named \X Named
    BY <1>4
  <2> QED BY <2>1 DEF Dangling
<1>6. ASSUME verdict' = "valid" PROVE Sound
  <2>1. ~HasCycle /\ HeadsAreSources
    BY <1>1, <1>6
  <2>2. visited = Cardinality(Done) /\ IsFiniteSet(Added) /\ Done \in SUBSET Added
    BY <1>1, <1>4 DEF DagInv, CountInv, GraphInv, IsGraph, Done
  <2>3. Done = Added
    BY <2>1, <2>2, FS_Subset DEF HasCycle
  <2>4. \A S \in SUBSET Added : Stuck(Added, edges, S) => S \cap Done = {} /\ S # {}
    BY <1>1, <1>4, LeftOver DEF Stuck
  <2>5. \A S \in SUBSET Added : ~Stuck(Added, edges, S)
    BY <2>3, <2>4
  <2>6. \A n \in Added : Degree(edges, n) = 0 => TypeOf(n) = "source"
    BY <2>1 DEF HeadsAreSources, InDegree, Degree, Into
  <2> QED BY <1>4, <2>5, <2>6 DEF Sound
<1>7. FileTyped'
  BY <1>1, <1>2, <1>3 DEF FileInv, FileTyped, creatorVars
<1>8. StageInv'
  BY <1>1, <1>2, <1>5, <1>6 DEF StageInv
<1> QED BY <1>2, <1>3, <1>7, <1>8 DEF FileInv

LEMMA FileStep == FileInv /\ [Next]_vars => FileInv'
<1> SUFFICES ASSUME FileInv, [Next]_vars PROVE FileInv'
  OBVIOUS
<1>1. DagInv
  BY DEF FileInv
<1>2. CASE \/ \E t \in Texts, type \in Types : CreateNode(t, type)
           \/ LinkMode
           \/ \E t \in Texts : LinkFrom(t) \/ LinkTo(t)
           \/ LinkInterrupted
           \/ Save
           \/ Exit
  BY <1>2, CreatorStep
<1>3. CASE Validate
  BY <1>3, ValidateStep
<1>4. CASE HasCycleBegin
  <2>1. /\ Begin("cycle", FirstAt) /\ UNCHANGED <<stage, fileVars, creatorVars, verdict>>
        /\ Added' = Added /\ edges' = edges
    BY <1>4 DEF HasCycleBegin, Begin, Added
  <2>2. DagInv'
    BY <1>1, <2>1, Begun
  <2> QED BY <2>1, <2>2, FileWalked
<1>5. CASE HasCycleVisit
  <2>1. /\ VisitLast /\ UNCHANGED <<stage, fileVars, creatorVars, verdict>>
        /\ Added' = Added /\ edges' = edges
    BY <1>5 DEF HasCycleVisit, VisitLast, Added
  <2>2. DagInv'
    BY <1>1, <2>1, VisitedLast
  <2> QED BY <2>1, <2>2, FileWalked
<1>6. CASE CheckDagProperties
  BY <1>6, CheckStep
<1>7. CASE Launch
  BY <1>7, LaunchStep
<1>8. CASE BFSBegin
  <2>1. /\ Begin("bfs", FirstAt) /\ UNCHANGED <<stage, fileVars, creatorVars, verdict>>
        /\ Added' = Added /\ edges' = edges
    BY <1>8 DEF BFSBegin, Begin, Added
  <2>2. DagInv'
    BY <1>1, <2>1, Begun
  <2> QED BY <2>1, <2>2, FileWalked
<1>9. CASE BFSVisit
  <2>1. /\ Visit /\ UNCHANGED <<stage, fileVars, creatorVars, verdict>>
        /\ Added' = Added /\ edges' = edges
    BY <1>9 DEF BFSVisit, Visit, Added
  <2>2. DagInv'
    BY <1>1, <2>1, Visited
  <2> QED BY <2>1, <2>2, FileWalked
<1>10. CASE UNCHANGED vars
  <2>1. /\ UNCHANGED dagVars /\ UNCHANGED <<stage, fileVars, creatorVars, verdict>>
        /\ edges' = edges
    BY <1>10 DEF vars, fileVars, creatorVars, dagVars
  <2>2. DagInv' /\ Added' = Added
    BY <1>1, <2>1, DagKept
  <2> QED BY <2>1, <2>2, FileWalked
<1> QED
  BY <1>2, <1>3, <1>4, <1>5, <1>6, <1>7, <1>8, <1>9, <1>10 DEF Next

LEMMA FileInvariant == Spec => []FileInv
<1> QED BY FileStart, FileStep, PTL DEF Spec

-----------------------------------------------------------------------------
LEMMA TypeOfFile == FileInv => TypeOK
<1> SUFFICES ASSUME FileInv PROVE TypeOK
  OBVIOUS
<1>1. DagInv /\ FileTyped
  BY DEF FileInv
<1>2. /\ IsGraph(Added, edges) /\ IsFiniteSet(Added) /\ edges \in Seq(Added \X Added)
      /\ \A n \in Added : adj[n] \subseteq Added
      /\ walk \in {"none", "bfs", "cycle"} /\ size \in 0..Cardinality(Added)
  BY <1>1 DEF DagInv, GraphInv, IsGraph, CountInv
<1>3. ASSUME walk # "none" PROVE inDeg \in [Added -> 0..Len(edges)]
  <2>1. inDeg \in [Added -> Nat] /\ \A n \in Added : Counted(n)
    BY <1>1, <1>3 DEF DagInv, WalkInv
  <2>2. ASSUME NEW n \in Added PROVE inDeg[n] \in 0..Len(edges)
    <3>1. inDeg[n] + Cardinality(PredsOf(n) \cap Done) = Degree(edges, n)
      BY <2>1 DEF Counted
    <3>2. /\ Degree(edges, n) \in 0..Len(edges) /\ Len(edges) \in Nat
          /\ IsFiniteSet(PredsOf(n)) /\ inDeg[n] \in Nat
      BY <1>2, <2>1, Degrees DEF PredsOf
    <3>3. Cardinality(PredsOf(n) \cap Done) \in Nat
      <4>1. PredsOf(n) \cap Done \in SUBSET PredsOf(n)
        OBVIOUS
      <4> QED BY <3>2, <4>1, Subsets
    <3> QED BY <3>1, <3>2, <3>3
  <2> QED BY <2>1, <2>2
<1>4. queue \in Seq(Added)
  <2>1. CASE walk = "none"
    <3>1. queue = <<>>
      BY <1>1, <2>1 DEF DagInv, CountInv
    <3> QED BY <3>1
  <2>2. CASE walk # "none"
    BY <1>1, <2>2 DEF DagInv, WalkInv
  <2> QED BY <2>1, <2>2
<1>5. level \in Seq(Added) /\ layers \in Seq(Seq(Added))
  <2>1. CASE walk = "bfs"
    BY <1>1, <2>1 DEF DagInv, BfsInv
  <2>2. CASE walk # "bfs"
    <3>1. layers = <<>> /\ level = <<>>
      BY <1>1, <2>2 DEF DagInv, BfsInv
    <3> QED BY <3>1
  <2> QED BY <2>1, <2>2
<1>6. visited \in 0..Cardinality(Added)
  <2>1. Done \in SUBSET Added
    BY DEF Done
  <2>2. /\ Cardinality(Done) \in Nat /\ Cardinality(Added) \in Nat
        /\ Cardinality(Done) <= Cardinality(Added)
    BY <1>2, <2>1, Subsets
  <2> QED BY <1>1, <2>2 DEF DagInv, CountInv
<1> QED
  BY <1>1, <1>2, <1>3, <1>4, <1>5, <1>6 DEF TypeOK, FileTyped, DagTypeOK

LEMMA LaunchableFile == FileInv => Launchable
<1> SUFFICES ASSUME FileInv PROVE Launchable
  OBVIOUS
<1> QED BY DEF FileInv, CreatorInv, StageInv, Launchable

LEMMA PlacedFile == FileInv => ValidatedIsPlaced
<1> SUFFICES ASSUME FileInv, verdict = "valid", stage = "launched", WalkOver("bfs")
             PROVE  /\ AllPlaced
                    /\ \A n \in Added : layers # <<>> /\ InLayer(n, 1) => TypeOf(n) = "source"
  BY DEF ValidatedIsPlaced
<1>1. /\ DagInv /\ Sound /\ Added = Named /\ edges = links
      /\ walk = "bfs" /\ queue = <<>>
  BY DEF FileInv, StageInv, WalkOver
<1>2. AllPlaced
  <2>1. ~Stuck(Added, edges, Added \ Done)
    BY <1>1 DEF Sound
  <2>2. Added \subseteq Done
    BY <1>1, <2>1, LeftOver
  <2> QED BY <1>1, <2>2, PlacedAll
<1>3. ASSUME NEW n \in Added, layers # <<>>, InLayer(n, 1) PROVE TypeOf(n) = "source"
  <2>1. LayersBehind /\ layers \in Seq(Seq(Added)) /\ edges \in Seq(Added \X Added)
    BY <1>1 DEF DagInv, BfsInv, GraphInv, IsGraph
  <2>2. 1 \in DOMAIN layers /\ \A i \in DOMAIN layers : ~(i < 1)
    BY <1>3, <2>1
  <2>3. PredsOf(n) = {}
    BY <1>3, <2>1, <2>2 DEF LayersBehind, InLayer
  <2>4. Into(edges, n) = {}
    <3> SUFFICES ASSUME NEW i \in Into(edges, n) PROVE FALSE
      OBVIOUS
    <3>1. i \in DOMAIN edges /\ edges[i] \in Added \X Added /\ edges[i][2] = n
      BY <2>1 DEF Into
    <3>2. edges[i][1] \in PredsOf(n)
      BY <3>1 DEF PredsOf, Preds
    <3> QED BY <2>3, <3>2
  <2>5. Degree(edges, n) = 0
    BY <2>4, FS_EmptySet DEF Degree
  <2> QED BY <1>1, <1>3, <2>5 DEF Sound
<1> QED BY <1>2, <1>3

\* Of DAG and its two walks, the creator, validate and launch: each variable
\* keeps to its type, the degrees to the number of links, and what is counted
\* and queued to the nodes there are.
THEOREM ConfigurationTyped == Spec => []TypeOK
<1>1. FileInv => TypeOK
  BY TypeOfFile
<1> QED BY <1>1, FileInvariant, PTL

\* The layers that BFS() gives start() and stop() put each node before all it
\* transmits to; of an acyclic graph without repeated links they hold every
\* node, once.
THEOREM LayersAreRight == Spec => []LayersRight
<1>1. FileInv => LayersRight
  BY LayersOfDag DEF FileInv
<1> QED BY <1>1, FileInvariant, PTL

\* has_cycle(), which counts what it can remove, says of a graph without
\* repeated links whether it has a cycle.
THEOREM CyclesAreFound == Spec => []HasCycleRight
<1>1. FileInv => HasCycleRight
  BY CyclesOfDag DEF FileInv
<1> QED BY <1>1, FileInvariant, PTL

\* Whatever is typed in the creator and however its links are made, warmup()
\* finds both ends of each link; so it does where validate lets a file pass.
THEOREM FilesAreLaunchable == Spec => []Launchable
<1>1. FileInv => Launchable
  BY LaunchableFile
<1> QED BY <1>1, FileInvariant, PTL

\* What validate lets pass, start() starts in whole, each node once, and the
\* last layer it comes to has only sources: repeated links too are refused,
\* since has_cycle() counts the nodes they leave behind.
THEOREM ValidFilesArePlaced == Spec => []ValidatedIsPlaced
<1>1. FileInv => ValidatedIsPlaced
  BY PlacedFile
<1> QED BY <1>1, FileInvariant, PTL
=============================================================================
