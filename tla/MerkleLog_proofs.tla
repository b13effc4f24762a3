--------------------------- MODULE MerkleLog_proofs ---------------------------
(***************************************************************************)
(* The proofs of a transparency log are sound, for logs, indexes, sizes     *)
(* and proofs of every length, however they were put together: the leaf of  *)
(* an accepted proof of inclusion is in the log, and at its index when the  *)
(* size is the log's; and an accepted proof of consistency shows that the   *)
(* older log is a prefix of the newer.  They are complete as well: what the *)
(* log sends, built as RFC 6962 says, is accepted.                          *)
(*                                                                         *)
(* What Merkle defines by recursion is a CHOOSE, so each definition is      *)
(* first shown to have a solution, by descent to the least argument that    *)
(* has none (DescentExists, RootsDef, AscentDef, ChainDef).                 *)
(*                                                                         *)
(* That a leaf is in the log needs no count of hashes (AcceptedIsLeaf):     *)
(* every hash of the ascent, from the root down, is the root over a range   *)
(* of the log, because a pair of hashes is never that of a leaf.            *)
(*                                                                         *)
(* The rest goes level by level: the root over a level of nodes is that     *)
(* over the level of their pairs (RootOfPairs), where a node is at half its *)
(* index.  For inclusion, one step of the ascent is one level or none, if   *)
(* the node is promoted (LevelUp), and the count of hashes says how many    *)
(* levels are left (AscentFinds).  For consistency, the node is the last of *)
(* the older log.  Where it is the last of the newer as well, each hash is  *)
(* a sibling in both (BorderAgrees); below, one on the right is of the      *)
(* newer only (InnerAgrees); and as long as the size of the older log is    *)
(* even, a level changes nothing in how the proof is cut (HalfCut).         *)
(*                                                                         *)
(* Completeness goes up the same levels.  The path to a leaf is that to its *)
(* pair after its sibling, if it has one (PathOfPairs, EndsUp), and each    *)
(* hash of the ascent is a node of its level (AscentReaches).  What is sent *)
(* for an older size is what is sent for half of it while it is even        *)
(* (SubOfPairs), and for an odd one the path to the last leaf of the older  *)
(* log after the leaf itself (SubOfOdd), which takes both chains up to the  *)
(* roots (InnerReaches, BorderReaches).                                     *)
(***************************************************************************)
EXTENDS MerkleLog, SequenceTheorems, WellFoundedInduction, TLAPS

\* The least of several numbers.
LEMMA LeastNumber ==
  ASSUME NEW Numbers, Numbers \subseteq Nat, Numbers # {}
  PROVE  \E n \in Numbers : \A m \in Numbers : n <= m
<1> DEFINE Less == OpToRel(<, Nat)
<1>1. IsWellFoundedOn(Less, Nat)
  BY NatLessThanWellFounded
<1>2. PICK n \in Numbers : \A m \in Numbers : ~ (<<m, n>> \in Less)
  <2> HIDE DEF Less
  <2> QED
    BY <1>1, WFMin
<1>3. \A m \in Numbers : n <= m
  <2> TAKE m \in Numbers
  <2>1. ~ (<<m, n>> \in Less)
    BY <1>2
  <2>2. ~ (m < n)
    BY <2>1 DEF OpToRel
  <2> QED
    BY <2>2
<1> QED
  BY <1>3

-----------------------------------------------------------------------------
(* Functions defined by descent.                                           *)

\* f obeys the definition wherever the rank is at most w.
Obeys(f, w, D, rank, Stop, pred, base, step) ==
  \A r \in D : rank[r] <= w =>
    f[r] = IF r \in Stop THEN base[r] ELSE step[<<r, f[pred[r]]>>]

Descends(D, rank, Stop, pred, base, step, V) ==
  /\ rank \in [D -> Nat] /\ pred \in [D -> D]
  /\ \A r \in D \ Stop : rank[pred[r]] < rank[r]
  /\ base \in [D -> V] /\ step \in [D \X V -> V]

Solves(f, D, Stop, pred, base, step, V) ==
  /\ f \in [D -> V]
  /\ \A r \in D : f[r] = IF r \in Stop THEN base[r] ELSE step[<<r, f[pred[r]]>>]

\* A definition by descent determines a function, if the rank decreases.
LEMMA DescentExists ==
  ASSUME NEW D, NEW rank, NEW Stop, NEW pred, NEW base, NEW step, NEW V,
         Descends(D, rank, Stop, pred, base, step, V)
  PROVE  \E f : Solves(f, D, Stop, pred, base, step, V)
<1> USE DEF Descends
<1> DEFINE Ok(f, w) == Obeys(f, w, D, rank, Stop, pred, base, step)
<1>1. \A w \in Nat : \E f \in [D -> V] : Ok(f, w)
  <2> DEFINE Without == {w \in Nat : ~\E f \in [D -> V] : Ok(f, w)}
  <2>1. SUFFICES ASSUME Without # {}
                 PROVE  FALSE
    BY <2>1
  <2>2. PICK w \in Without : \A v \in Without : w <= v
    <3> HIDE DEF Without
    <3>1. Without \subseteq Nat
      BY DEF Without
    <3> QED
      BY <2>1, <3>1, LeastNumber
  <2>3. PICK g \in [D -> V] : \A r \in D : rank[r] < w =>
               g[r] = IF r \in Stop THEN base[r] ELSE step[<<r, g[pred[r]]>>]
    <3>1. CASE w = 0
      <4>1. \A r \in D : ~(rank[r] < w)
        BY <3>1
      <4> QED
        BY <4>1
    <3>2. CASE w # 0
      <4>1. w - 1 \in Nat /\ w - 1 \notin Without
        <5> HIDE DEF Ok
        <5> QED
          BY <2>2, <3>2
      <4>2. PICK g \in [D -> V] : Ok(g, w - 1)
        BY <4>1
      <4>3. \A r \in D : rank[r] < w => rank[r] <= w - 1
        BY <2>2
      <4> QED
        BY <4>2, <4>3 DEF Obeys
    <3> QED
      BY <3>1, <3>2
  <2> DEFINE f == [r \in D |-> IF r \in Stop THEN base[r] ELSE step[<<r, g[pred[r]]>>]]
  <2>4. f \in [D -> V]
    OBVIOUS
  <2>5. \A r \in D : rank[r] < w => f[r] = g[r]
    BY <2>3
  <2>6. \A r \in D : rank[r] <= w /\ r \notin Stop => f[pred[r]] = g[pred[r]]
    <3> SUFFICES ASSUME NEW r \in D, rank[r] <= w, r \notin Stop
                 PROVE  f[pred[r]] = g[pred[r]]
      OBVIOUS
    <3>1. pred[r] \in D /\ rank[pred[r]] < w
      BY <2>2
    <3> HIDE DEF f
    <3> QED
      BY <2>5, <3>1
  <2>7. Ok(f, w)
    BY <2>6 DEF Obeys
  <2> QED
    BY <2>2, <2>4, <2>7
<1>2. \A w, v \in Nat, f, g \in [D -> V] :
        w <= v /\ Ok(f, w) /\ Ok(g, v) => \A r \in D : rank[r] <= w => f[r] = g[r]
  <2> HIDE DEF Ok, Descends
  <2> SUFFICES ASSUME NEW w \in Nat, NEW v \in Nat, NEW f \in [D -> V], NEW g \in [D -> V],
                      w <= v, Ok(f, w), Ok(g, v)
               PROVE  \A r \in D : rank[r] <= w => f[r] = g[r]
    OBVIOUS
  <2> USE DEF Ok, Descends
  <2> DEFINE Apart == {rank[r] : r \in {x \in D : rank[x] <= w /\ f[x] # g[x]}}
  <2>1. SUFFICES ASSUME Apart # {}
                 PROVE  FALSE
    BY ONLY <2>1
  <2>2. PICK n \in Apart : \A m \in Apart : n <= m
    <3>1. Apart \subseteq Nat
      OBVIOUS
    <3> HIDE DEF Apart
    <3> QED
      BY <2>1, <3>1, LeastNumber
  <2>3. PICK r \in D : rank[r] = n /\ rank[r] <= w /\ f[r] # g[r]
    OBVIOUS
  <2>4. /\ f[r] = IF r \in Stop THEN base[r] ELSE step[<<r, f[pred[r]]>>]
        /\ g[r] = IF r \in Stop THEN base[r] ELSE step[<<r, g[pred[r]]>>]
    BY <2>3 DEF Obeys
  <2>5. r \notin Stop /\ f[pred[r]] # g[pred[r]]
    BY <2>3, <2>4
  <2>6. pred[r] \in D /\ rank[pred[r]] \in Nat /\ rank[pred[r]] < rank[r]
    BY <2>3, <2>5
  <2>7. rank[pred[r]] \in Apart
    BY <2>3, <2>5, <2>6
  <2> HIDE DEF Apart
  <2> QED
    BY <2>2, <2>3, <2>6, <2>7
<1> DEFINE at == [w \in Nat |-> CHOOSE f \in [D -> V] : Ok(f, w)]
           whole == [r \in D |-> at[rank[r]][r]]
<1>3. \A w \in Nat : at[w] \in [D -> V] /\ Ok(at[w], w)
  <2> HIDE DEF Ok
  <2> QED
    BY <1>1
<1> HIDE DEF at
<1>4. whole \in [D -> V]
  BY <1>3
<1>5. ASSUME NEW r \in D
      PROVE  whole[r] = IF r \in Stop THEN base[r] ELSE step[<<r, whole[pred[r]]>>]
  <2> DEFINE f == at[rank[r]]
  <2>1. f \in [D -> V] /\ Ok(f, rank[r]) /\ whole[r] = f[r]
    BY <1>3
  <2>2. f[r] = IF r \in Stop THEN base[r] ELSE step[<<r, f[pred[r]]>>]
    BY <2>1 DEF Obeys
  <2>3. ASSUME r \notin Stop
        PROVE  f[pred[r]] = whole[pred[r]]
    <3> DEFINE q == pred[r]
    <3>1. q \in D /\ rank[q] \in Nat /\ rank[r] \in Nat /\ rank[q] <= rank[r]
      BY <2>3
    <3>2. at[rank[q]] \in [D -> V] /\ Ok(at[rank[q]], rank[q])
      BY <1>3, <3>1
    <3>3. at[rank[q]][q] = f[q]
      <4> DEFINE g == at[rank[q]]
                 n == rank[q]
                 m == rank[r]
      <4>1. g \in [D -> V] /\ Ok(g, n) /\ f \in [D -> V] /\ Ok(f, m)
        BY <2>1, <3>2
      <4>2. n \in Nat /\ m \in Nat /\ n <= m
        BY <3>1
      <4> HIDE DEF f, g, m, n, Ok
      <4>3. \A x \in D : rank[x] <= n => g[x] = f[x]
        BY ONLY <1>2, <4>1, <4>2
      <4>4. rank[q] <= n
        BY <3>1 DEF n
      <4>5. g[q] = f[q]
        BY <3>1, <4>3, <4>4
      <4> QED
        BY <4>5 DEF g
    <3> QED
      BY <3>1, <3>3
  <2> HIDE DEF f, whole
  <2> QED
    BY <2>1, <2>2, <2>3
<1> QED
  BY <1>4, <1>5 DEF Solves

-----------------------------------------------------------------------------
(* The recursive definitions of Merkle.                                    *)

\* Split obeys its definition: halves, rounded up, down to the smallest trees.
LEMMA SplitDef ==
  \A n \in Nat \ {0, 1} : Split[n] = IF n <= 2 THEN 1 ELSE 2 * Split[(n + 1) \div 2]
<1> DEFINE D == Nat \ {0, 1}
           Stop == {n \in D : n <= 2}
           rank == [n \in D |-> n]
           pred == [n \in D |-> IF n <= 2 THEN n ELSE (n + 1) \div 2]
           base == [n \in D |-> 1]
           step == [x \in D \X Nat |-> 2 * x[2]]
<1>1. rank \in [D -> Nat] /\ base \in [D -> Nat] /\ step \in [D \X Nat -> Nat]
  OBVIOUS
<1>2. pred \in [D -> D]
  <2> SUFFICES ASSUME NEW n \in D
               PROVE  (IF n <= 2 THEN n ELSE (n + 1) \div 2) \in D
    OBVIOUS
  <2> QED
    OBVIOUS
<1>3. \A n \in D \ Stop : rank[pred[n]] < rank[n]
  <2> SUFFICES ASSUME NEW n \in D \ Stop
               PROVE  rank[pred[n]] < rank[n]
    OBVIOUS
  <2>1. (n + 1) \div 2 \in D /\ (n + 1) \div 2 < n
    OBVIOUS
  <2> QED
    BY <2>1
<1>4. PICK f : Solves(f, D, Stop, pred, base, step, Nat)
  <2>1. Descends(D, rank, Stop, pred, base, step, Nat)
    <3> HIDE DEF D, Stop, rank, pred, base, step
    <3> QED
      BY <1>1, <1>2, <1>3 DEF Descends
  <2> HIDE DEF D, Stop, rank, pred, base, step
  <2> QED
    BY <2>1, DescentExists
<1>5. \A n \in D : f[n] = IF n <= 2 THEN 1 ELSE 2 * f[(n + 1) \div 2]
  <2> SUFFICES ASSUME NEW n \in D
               PROVE  f[n] = IF n <= 2 THEN 1 ELSE 2 * f[(n + 1) \div 2]
    OBVIOUS
  <2>1. CASE n <= 2
    <3>1. n \in Stop /\ n \in D /\ base[n] = 1
      BY <2>1
    <3>2. f[n] = base[n]
      <4> HIDE DEF D, Stop, base, step, pred
      <4> QED
        BY <1>4, <3>1 DEF Solves
    <3> QED
      BY <2>1, <3>1, <3>2
  <2>2. CASE ~(n <= 2)
    <3> DEFINE m == (n + 1) \div 2
    <3>1. m \in D /\ pred[n] = m /\ f[m] \in Nat
      BY <1>4, <2>2 DEF Solves
    <3>2. n \notin Stop /\ n \in D
      BY <2>2
    <3>3. f[n] = step[<<n, f[m]>>]
      <4> HIDE DEF D, Stop, pred, step, m
      <4> QED
        BY <1>4, <3>1, <3>2 DEF Solves
    <3> QED
      BY <2>2, <3>1, <3>3
  <2> QED
    BY <2>1, <2>2
<1>6. f = [n \in Nat \ {0, 1} |-> IF n <= 2 THEN 1 ELSE 2 * f[(n + 1) \div 2]]
  <2>1. f \in [D -> Nat]
    BY <1>4 DEF Solves
  <2> QED
    BY <1>5, <2>1
<1>7. Split = [n \in Nat \ {0, 1} |-> IF n <= 2 THEN 1 ELSE 2 * Split[(n + 1) \div 2]]
  BY <1>6 DEF Split
<1> QED
  BY <1>7

\* The left subtree has a leaf at least, and so has the right one.
LEMMA SplitIsInside == \A n \in Nat \ {0, 1} : Split[n] \in 1 .. n - 1
<1> DEFINE Without == {n \in Nat \ {0, 1} : Split[n] \notin 1 .. n - 1}
<1>1. SUFFICES ASSUME Without # {}
               PROVE  FALSE
  BY <1>1
<1>2. PICK n \in Without : \A m \in Without : n <= m
  <2>1. Without \subseteq Nat
    OBVIOUS
  <2> HIDE DEF Without
  <2> QED
    BY <1>1, <2>1, LeastNumber
<1>3. n \in Nat \ {0, 1} /\ Split[n] \notin 1 .. n - 1
  OBVIOUS
<1>4. CASE n = 2
  BY <1>3, <1>4, SplitDef
<1>5. CASE n > 2
  <2> DEFINE m == (n + 1) \div 2
  <2>1. m \in Nat \ {0, 1} /\ m < n /\ 2 * m <= n + 1
    BY <1>3, <1>5
  <2>2. Split[n] = 2 * Split[m]
    BY <1>3, <1>5, SplitDef
  <2> HIDE DEF m
  <2>3. Split[m] \in 1 .. m - 1
    BY <1>2, <1>3, <2>1
  <2> QED
    BY <1>3, <2>1, <2>2, <2>3
<1> QED
  BY <1>3, <1>4, <1>5

\* How many siblings a place has; the definition goes from a level to the next.
Halved(r) == <<r[1] \div 2, (r[2] + 1) \div 2>>
Promoted(r) == r[2] % 2 = 1 /\ r[1] = r[2] - 1

\* The count of expected_inclusion_proof_length obeys its definition.
LEMMA SiblingsDef ==
  \A r \in Nat \X Nat :
    Siblings[r] = IF r[2] <= 1 THEN 0
                  ELSE Siblings[Halved(r)] + IF Promoted(r) THEN 0 ELSE 1
<1> DEFINE D == Nat \X Nat
           Stop == {r \in D : r[2] <= 1}
           rank == [r \in D |-> r[2]]
           pred == [r \in D |-> Halved(r)]
           base == [r \in D |-> 0]
           step == [x \in D \X Nat |-> x[2] + IF Promoted(x[1]) THEN 0 ELSE 1]
<1>1. rank \in [D -> Nat] /\ base \in [D -> Nat] /\ step \in [D \X Nat -> Nat]
  OBVIOUS
<1>2. pred \in [D -> D]
  <2> SUFFICES ASSUME NEW r \in D
               PROVE  Halved(r) \in D
    OBVIOUS
  <2>1. r[1] \div 2 \in Nat /\ (r[2] + 1) \div 2 \in Nat
    OBVIOUS
  <2> QED
    BY <2>1 DEF Halved
<1>3. \A r \in D \ Stop : rank[pred[r]] < rank[r]
  <2> SUFFICES ASSUME NEW r \in D \ Stop
               PROVE  rank[pred[r]] < rank[r]
    OBVIOUS
  <2>1. rank[pred[r]] = (r[2] + 1) \div 2 /\ rank[r] = r[2] /\ r[2] \in Nat /\ r[2] > 1
    BY <1>2 DEF Halved
  <2> HIDE DEF rank, pred
  <2> QED
    BY <2>1
<1>4. PICK f : Solves(f, D, Stop, pred, base, step, Nat)
  <2>1. Descends(D, rank, Stop, pred, base, step, Nat)
    <3> HIDE DEF D, Stop, rank, pred, base, step
    <3> QED
      BY <1>1, <1>2, <1>3 DEF Descends
  <2> HIDE DEF D, Stop, rank, pred, base, step
  <2> QED
    BY <2>1, DescentExists
<1> DEFINE Body(g, r) == IF r[2] <= 1 THEN 0
                         ELSE g[Halved(r)] + IF Promoted(r) THEN 0 ELSE 1
<1>5. \A r \in D : f[r] = Body(f, r)
  <2> SUFFICES ASSUME NEW r \in D
               PROVE  f[r] = Body(f, r)
    OBVIOUS
  <2>1. CASE r \in Stop
    <3>1. base[r] = 0
      OBVIOUS
    <3>2. f[r] = base[r]
      <4> HIDE DEF D, Stop, base, step, pred
      <4> QED
        BY <1>4, <2>1 DEF Solves
    <3> QED
      BY <2>1, <3>1, <3>2
  <2>2. CASE r \notin Stop
    <3> DEFINE q == Halved(r)
    <3>1. pred[r] = q /\ q \in D
      BY <1>2
    <3>2. f[q] \in Nat
      BY <1>4, <3>1 DEF Solves
    <3>3. f[r] = step[<<r, f[q]>>]
      <4> HIDE DEF D, Stop, base, step, pred, q
      <4> QED
        BY <1>4, <2>2, <3>1 DEF Solves
    <3>4. step[<<r, f[q]>>] = f[q] + IF Promoted(r) THEN 0 ELSE 1
      <4> HIDE DEF q
      <4> QED
        BY <3>2
    <3> QED
      BY <2>2, <3>3, <3>4
  <2> QED
    BY <2>1, <2>2
<1>6. f \in [D -> Nat]
  BY <1>4 DEF Solves
<1>7. f = [r \in Nat \X Nat |-> Body(f, r)]
  <2> HIDE DEF Body
  <2> QED
    BY <1>5, <1>6
<1>8. Siblings = [r \in Nat \X Nat |-> Body(Siblings, r)]
  BY <1>7 DEF Siblings, Halved, Promoted
<1> QED
  BY <1>8

\* It is a number, whatever the index.
LEMMA SiblingsType == \A r \in Nat \X Nat : Siblings[r] \in Nat
<1> DEFINE Without == {r[2] : r \in {x \in Nat \X Nat : Siblings[x] \notin Nat}}
<1>1. SUFFICES ASSUME Without # {}
               PROVE  FALSE
  BY <1>1
<1>2. PICK n \in Without : \A m \in Without : n <= m
  <2>1. Without \subseteq Nat
    OBVIOUS
  <2> HIDE DEF Without
  <2> QED
    BY <1>1, <2>1, LeastNumber
<1>3. PICK r \in Nat \X Nat : Siblings[r] \notin Nat /\ r[2] = n
  OBVIOUS
<1>4. r[2] > 1 /\ Siblings[Halved(r)] \notin Nat
  BY <1>3, SiblingsDef
<1>5. Halved(r) \in Nat \X Nat /\ Halved(r)[2] < n
  <2>1. (r[2] + 1) \div 2 < n /\ (r[2] + 1) \div 2 \in Nat /\ r[1] \div 2 \in Nat
    BY <1>3, <1>4
  <2> QED
    BY <2>1 DEF Halved
<1>6. Halved(r)[2] \in Without /\ n \in Nat
  BY <1>3, <1>4, <1>5
<1> HIDE DEF Without
<1> QED
  BY <1>2, <1>5, <1>6

\* The root over a range of nodes is made of the roots over its two parts.
RootOver(root, nodes, r) ==
  LET mid == r[1] + Split[r[2] - r[1]]
  IN IF r[2] <= r[1] THEN EmptyRoot
     ELSE IF r[2] = r[1] + 1 THEN nodes[r[2]]
     ELSE HashChildren(root[<<r[1], mid>>], root[<<mid, r[2]>>])

\* Both parts of a range with more than one node are shorter and have nodes.
LEMMA PartsAreShorter ==
  ASSUME NEW number \in Nat, NEW r \in (0 .. number) \X (0 .. number), r[2] > r[1] + 1,
         NEW mid, mid = r[1] + Split[r[2] - r[1]]
  PROVE  /\ <<r[1], mid>> \in (0 .. number) \X (0 .. number)
         /\ <<mid, r[2]>> \in (0 .. number) \X (0 .. number)
         /\ r[1] < mid /\ mid < r[2]
<1> DEFINE n == r[2] - r[1]
<1>1. n \in Nat \ {0, 1} /\ r[1] \in 0 .. number /\ r[2] \in 0 .. number
  OBVIOUS
<1>2. Split[n] \in 1 .. n - 1
  BY <1>1, SplitIsInside
<1>3. mid \in Nat /\ r[1] < mid /\ mid < r[2]
  BY <1>1, <1>2
<1> QED
  BY <1>1, <1>3

\* Roots obeys its definition on every range, by descent on its width.
LEMMA RootsDef ==
  ASSUME NEW nodes, NEW number \in Nat
  PROVE  \A r \in (0 .. number) \X (0 .. number) :
           Roots(nodes, number)[r] = RootOver(Roots(nodes, number), nodes, r)
<1> DEFINE D == (0 .. number) \X (0 .. number)
           Wide(w) == {r \in D : r[2] - r[1] <= w}
           Exists(w) == \E f : f = [r \in Wide(w) |-> RootOver(f, nodes, r)]
<1>1. \A w \in Nat : Exists(w)
  <2> DEFINE Without == {w \in Nat : ~Exists(w)}
  <2>1. SUFFICES ASSUME Without # {}
                 PROVE  FALSE
    BY <2>1
  <2>2. PICK w \in Without : \A v \in Without : w <= v
    <3>1. Without \subseteq Nat
      OBVIOUS
    <3> HIDE DEF Without
    <3> QED
      BY <2>1, <3>1, LeastNumber
  <2>3. w \in Nat /\ ~Exists(w)
    OBVIOUS
  <2>4. \E g : \A r \in D : r[2] - r[1] < w => g[r] = RootOver(g, nodes, r)
    <3>1. CASE w = 0
      <4> DEFINE g == [r \in D |-> EmptyRoot]
      <4>1. \A r \in D : r[2] - r[1] < 0 => r[2] <= r[1]
        OBVIOUS
      <4>2. \A r \in D : r[2] - r[1] < w => g[r] = RootOver(g, nodes, r)
        BY <3>1, <4>1 DEF RootOver
      <4> HIDE DEF g
      <4> QED
        BY <4>2
    <3>2. CASE w # 0
      <4>1. w - 1 \in Nat /\ w - 1 \notin Without
        <5> HIDE DEF Exists, Without
        <5> QED
          BY <2>2, <2>3, <3>2
      <4>2. Exists(w - 1)
        BY <4>1
      <4>3. PICK g : g = [r \in Wide(w - 1) |-> RootOver(g, nodes, r)]
        BY <4>2
      <4>4. \A r \in D : r[2] - r[1] < w => r \in Wide(w - 1)
        BY <2>3
      <4>5. \A r \in Wide(w - 1) : g[r] = RootOver(g, nodes, r)
        <5> HIDE DEF Wide
        <5> QED
          BY <4>3
      <4> HIDE DEF Wide
      <4> QED
        BY <4>4, <4>5
    <3> QED
      BY <3>1, <3>2
  <2>5. PICK g : \A r \in D : r[2] - r[1] < w => g[r] = RootOver(g, nodes, r)
    BY <2>4
  <2> DEFINE f == [r \in Wide(w) |-> RootOver(g, nodes, r)]
  <2>6. ASSUME NEW r \in Wide(w)
        PROVE  RootOver(f, nodes, r) = RootOver(g, nodes, r)
    <3> DEFINE mid == r[1] + Split[r[2] - r[1]]
    <3>1. CASE r[2] > r[1] + 1
      <4>1. /\ <<r[1], mid>> \in D /\ <<mid, r[2]>> \in D
            /\ r[1] < mid /\ mid < r[2]
        BY <3>1, PartsAreShorter
      <4>2. /\ mid - r[1] < w /\ r[2] - mid < w
        BY <2>3, <4>1
      <4> DEFINE left == <<r[1], mid>>
                 right == <<mid, r[2]>>
      <4>3. /\ left \in Wide(w) /\ g[left] = RootOver(g, nodes, left)
            /\ right \in Wide(w) /\ g[right] = RootOver(g, nodes, right)
        BY <2>3, <2>5, <4>1, <4>2
      <4>4. f[left] = g[left] /\ f[right] = g[right]
        <5> HIDE DEF left, right, Wide
        <5> QED
          BY <4>3
      <4> HIDE DEF f
      <4> QED
        BY <3>1, <4>4 DEF RootOver
    <3>2. CASE ~(r[2] > r[1] + 1)
      <4>1. r[2] <= r[1] \/ r[2] = r[1] + 1
        BY <3>2
      <4> HIDE DEF f
      <4> QED
        BY <4>1 DEF RootOver
    <3> QED
      BY <3>1, <3>2
  <2>7. f = [r \in Wide(w) |-> RootOver(f, nodes, r)]
    <3>1. \A r \in Wide(w) : RootOver(f, nodes, r) = RootOver(g, nodes, r)
      BY <2>6
    <3> HIDE DEF Wide
    <3> QED
      BY <3>1
  <2> HIDE DEF f
  <2> QED
    BY <2>3, <2>7
<1>2. PICK f : f = [r \in D |-> RootOver(f, nodes, r)]
  <2>1. Wide(number) = D
    OBVIOUS
  <2> QED
    BY ONLY <1>1, <2>1
<1>3. Roots(nodes, number) = [r \in D |-> RootOver(Roots(nodes, number), nodes, r)]
  BY <1>2 DEF Roots, RootOver
<1> QED
  BY <1>3

\* The ascent takes one step for every hash of the proof.
LEMMA AscentDef ==
  ASSUME NEW leafHash, NEW index, NEW size, NEW proof, Len(proof) \in Nat
  PROVE  /\ Ascent(leafHash, index, size, proof)[0]
              = [hash |-> leafHash, index |-> index, last |-> size - 1]
         /\ \A c \in 1 .. Len(proof) :
              Ascent(leafHash, index, size, proof)[c]
                = Climb(Ascent(leafHash, index, size, proof)[c - 1], proof[c])
<1> DEFINE start == [hash |-> leafHash, index |-> index, last |-> size - 1]
           Then(f, c) == IF c = 0 THEN start ELSE Climb(f[c - 1], proof[c])
           Exists(n) == \E f : f = [c \in 0 .. n |-> Then(f, c)]
           at == Ascent(leafHash, index, size, proof)
<1>1. \A n \in Nat : Exists(n)
  <2> DEFINE Without == {n \in Nat : ~Exists(n)}
  <2>1. SUFFICES ASSUME Without # {}
                 PROVE  FALSE
    BY <2>1
  <2>2. PICK n \in Without : \A m \in Without : n <= m
    <3>1. Without \subseteq Nat
      OBVIOUS
    <3> HIDE DEF Without
    <3> QED
      BY <2>1, <3>1, LeastNumber
  <2>3. n \in Nat /\ ~Exists(n)
    OBVIOUS
  <2>4. \E g : \A c \in 0 .. n - 1 : g[c] = Then(g, c)
    <3>1. CASE n = 0
      BY <3>1
    <3>2. CASE n # 0
      <4>1. n - 1 \in Nat /\ n - 1 \notin Without
        <5> HIDE DEF Exists, Without
        <5> QED
          BY <2>2, <2>3, <3>2
      <4>2. PICK g : g = [c \in 0 .. n - 1 |-> Then(g, c)]
        BY <4>1
      <4>3. \A c \in 0 .. n - 1 : g[c] = Then(g, c)
        <5> HIDE DEF Then
        <5> QED
          BY <4>2
      <4> HIDE DEF Then
      <4> QED
        BY <4>3
    <3> QED
      BY <3>1, <3>2
  <2>5. PICK g : \A c \in 0 .. n - 1 : g[c] = Then(g, c)
    BY <2>4
  <2> DEFINE f == [c \in 0 .. n |-> Then(g, c)]
  <2>6. ASSUME NEW c \in 0 .. n
        PROVE  Then(f, c) = Then(g, c)
    <3>1. CASE c = 0
      BY <3>1
    <3>2. CASE c # 0
      <4>1. c - 1 \in 0 .. n - 1
        BY <2>3, <3>2
      <4>2. c - 1 \in 0 .. n /\ g[c - 1] = Then(g, c - 1)
        BY <2>5, <4>1
      <4>3. f[c - 1] = g[c - 1]
        <5> HIDE DEF Then
        <5> QED
          BY <4>2
      <4> HIDE DEF f
      <4> QED
        BY <3>2, <4>3
    <3> QED
      BY <3>1, <3>2
  <2>7. f = [c \in 0 .. n |-> Then(f, c)]
    <3>1. \A c \in 0 .. n : Then(f, c) = Then(g, c)
      BY <2>6
    <3> HIDE DEF Then
    <3> QED
      BY <3>1
  <2> HIDE DEF f
  <2> QED
    BY <2>3, <2>7
<1>2. PICK f : f = [c \in 0 .. Len(proof) |-> Then(f, c)]
  BY <1>1
<1>3. at = [c \in 0 .. Len(proof) |-> Then(at, c)]
  BY <1>2 DEF Ascent
<1> HIDE DEF at
<1>4. \A c \in 0 .. Len(proof) : at[c] = Then(at, c)
  <2> HIDE DEF Then
  <2> QED
    BY <1>3
<1>5. at[0] = start
  BY <1>4
<1>6. \A c \in 1 .. Len(proof) : at[c] = Climb(at[c - 1], proof[c])
  BY <1>4
<1> QED
  BY <1>5, <1>6 DEF at

-----------------------------------------------------------------------------
(* Inclusion.                                                              *)

\* What is accepted for the root of a log is one of its leaves, whatever index,
\* size and proof come with it: every hash on the way is the root over a range
\* of the log, from the last one down to that of the leaf, for a pair of hashes
\* is never the hash of a leaf.
LEMMA AcceptedIsLeaf ==
  ASSUME NEW leaves, Len(leaves) \in Nat, DOMAIN leaves = 1 .. Len(leaves),
         NEW leaf, NEW index, NEW size, NEW proof, Len(proof) \in Nat,
         RootFromInclusion(HashLeaf(leaf), index, size, proof) = MTH(leaves)
  PROVE  \E i \in DOMAIN leaves : leaves[i] = leaf
<1> DEFINE n == Len(leaves)
           last == Len(proof)
           D == (0 .. n) \X (0 .. n)
           root == Roots(Leaves(leaves), n)
           at == Ascent(HashLeaf(leaf), index, size, proof)
           InTree(c) == \E r \in D : r[1] < r[2] /\ at[c].hash = root[r]
           Steps == {c \in 0 .. last : InTree(c)}
<1>1. /\ at[0].hash = <<leaf>>
      /\ \A c \in 1 .. last : \/ at[c].hash = <<at[c - 1].hash, proof[c]>>
                              \/ at[c].hash = <<proof[c], at[c - 1].hash>>
  <2>1. /\ at[0] = [hash |-> HashLeaf(leaf), index |-> index, last |-> size - 1]
        /\ \A c \in 1 .. last : at[c] = Climb(at[c - 1], proof[c])
    <3> DEFINE hash == HashLeaf(leaf)
    <3> HIDE DEF hash
    <3>1. /\ Ascent(hash, index, size, proof)[0]
                = [hash |-> hash, index |-> index, last |-> size - 1]
          /\ \A c \in 1 .. Len(proof) :
                Ascent(hash, index, size, proof)[c]
                  = Climb(Ascent(hash, index, size, proof)[c - 1], proof[c])
      BY AscentDef
    <3> QED
      BY <3>1 DEF hash
  <2> HIDE DEF at
  <2>2. at[0].hash = <<leaf>>
    BY <2>1 DEF HashLeaf
  <2>3. ASSUME NEW c \in 1 .. last
        PROVE  \/ at[c].hash = <<at[c - 1].hash, proof[c]>>
               \/ at[c].hash = <<proof[c], at[c - 1].hash>>
    <3> DEFINE b == at[c - 1]
               sibling == proof[c]
    <3>1. at[c] = Climb(b, sibling)
      BY <2>1
    <3> HIDE DEF b, sibling
    <3>2. CASE OnTheRight(b)
      <4>1. at[c].hash = HashChildren(sibling, b.hash)
        BY <3>1, <3>2 DEF Climb
      <4> QED
        BY <4>1 DEF HashChildren, b, sibling
    <3>3. CASE ~OnTheRight(b)
      <4>1. at[c].hash = HashChildren(b.hash, sibling)
        BY <3>1, <3>3 DEF Climb
      <4> QED
        BY <4>1 DEF HashChildren, b, sibling
    <3> QED
      BY <3>2, <3>3
  <2> QED
    BY <2>2, <2>3
<1>2. \A r \in D : root[r] = RootOver(root, Leaves(leaves), r)
  BY RootsDef
<1>3. at[last].hash = root[<<0, n>>]
  BY DEF RootFromInclusion, MTH, Subtree, Subtrees
<1>4. \A i \in 1 .. n : Leaves(leaves)[i] = <<leaves[i]>>
  BY DEF Leaves, HashLeaf
<1> HIDE DEF root, at
<1>5. n > 0
  <2>1. SUFFICES ASSUME n = 0
                 PROVE  FALSE
    BY <2>1
  <2>2. root[<<0, n>>] = <<>>
    <3> DEFINE r == <<0, n>>
    <3>1. r \in D /\ r[2] <= r[1]
      BY <2>1
    <3> HIDE DEF r
    <3>2. root[r] = <<>>
      BY <1>2, <3>1 DEF RootOver, EmptyRoot
    <3> QED
      BY <3>2 DEF r
  <2>3. at[last].hash # <<>>
    <3>1. CASE last = 0
      BY <1>1, <3>1
    <3>2. CASE last # 0
      <4>1. last \in 1 .. last
        BY <3>2
      <4>2. \/ at[last].hash = <<at[last - 1].hash, proof[last]>>
            \/ at[last].hash = <<proof[last], at[last - 1].hash>>
        BY <1>1, <4>1
      <4>3. \A x, y : <<x, y>> # <<>>
        OBVIOUS
      <4> QED
        BY <4>2, <4>3
    <3> QED
      BY <3>1, <3>2
  <2> QED
    BY <1>3, <2>2, <2>3
<1>6. last \in Steps
  <2>1. <<0, n>> \in D
    OBVIOUS
  <2> QED
    BY <1>3, <1>5, <2>1
<1>7. PICK c \in Steps : \A b \in Steps : c <= b
  <2>1. Steps \subseteq Nat
    OBVIOUS
  <2> HIDE DEF Steps
  <2> QED
    BY <1>6, <2>1, LeastNumber
<1>8. c \in 0 .. last /\ InTree(c)
  OBVIOUS
<1>9. PICK r \in D : r[1] < r[2] /\ at[c].hash = root[r]
  BY <1>8
<1>10. r[1] \in 0 .. n /\ r[2] \in 1 .. n
  BY <1>9
<1>11. CASE r[2] = r[1] + 1
  <2>1. at[c].hash = <<leaves[r[2]]>>
    <3>1. root[r] = RootOver(root, Leaves(leaves), r)
      BY <1>2, <1>9
    <3>2. ~(r[2] <= r[1])
      BY <1>9, <1>10
    <3>3. root[r] = Leaves(leaves)[r[2]]
      BY <1>11, <3>1, <3>2 DEF RootOver
    <3> QED
      BY <1>4, <1>9, <1>10, <3>3
  <2>2. c = 0
    <3>1. SUFFICES ASSUME c \in 1 .. last
                   PROVE  FALSE
      BY <1>8, <3>1
    <3> QED
      BY ONLY <1>1, <2>1, <3>1
  <2>3. <<leaves[r[2]]>> = <<leaf>>
    BY <1>1, <2>1, <2>2
  <2>4. leaves[r[2]] = leaf
    BY <2>3
  <2> QED
    BY <1>10, <2>4
<1>12. CASE r[2] > r[1] + 1
  <2> DEFINE mid == r[1] + Split[r[2] - r[1]]
             left == <<r[1], mid>>
             right == <<mid, r[2]>>
  <2>1. left \in D /\ right \in D /\ r[1] < mid /\ mid < r[2]
    BY <1>12, PartsAreShorter
  <2>2. at[c].hash = <<root[left], root[right]>>
    <3>1. root[r] = RootOver(root, Leaves(leaves), r)
      BY <1>2, <1>9
    <3>2. ~(r[2] <= r[1]) /\ r[2] # r[1] + 1
      BY <1>10, <1>12
    <3>3. root[r] = HashChildren(root[left], root[right])
      BY <3>1, <3>2 DEF RootOver
    <3> QED
      BY <1>9, <3>3 DEF HashChildren
  <2>3. left[1] < left[2] /\ right[1] < right[2]
    BY <2>1
  <2> HIDE DEF left, right
  <2>4. c \in 1 .. last
    <3>1. SUFFICES ASSUME c = 0
                   PROVE  FALSE
      BY <1>8, <3>1
    <3>2. <<leaf>> = <<root[left], root[right]>>
      BY <1>1, <2>2, <3>1
    <3> QED
      BY ONLY <3>2
  <2>5. at[c - 1].hash = root[left] \/ at[c - 1].hash = root[right]
    BY <1>1, <2>2, <2>4
  <2>6. InTree(c - 1)
    BY <2>1, <2>3, <2>5
  <2>7. c - 1 \in Steps
    BY <2>4, <2>6
  <2> HIDE DEF Steps
  <2> QED
    BY <1>7, <1>8, <2>7
<1> QED
  BY <1>9, <1>10, <1>11, <1>12

\* The nodes one level up: a node without a right neighbour is promoted.
Pairs(nodes, n) ==
  [j \in 1 .. (n + 1) \div 2 |->
     IF 2 * j <= n THEN HashChildren(nodes[2 * j - 1], nodes[2 * j]) ELSE nodes[2 * j - 1]]

Upto(i, n) == IF i <= n THEN i ELSE n

\* The root over a level is the root over the level above it, for the split of a
\* range of pairs is twice that of the range of places one level up.
LEMMA RootOfPairs ==
  ASSUME NEW nodes, NEW n \in Nat,
         NEW a \in 0 .. (n + 1) \div 2, NEW b \in 0 .. (n + 1) \div 2, a < b
  PROVE  Roots(nodes, n)[<<2 * a, Upto(2 * b, n)>>]
           = Roots(Pairs(nodes, n), (n + 1) \div 2)[<<a, b>>]
<1> DEFINE m == (n + 1) \div 2
           lower == Roots(nodes, n)
           pairs == Pairs(nodes, n)
           upper == Roots(pairs, m)
           Low(x, y) == <<2 * x, Upto(2 * y, n)>>
           Agree(x, y) == lower[Low(x, y)] = upper[<<x, y>>]
           Places == 0 .. m
           Without == {w \in Nat : \E x, y \in Places : x < y /\ y - x = w /\ ~Agree(x, y)}
<1>1. m \in Nat /\ n <= 2 * m /\ 2 * m <= n + 1
  OBVIOUS
<1>2. \A r \in (0 .. n) \X (0 .. n) : lower[r] = RootOver(lower, nodes, r)
  BY RootsDef
<1>3. \A r \in (0 .. m) \X (0 .. m) : upper[r] = RootOver(upper, pairs, r)
  <2> HIDE DEF pairs, m
  <2> QED
    BY <1>1, RootsDef
<1>4. \A j \in 1 .. m : pairs[j] = IF 2 * j <= n
                                   THEN HashChildren(nodes[2 * j - 1], nodes[2 * j])
                                   ELSE nodes[2 * j - 1]
  BY DEF Pairs
<1> HIDE DEF lower, upper, pairs, m
<1>5. SUFFICES ASSUME Without # {}
               PROVE  FALSE
  <2>1. ASSUME ~Agree(a, b)
        PROVE  Without # {}
    <3>1. a \in Places /\ b \in Places /\ b - a \in Nat
      BY DEF m
    <3>2. b - a \in Without
      BY <2>1, <3>1
    <3> QED
      BY <3>2
  <2>2. Agree(a, b)
    <3> HIDE DEF Agree, Without
    <3> QED
      BY <1>5, <2>1
  <2> QED
    BY <2>2 DEF lower, upper, pairs, m
<1>6. PICK w \in Without : \A v \in Without : w <= v
  <2>1. Without \subseteq Nat
    OBVIOUS
  <2> HIDE DEF Without
  <2> QED
    BY <1>5, <2>1, LeastNumber
<1>7. PICK x \in Places, y \in Places : x < y /\ y - x = w /\ ~Agree(x, y)
  OBVIOUS
<1>8. x \in Nat /\ y \in Nat /\ x < y /\ y <= m /\ 2 * x + 1 <= n /\ 2 * y <= n + 1
  BY <1>1, <1>7
<1> DEFINE low == Low(x, y)
           up == <<x, y>>
<1>9. /\ low \in (0 .. n) \X (0 .. n) /\ low[1] = 2 * x /\ low[2] = Upto(2 * y, n)
      /\ up \in (0 .. m) \X (0 .. m) /\ up[1] = x /\ up[2] = y
  BY <1>8 DEF Upto
<1>10. lower[low] = RootOver(lower, nodes, low) /\ upper[up] = RootOver(upper, pairs, up)
  <2> HIDE DEF low, up
  <2> QED
    BY <1>2, <1>3, <1>9
<1>11. CASE y = x + 1
  <2>1. upper[up] = pairs[y]
    <3> HIDE DEF up
    <3> QED
      BY <1>8, <1>9, <1>10, <1>11 DEF RootOver
  <2>2. CASE 2 * y <= n
    <3> DEFINE left == <<2 * x, 2 * x + 1>>
               right == <<2 * x + 1, 2 * y>>
    <3>1. left \in (0 .. n) \X (0 .. n) /\ left[1] = 2 * x /\ left[2] = 2 * x + 1
      BY <1>8
    <3>2. right \in (0 .. n) \X (0 .. n) /\ right[1] = 2 * x + 1 /\ right[2] = 2 * x + 2
      BY <1>8, <1>11, <2>2
    <3>3. lower[left] = nodes[2 * x + 1]
      <4> HIDE DEF left
      <4>1. lower[left] = RootOver(lower, nodes, left)
        BY <1>2, <3>1
      <4>2. ~(left[2] <= left[1]) /\ left[2] = left[1] + 1
        BY <1>8, <3>1
      <4>3. lower[left] = nodes[left[2]]
        BY <4>1, <4>2 DEF RootOver
      <4> QED
        BY <3>1, <4>3
    <3>4. lower[right] = nodes[2 * x + 2]
      <4> HIDE DEF right
      <4>1. lower[right] = RootOver(lower, nodes, right)
        BY <1>2, <3>2
      <4>2. ~(right[2] <= right[1]) /\ right[2] = right[1] + 1
        BY <1>8, <3>2
      <4>3. lower[right] = nodes[right[2]]
        BY <4>1, <4>2 DEF RootOver
      <4> QED
        BY <3>2, <4>3
    <3>5. low[1] = 2 * x /\ low[2] = 2 * x + 2 /\ 2 * y = 2 * x + 2
      BY <1>8, <1>9, <1>11, <2>2 DEF Upto
    <3>6. Split[low[2] - low[1]] = 1
      <4> DEFINE l == low[1]
                 h == low[2]
      <4>1. h - l = 2
        <5>1. l = 2 * x /\ h = 2 * x + 2
          BY <3>5
        <5> HIDE DEF l, h
        <5> QED
          BY <1>8, <5>1
      <4>2. \A i : i = 2 => Split[i] = 1
        BY SplitDef
      <4> QED
        BY <4>1, <4>2
    <3>7. <<low[1], low[1] + Split[low[2] - low[1]]>> = left
          /\ <<low[1] + Split[low[2] - low[1]], low[2]>> = right
      BY <3>5, <3>6
    <3>8. ~(low[2] <= low[1]) /\ low[2] # low[1] + 1
      BY <1>8, <3>5
    <3>9. lower[low] = HashChildren(lower[left], lower[right])
      <4> HIDE DEF low, left, right
      <4> QED
        BY <1>10, <3>7, <3>8 DEF RootOver
    <3>10. pairs[y] = HashChildren(nodes[2 * x + 1], nodes[2 * x + 2])
      <4>1. y \in 1 .. m /\ 2 * y - 1 = 2 * x + 1
        BY <1>8, <1>11
      <4> QED
        BY <1>4, <2>2, <3>5, <4>1
    <3> HIDE DEF low, left, right
    <3>11. lower[low] = upper[up]
      BY <2>1, <3>3, <3>4, <3>9, <3>10
    <3> QED
      BY <1>7, <3>11 DEF low
  <2>3. CASE ~(2 * y <= n)
    <3>1. n = 2 * x + 1 /\ low[1] = 2 * x /\ low[2] = n /\ y \in 1 .. m /\ 2 * y - 1 = n
      BY <1>8, <1>9, <1>11, <2>3 DEF Upto
    <3>2. lower[low] = nodes[n]
      <4> HIDE DEF low
      <4> QED
        BY <1>8, <1>10, <3>1 DEF RootOver
    <3>3. pairs[y] = nodes[n]
      BY <1>4, <2>3, <3>1
    <3> QED
      BY <1>7, <2>1, <3>2, <3>3
  <2> QED
    BY <2>2, <2>3
<1>12. CASE y > x + 1
  <2> DEFINE k == Split[y - x]
             s == low[2] - low[1]
             z == x + k
  <2>1. k \in 1 .. y - x - 1
    <3>1. y - x \in Nat \ {0, 1}
      BY <1>8, <1>12
    <3> QED
      BY <3>1, SplitIsInside
  <2>2. s \in Nat /\ s > 2 /\ (s + 1) \div 2 = y - x
    <3>1. s = 2 * (y - x) \/ s = 2 * (y - x) - 1
      <4> HIDE DEF low
      <4> QED
        BY <1>8, <1>9 DEF Upto
    <3>2. y - x \in Nat /\ y - x >= 2
      BY <1>8, <1>12
    <3> HIDE DEF s
    <3> QED
      BY <3>1, <3>2
  <2>3. Split[s] = 2 * k
    <3> HIDE DEF s
    <3>1. s \in Nat \ {0, 1} /\ ~(s <= 2)
      BY <2>2
    <3>2. Split[s] = 2 * Split[(s + 1) \div 2]
      BY <3>1, SplitDef
    <3> QED
      BY <2>2, <3>2
  <2> HIDE DEF k
  <2>4. z \in Nat /\ x < z /\ z < y /\ z \in Places /\ 2 * z <= n
    BY <1>1, <1>8, <2>1
  <2>5. z - x \in Nat /\ z - x < w /\ y - z \in Nat /\ y - z < w
    BY <1>7, <1>8, <2>4
  <2>6. Agree(x, z) /\ Agree(z, y)
    <3>1. z - x \notin Without /\ y - z \notin Without
      <4> HIDE DEF Without, z
      <4>1. w \in Nat
        BY <1>7, <1>8
      <4> QED
        BY <1>6, <2>5, <4>1
    <3> HIDE DEF Agree, z
    <3> QED
      BY <1>7, <2>4, <2>5, <3>1
  <2>7. Upto(2 * z, n) = 2 * z
    BY <2>4 DEF Upto
  <2>8. /\ <<low[1], low[1] + Split[s]>> = Low(x, z)
        /\ <<low[1] + Split[s], low[2]>> = Low(z, y)
    <3>1. low[1] + Split[s] = 2 * z
      BY <1>8, <1>9, <2>1, <2>3
    <3> HIDE DEF s, z
    <3> QED
      BY <1>9, <2>7, <3>1
  <2>9. ~(low[2] <= low[1]) /\ low[2] # low[1] + 1
    BY <1>8, <1>9, <2>2
  <2>10. lower[low] = HashChildren(lower[Low(x, z)], lower[Low(z, y)])
    <3> DEFINE left == Low(x, z)
               right == Low(z, y)
    <3>1. /\ <<low[1], low[1] + Split[low[2] - low[1]]>> = left
          /\ <<low[1] + Split[low[2] - low[1]], low[2]>> = right
      BY <2>8
    <3> HIDE DEF low, left, right
    <3>2. lower[low] = HashChildren(lower[left], lower[right])
      BY <1>10, <2>9, <3>1 DEF RootOver
    <3> QED
      BY <3>2 DEF left, right
  <2>11. upper[up] = HashChildren(upper[<<x, z>>], upper[<<z, y>>])
    <3> DEFINE left == <<x, z>>
               right == <<z, y>>
    <3>1. /\ <<up[1], up[1] + Split[up[2] - up[1]]>> = left
          /\ <<up[1] + Split[up[2] - up[1]], up[2]>> = right
      BY <1>9 DEF k
    <3>2. ~(up[2] <= up[1]) /\ up[2] # up[1] + 1
      BY <1>8, <1>9, <1>12
    <3> HIDE DEF up, left, right
    <3>3. upper[up] = HashChildren(upper[left], upper[right])
      BY <1>10, <3>1, <3>2 DEF RootOver
    <3> QED
      BY <3>3 DEF left, right
  <2>12. lower[low] = upper[up]
    <3>1. lower[Low(x, z)] = upper[<<x, z>>] /\ lower[Low(z, y)] = upper[<<z, y>>]
      BY <2>6
    <3> HIDE DEF low, up, Low
    <3> QED
      BY <2>10, <2>11, <3>1
  <2> QED
    BY <1>7, <2>12
<1> QED
  BY <1>8, <1>11, <1>12

\* Where the ascent stands is place index of a level of so many nodes, or the
\* right edge of it, with a common shift of the two numbers.
At(place, index, n) ==
  \/ place.index = index /\ place.last = n - 1
  \/ index = n - 1 /\ place.index \in Nat /\ place.index = place.last

\* Children are hashed to one hash only if they are the same.
LEMMA ChildrenDiffer ==
  \A a, b, c, d : HashChildren(a, b) = HashChildren(c, d) => a = c /\ b = d
<1> SUFFICES ASSUME NEW a, NEW b, NEW c, NEW d, <<a, b>> = <<c, d>>
             PROVE  a = c /\ b = d
  BY DEF HashChildren
<1>1. <<a, b>>[1] = <<c, d>>[1] /\ <<a, b>>[2] = <<c, d>>[2]
  OBVIOUS
<1> QED
  BY <1>1

\* One level: either the node is promoted, and the ascent stands where it stood,
\* or a sibling is used and the hashes of the pair above determine the node.
LEMMA LevelUp ==
  ASSUME NEW n \in Nat \ {0, 1}, NEW index \in 0 .. n - 1, NEW place, At(place, index, n),
         NEW nodes, NEW sibling
  PROVE  /\ index \div 2 \in 0 .. (n + 1) \div 2 - 1
         /\ Promoted(<<index, n>>) =>
              /\ At(place, index \div 2, (n + 1) \div 2)
              /\ Pairs(nodes, n)[index \div 2 + 1] = nodes[index + 1]
         /\ ~Promoted(<<index, n>>) =>
              /\ At(Climb(place, sibling), index \div 2, (n + 1) \div 2)
              /\ Climb(place, sibling).hash = Pairs(nodes, n)[index \div 2 + 1]
                   => place.hash = nodes[index + 1]
<1> DEFINE m == (n + 1) \div 2
           j == index \div 2
           up == Climb(place, sibling)
<1>1. m \in Nat /\ j \in 0 .. m - 1 /\ j \in Nat /\ j + 1 \in 1 .. m
  OBVIOUS
<1>2. Promoted(<<index, n>>) <=> n % 2 = 1 /\ index = n - 1
  BY DEF Promoted
<1>3. Pairs(nodes, n)[j + 1] = IF 2 * (j + 1) <= n
                               THEN HashChildren(nodes[2 * (j + 1) - 1], nodes[2 * (j + 1)])
                               ELSE nodes[2 * (j + 1) - 1]
  <2> DEFINE i == j + 1
  <2>1. i \in 1 .. m
    BY <1>1
  <2> HIDE DEF i
  <2>2. Pairs(nodes, n)[i] = IF 2 * i <= n THEN HashChildren(nodes[2 * i - 1], nodes[2 * i])
                                           ELSE nodes[2 * i - 1]
    BY <2>1 DEF Pairs
  <2> QED
    BY <2>2 DEF i
<1>4. ASSUME Promoted(<<index, n>>)
      PROVE  /\ At(place, j, m)
             /\ Pairs(nodes, n)[j + 1] = nodes[index + 1]
  <2>1. j = m - 1 /\ 2 * (j + 1) - 1 = index + 1 /\ ~(2 * (j + 1) <= n)
    BY <1>2, <1>4
  <2>2. place.index \in Nat /\ place.index = place.last
    BY <1>2, <1>4 DEF At
  <2>3. At(place, j, m)
    <3> HIDE DEF j, m
    <3> QED
      BY <2>1, <2>2 DEF At
  <2>4. Pairs(nodes, n)[j + 1] = nodes[index + 1]
    <3> HIDE DEF j
    <3> QED
      BY <1>3, <2>1
  <2> QED
    BY <2>3, <2>4
<1>5. ASSUME ~Promoted(<<index, n>>)
      PROVE  At(up, j, m)
  <2>1. up.index = place.index \div 2 /\ up.last = place.last \div 2
    BY DEF Climb
  <2> HIDE DEF up
  <2>2. CASE place.index = index /\ place.last = n - 1
    <3>1. up.index = j /\ up.last = m - 1
      BY <2>1, <2>2
    <3> QED
      BY <3>1 DEF At
  <2>3. CASE index = n - 1 /\ place.index \in Nat /\ place.index = place.last
    <3>1. j = m - 1
      BY <2>3
    <3>2. up.index \in Nat /\ up.index = up.last
      BY <2>1, <2>3
    <3> HIDE DEF j, m
    <3> QED
      BY <3>1, <3>2 DEF At
  <2> QED
    BY <2>2, <2>3 DEF At
<1>6. ASSUME ~Promoted(<<index, n>>), up.hash = Pairs(nodes, n)[j + 1]
      PROVE  place.hash = nodes[index + 1]
  <2>1. CASE index % 2 = 1
    <3>1. 2 * (j + 1) = index + 1 /\ 2 * (j + 1) <= n
      BY <2>1
    <3>2. OnTheRight(place)
      <4>1. CASE place.index = index
        BY <2>1, <4>1 DEF OnTheRight
      <4>2. CASE place.index = place.last
        BY <4>2 DEF OnTheRight
      <4> QED
        BY <4>1, <4>2 DEF At
    <3>3. up.hash = HashChildren(sibling, place.hash)
      BY <3>2 DEF Climb
    <3>4. Pairs(nodes, n)[j + 1] = HashChildren(nodes[2 * (j + 1) - 1], nodes[index + 1])
      <4> HIDE DEF j
      <4> QED
        BY <1>3, <3>1
    <3> HIDE DEF up, j
    <3>5. HashChildren(sibling, place.hash)
            = HashChildren(nodes[2 * (j + 1) - 1], nodes[index + 1])
      BY <1>6, <3>3, <3>4
    <3> QED
      BY <3>5, ChildrenDiffer
  <2>2. CASE index % 2 # 1
    <3>1. index # n - 1 /\ 2 * (j + 1) - 1 = index + 1 /\ 2 * (j + 1) <= n
      BY <1>2, <1>6, <2>2
    <3>2. ~OnTheRight(place)
      BY <2>2, <3>1 DEF OnTheRight, At
    <3>3. up.hash = HashChildren(place.hash, sibling)
      BY <3>2 DEF Climb
    <3>4. Pairs(nodes, n)[j + 1] = HashChildren(nodes[index + 1], nodes[2 * (j + 1)])
      <4> HIDE DEF j
      <4> QED
        BY <1>3, <3>1
    <3> HIDE DEF up, j
    <3>5. HashChildren(place.hash, sibling)
            = HashChildren(nodes[index + 1], nodes[2 * (j + 1)])
      BY <1>6, <3>3, <3>4
    <3> QED
      BY <3>5, ChildrenDiffer
  <2> QED
    BY <2>1, <2>2
<1> QED
  BY <1>1, <1>4, <1>5, <1>6

\* An ascent that ends at the root over a level, with as many siblings left as a
\* place of the level has, stands at the node of that place.
Finds(at, last, n) ==
  \A nodes : \A index \in 0 .. n - 1, c \in 0 .. last :
    /\ At(at[c], index, n)
    /\ last - c = Siblings[<<index, n>>]
    /\ at[last].hash = Roots(nodes, n)[<<0, n>>]
    => at[c].hash = nodes[index + 1]

\* By descent to the smallest level for which it fails.
LEMMA AscentFinds ==
  ASSUME NEW at, NEW last \in Nat, NEW proof,
         \A c \in 1 .. last : at[c] = Climb(at[c - 1], proof[c])
  PROVE  \A n \in Nat \ {0} : Finds(at, last, n)
<1> DEFINE Without == {n \in Nat \ {0} : ~Finds(at, last, n)}
<1>1. SUFFICES ASSUME Without # {}
               PROVE  FALSE
  BY <1>1
<1>2. PICK n \in Without : \A m \in Without : n <= m
  <2>1. Without \subseteq Nat
    OBVIOUS
  <2> HIDE DEF Without
  <2> QED
    BY <1>1, <2>1, LeastNumber
<1>3. n \in Nat \ {0} /\ ~Finds(at, last, n)
  OBVIOUS
<1>4. PICK nodes : \E index \in 0 .. n - 1, c \in 0 .. last :
               /\ At(at[c], index, n)
               /\ last - c = Siblings[<<index, n>>]
               /\ at[last].hash = Roots(nodes, n)[<<0, n>>]
               /\ at[c].hash # nodes[index + 1]
  BY <1>3 DEF Finds
<1>5. PICK index \in 0 .. n - 1, c \in 0 .. last :
               /\ At(at[c], index, n)
               /\ last - c = Siblings[<<index, n>>]
               /\ at[last].hash = Roots(nodes, n)[<<0, n>>]
               /\ at[c].hash # nodes[index + 1]
  BY <1>4
<1> DEFINE whole == <<0, n>>
           r == <<index, n>>
<1>6. r \in Nat \X Nat /\ r[2] = n /\ r[1] = index
  BY <1>3
<1>7. CASE n = 1
  <2>1. Roots(nodes, n)[whole] = nodes[1]
    <3>1. whole \in (0 .. n) \X (0 .. n) /\ whole[1] = 0 /\ whole[2] = 1
      BY <1>7
    <3> HIDE DEF whole
    <3>2. Roots(nodes, n)[whole] = RootOver(Roots(nodes, n), nodes, whole)
      BY <1>3, <3>1, RootsDef
    <3>3. ~(whole[2] <= whole[1]) /\ whole[2] = whole[1] + 1
      BY <3>1
    <3>4. Roots(nodes, n)[whole] = nodes[whole[2]]
      BY <3>2, <3>3 DEF RootOver
    <3> QED
      BY <3>1, <3>4
  <2>2. Siblings[r] = 0
    <3> HIDE DEF r
    <3> QED
      BY <1>6, <1>7, SiblingsDef
  <2>3. index = 0 /\ c = last
    BY <1>5, <1>7, <2>2
  <2> QED
    BY <1>5, <2>1, <2>3
<1>8. CASE n # 1
  <2> DEFINE m == (n + 1) \div 2
             j == index \div 2
             up == Pairs(nodes, n)
             q == <<j, m>>
  <2>1. n \in Nat \ {0, 1}
    BY <1>3, <1>8
  <2>2. m \in Nat \ {0} /\ m < n /\ m \in 0 .. m /\ n <= 2 * m
    BY <2>1
  <2>3. Finds(at, last, m)
    <3> HIDE DEF m
    <3>1. m \notin Without
      <4> HIDE DEF Without
      <4> QED
        BY <1>2, <1>3, <2>2
    <3> QED
      BY <2>2, <3>1
  <2>4. Roots(nodes, n)[<<0, n>>] = Roots(up, m)[<<0, m>>]
    <3>1. Upto(2 * m, n) = n
      BY <1>3, <2>2 DEF Upto
    <3>2. \A b \in 0 .. (n + 1) \div 2 : 0 < b =>
             Roots(nodes, n)[<<2 * 0, Upto(2 * b, n)>>]
               = Roots(Pairs(nodes, n), (n + 1) \div 2)[<<0, b>>]
      <4>1. 0 \in 0 .. (n + 1) \div 2
        BY <2>2
      <4> QED
        BY <1>3, <4>1, RootOfPairs
    <3>3. m \in 0 .. (n + 1) \div 2 /\ 0 < m /\ 2 * 0 = 0
      BY <2>2
    <3>4. Roots(nodes, n)[<<2 * 0, Upto(2 * m, n)>>] = Roots(up, m)[<<0, m>>]
      BY <3>2, <3>3
    <3> QED
      BY <3>1, <3>3, <3>4
  <2>5. Siblings[r] = Siblings[q] + IF Promoted(r) THEN 0 ELSE 1
    <3>1. Halved(r) = q
      BY DEF Halved
    <3> HIDE DEF r, q
    <3> QED
      BY <1>6, <2>1, <3>1, SiblingsDef
  <2>6. Siblings[q] \in Nat
    <3>1. q \in Nat \X Nat
      BY <2>2
    <3> HIDE DEF q
    <3> QED
      BY <3>1, SiblingsType
  <2>7. j \in 0 .. m - 1
    BY <2>1, <2>2
  <2>8. CASE Promoted(r)
    <3>1. At(at[c], j, m) /\ up[j + 1] = nodes[index + 1]
      BY <1>5, <2>1, <2>8, LevelUp
    <3>2. last - c = Siblings[q]
      BY <1>5, <2>5, <2>6, <2>8
    <3>3. at[c].hash = up[j + 1]
      <4>1. at[last].hash = Roots(up, m)[<<0, m>>]
        BY <1>5, <2>4
      <4> HIDE DEF m, j, up
      <4> QED
        BY <2>3, <2>7, <3>1, <3>2, <4>1 DEF Finds, q
    <3> QED
      BY <1>5, <3>1, <3>3
  <2>9. CASE ~Promoted(r)
    <3>1. last - (c + 1) = Siblings[q] /\ c + 1 \in 1 .. last
      BY <1>5, <2>5, <2>6, <2>9
    <3>2. at[c + 1] = Climb(at[c], proof[c + 1])
      BY <3>1
    <3>3. /\ At(Climb(at[c], proof[c + 1]), j, m)
          /\ Climb(at[c], proof[c + 1]).hash = up[j + 1] => at[c].hash = nodes[index + 1]
      BY <1>5, <2>1, <2>9, LevelUp
    <3>4. at[c + 1].hash = up[j + 1]
      <4>1. at[last].hash = Roots(up, m)[<<0, m>>]
        BY <1>5, <2>4
      <4>2. c + 1 \in 0 .. last /\ At(at[c + 1], j, m)
        BY <3>1, <3>2, <3>3
      <4> HIDE DEF m, j, up
      <4> QED
        BY <2>3, <2>7, <3>1, <4>1, <4>2 DEF Finds, q
    <3> QED
      BY <1>5, <3>2, <3>3, <3>4
  <2> QED
    BY <2>8, <2>9
<1> QED
  BY <1>7, <1>8

\* If the size is that of the log, what is accepted stands at the index.
LEMMA AcceptedIsAtIndex ==
  ASSUME NEW leaves, Len(leaves) \in Nat, DOMAIN leaves = 1 .. Len(leaves),
         NEW leaf, NEW index \in Nat, NEW proof, Len(proof) \in Nat,
         VerifyInclusion(HashLeaf(leaf), index, Len(leaves), proof, MTH(leaves))
  PROVE  leaves[index + 1] = leaf
<1> DEFINE n == Len(leaves)
           last == Len(proof)
           hash == HashLeaf(leaf)
           at == Ascent(hash, index, n, proof)
           nodes == Leaves(leaves)
<1>1. index < n /\ last = Siblings[<<index, n>>] /\ at[last].hash = Roots(nodes, n)[<<0, n>>]
  BY DEF VerifyInclusion, ExpectedLength, RootFromInclusion, MTH, Subtree, Subtrees
<1>2. /\ at[0] = [hash |-> hash, index |-> index, last |-> n - 1]
      /\ \A c \in 1 .. last : at[c] = Climb(at[c - 1], proof[c])
  <2> HIDE DEF hash, n
  <2>1. /\ Ascent(hash, index, n, proof)[0]
             = [hash |-> hash, index |-> index, last |-> n - 1]
        /\ \A c \in 1 .. Len(proof) :
             Ascent(hash, index, n, proof)[c]
               = Climb(Ascent(hash, index, n, proof)[c - 1], proof[c])
    BY AscentDef
  <2> QED
    BY <2>1
<1>3. n \in Nat \ {0} /\ index \in 0 .. n - 1
  BY <1>1
<1>4. nodes[index + 1] = <<leaves[index + 1]>>
  <2>1. index + 1 \in DOMAIN leaves
    BY <1>3
  <2> QED
    BY <2>1 DEF Leaves, HashLeaf
<1> HIDE DEF at, nodes, n, last
<1>5. Finds(at, last, n)
  <2>1. last \in Nat
    BY DEF last
  <2> QED
    BY <1>2, <1>3, <2>1, AscentFinds
<1>6. At(at[0], index, n)
  BY <1>2 DEF At
<1>7. at[0].hash = nodes[index + 1]
  <2>1. 0 \in 0 .. last /\ last - 0 = last
    BY DEF last
  <2> QED
    BY <1>1, <1>3, <1>5, <1>6, <2>1 DEF Finds
<1>8. <<leaf>> = <<leaves[index + 1]>>
  BY <1>2, <1>4, <1>7 DEF HashLeaf
<1> QED
  BY <1>8

-----------------------------------------------------------------------------
(* The recursive definitions of consistency proofs.                        *)

\* 1 << n, as verify_consistency_proof compares it with the older size.
LEMMA PowerDef ==
  \A n \in Nat : Power[n] = IF n = 0 THEN 1 ELSE 2 * Power[n - 1]
<1> DEFINE D == Nat
           Stop == {n \in D : n = 0}
           rank == [n \in D |-> n]
           pred == [n \in D |-> IF n = 0 THEN n ELSE n - 1]
           base == [n \in D |-> 1]
           step == [x \in D \X Nat |-> 2 * x[2]]
           Body(f, n) == IF n = 0 THEN 1 ELSE 2 * f[n - 1]
<1>1. rank \in [D -> Nat] /\ base \in [D -> Nat] /\ step \in [D \X Nat -> Nat]
  OBVIOUS
<1>2. \A n \in D \ Stop : n - 1 \in D /\ n - 1 < n
  OBVIOUS
<1>3. PICK f : Solves(f, D, Stop, pred, base, step, Nat)
  <2>1. pred \in [D -> D] /\ \A n \in D \ Stop : rank[pred[n]] < rank[n]
    BY <1>2
  <2>2. Descends(D, rank, Stop, pred, base, step, Nat)
    <3> HIDE DEF D, Stop, rank, pred, base, step
    <3> QED
      BY <1>1, <2>1 DEF Descends
  <2> HIDE DEF D, Stop, rank, pred, base, step
  <2> QED
    BY <2>2, DescentExists
<1>4. ASSUME NEW n \in D
      PROVE  f[n] = Body(f, n)
  <2>1. CASE n \in Stop
    <3>1. f[n] = base[n]
      <4> HIDE DEF D, Stop, base, step, pred
      <4> QED
        BY <1>3, <2>1 DEF Solves
    <3> QED
      BY <2>1, <3>1
  <2>2. CASE n \notin Stop
    <3> DEFINE q == n - 1
    <3>1. pred[n] = q /\ q \in D
      BY <1>2, <2>2
    <3>2. f[q] \in Nat
      BY <1>3, <3>1 DEF Solves
    <3>3. f[n] = step[<<n, f[q]>>]
      <4> HIDE DEF D, Stop, base, step, pred, q
      <4> QED
        BY <1>3, <2>2, <3>1 DEF Solves
    <3>4. step[<<n, f[q]>>] = 2 * f[q]
      <4> HIDE DEF q
      <4> QED
        BY <3>2
    <3> QED
      BY <2>2, <3>3, <3>4
  <2> QED
    BY <2>1, <2>2
<1>5. f = [n \in Nat |-> Body(f, n)]
  <2>1. f \in [D -> Nat]
    BY <1>3 DEF Solves
  <2> HIDE DEF Body
  <2> QED
    BY <1>4, <2>1
<1>6. Power = [n \in Nat |-> Body(Power, n)]
  BY <1>5 DEF Power
<1> QED
  BY <1>6

\* The right shifts of decompose_inclusion_proof and of the chains.
LEMMA ShiftedDef ==
  \A r \in Nat \X Nat : Shifted[r] = IF r[2] = 0 THEN r[1] ELSE Shifted[<<r[1], r[2] - 1>>] \div 2
<1> DEFINE D == Nat \X Nat
           Stop == {r \in D : r[2] = 0}
           rank == [r \in D |-> r[2]]
           pred == [r \in D |-> IF r[2] = 0 THEN r ELSE <<r[1], r[2] - 1>>]
           base == [r \in D |-> r[1]]
           step == [x \in D \X Nat |-> x[2] \div 2]
           Body(f, r) == IF r[2] = 0 THEN r[1] ELSE f[<<r[1], r[2] - 1>>] \div 2
<1>1. rank \in [D -> Nat] /\ base \in [D -> Nat] /\ step \in [D \X Nat -> Nat]
  OBVIOUS
<1>2. \A r \in D \ Stop : <<r[1], r[2] - 1>> \in D /\ r[2] - 1 < r[2]
  OBVIOUS
<1>3. PICK f : Solves(f, D, Stop, pred, base, step, Nat)
  <2>1. pred \in [D -> D] /\ \A r \in D \ Stop : rank[pred[r]] < rank[r]
    BY <1>2
  <2>2. Descends(D, rank, Stop, pred, base, step, Nat)
    <3> HIDE DEF D, Stop, rank, pred, base, step
    <3> QED
      BY <1>1, <2>1 DEF Descends
  <2> HIDE DEF D, Stop, rank, pred, base, step
  <2> QED
    BY <2>2, DescentExists
<1>4. ASSUME NEW r \in D
      PROVE  f[r] = Body(f, r)
  <2>1. CASE r \in Stop
    <3>1. f[r] = base[r]
      <4> HIDE DEF D, Stop, base, step, pred
      <4> QED
        BY <1>3, <2>1 DEF Solves
    <3> QED
      BY <2>1, <3>1
  <2>2. CASE r \notin Stop
    <3> DEFINE q == <<r[1], r[2] - 1>>
    <3>1. pred[r] = q /\ q \in D
      BY <1>2, <2>2
    <3>2. f[q] \in Nat
      BY <1>3, <3>1 DEF Solves
    <3>3. f[r] = step[<<r, f[q]>>]
      <4> HIDE DEF D, Stop, base, step, pred, q
      <4> QED
        BY <1>3, <2>2, <3>1 DEF Solves
    <3>4. step[<<r, f[q]>>] = f[q] \div 2
      <4> HIDE DEF q
      <4> QED
        BY <3>2
    <3> QED
      BY <2>2, <3>3, <3>4
  <2> QED
    BY <2>1, <2>2
<1>5. f = [r \in Nat \X Nat |-> Body(f, r)]
  <2>1. f \in [D -> Nat]
    BY <1>3 DEF Solves
  <2> HIDE DEF Body
  <2> QED
    BY <1>4, <2>1
<1>6. Shifted = [r \in Nat \X Nat |-> Body(Shifted, r)]
  BY <1>5 DEF Shifted
<1> QED
  BY <1>6

\* count_ones, the number of border hashes.
LEMMA OnesDef ==
  \A n \in Nat : Ones[n] = IF n = 0 THEN 0 ELSE (n % 2) + Ones[n \div 2]
<1> DEFINE D == Nat
           Stop == {n \in D : n = 0}
           rank == [n \in D |-> n]
           pred == [n \in D |-> IF n = 0 THEN n ELSE n \div 2]
           base == [n \in D |-> 0]
           step == [x \in D \X Nat |-> (x[1] % 2) + x[2]]
           Body(f, n) == IF n = 0 THEN 0 ELSE (n % 2) + f[n \div 2]
<1>1. rank \in [D -> Nat] /\ base \in [D -> Nat] /\ step \in [D \X Nat -> Nat]
  OBVIOUS
<1>2. \A n \in D \ Stop : n \div 2 \in D /\ n \div 2 < n
  OBVIOUS
<1>3. PICK f : Solves(f, D, Stop, pred, base, step, Nat)
  <2>1. pred \in [D -> D] /\ \A n \in D \ Stop : rank[pred[n]] < rank[n]
    BY <1>2
  <2>2. Descends(D, rank, Stop, pred, base, step, Nat)
    <3> HIDE DEF D, Stop, rank, pred, base, step
    <3> QED
      BY <1>1, <2>1 DEF Descends
  <2> HIDE DEF D, Stop, rank, pred, base, step
  <2> QED
    BY <2>2, DescentExists
<1>4. ASSUME NEW n \in D
      PROVE  f[n] = Body(f, n)
  <2>1. CASE n \in Stop
    <3>1. f[n] = base[n]
      <4> HIDE DEF D, Stop, base, step, pred
      <4> QED
        BY <1>3, <2>1 DEF Solves
    <3> QED
      BY <2>1, <3>1
  <2>2. CASE n \notin Stop
    <3> DEFINE q == n \div 2
    <3>1. pred[n] = q /\ q \in D
      BY <1>2, <2>2
    <3>2. f[q] \in Nat
      BY <1>3, <3>1 DEF Solves
    <3>3. f[n] = step[<<n, f[q]>>]
      <4> HIDE DEF D, Stop, base, step, pred, q
      <4> QED
        BY <1>3, <2>2, <3>1 DEF Solves
    <3>4. step[<<n, f[q]>>] = (n % 2) + f[q]
      <4> HIDE DEF q
      <4> QED
        BY <3>2
    <3> QED
      BY <2>2, <3>3, <3>4
  <2> QED
    BY <2>1, <2>2
<1>5. f = [n \in Nat |-> Body(f, n)]
  <2>1. f \in [D -> Nat]
    BY <1>3 DEF Solves
  <2> HIDE DEF Body
  <2> QED
    BY <1>4, <2>1
<1>6. Ones = [n \in Nat |-> Body(Ones, n)]
  BY <1>5 DEF Ones
<1> QED
  BY <1>6

\* trailing_zeros of the older size.
LEMMA TrailingZerosDef ==
  \A n \in Nat \ {0} : TrailingZeros[n] = IF n % 2 = 1 THEN 0 ELSE 1 + TrailingZeros[n \div 2]
<1> DEFINE D == Nat \ {0}
           Stop == {n \in D : n % 2 = 1}
           rank == [n \in D |-> n]
           pred == [n \in D |-> IF n % 2 = 1 THEN n ELSE n \div 2]
           base == [n \in D |-> 0]
           step == [x \in D \X Nat |-> 1 + x[2]]
           Body(f, n) == IF n % 2 = 1 THEN 0 ELSE 1 + f[n \div 2]
<1>1. rank \in [D -> Nat] /\ base \in [D -> Nat] /\ step \in [D \X Nat -> Nat]
  OBVIOUS
<1>2. \A n \in D \ Stop : n \div 2 \in D /\ n \div 2 < n
  OBVIOUS
<1>3. PICK f : Solves(f, D, Stop, pred, base, step, Nat)
  <2>1. pred \in [D -> D] /\ \A n \in D \ Stop : rank[pred[n]] < rank[n]
    BY <1>2
  <2>2. Descends(D, rank, Stop, pred, base, step, Nat)
    <3> HIDE DEF D, Stop, rank, pred, base, step
    <3> QED
      BY <1>1, <2>1 DEF Descends
  <2> HIDE DEF D, Stop, rank, pred, base, step
  <2> QED
    BY <2>2, DescentExists
<1>4. ASSUME NEW n \in D
      PROVE  f[n] = Body(f, n)
  <2>1. CASE n \in Stop
    <3>1. f[n] = base[n]
      <4> HIDE DEF D, Stop, base, step, pred
      <4> QED
        BY <1>3, <2>1 DEF Solves
    <3> QED
      BY <2>1, <3>1
  <2>2. CASE n \notin Stop
    <3> DEFINE q == n \div 2
    <3>1. pred[n] = q /\ q \in D
      BY <1>2, <2>2
    <3>2. f[q] \in Nat
      BY <1>3, <3>1 DEF Solves
    <3>3. f[n] = step[<<n, f[q]>>]
      <4> HIDE DEF D, Stop, base, step, pred, q
      <4> QED
        BY <1>3, <2>2, <3>1 DEF Solves
    <3>4. step[<<n, f[q]>>] = 1 + f[q]
      <4> HIDE DEF q
      <4> QED
        BY <3>2
    <3> QED
      BY <2>2, <3>3, <3>4
  <2> QED
    BY <2>1, <2>2
<1>5. f = [n \in Nat \ {0} |-> Body(f, n)]
  <2>1. f \in [D -> Nat]
    BY <1>3 DEF Solves
  <2> HIDE DEF Body
  <2> QED
    BY <1>4, <2>1
<1>6. TrailingZeros = [n \in Nat \ {0} |-> Body(TrailingZeros, n)]
  BY <1>5 DEF TrailingZeros
<1> QED
  BY <1>6

\* The position of the highest bit in inner_proof_size.
LEMMA BitsApartDef ==
  \A r \in Nat \X Nat : BitsApart[r] = IF r[1] = r[2] THEN 0 ELSE 1 + BitsApart[<<r[1] \div 2, r[2] \div 2>>]
<1> DEFINE D == Nat \X Nat
           Stop == {r \in D : r[1] = r[2]}
           rank == [r \in D |-> r[1] + r[2]]
           pred == [r \in D |-> IF r[1] = r[2] THEN r ELSE <<r[1] \div 2, r[2] \div 2>>]
           base == [r \in D |-> 0]
           step == [x \in D \X Nat |-> 1 + x[2]]
           Body(f, r) == IF r[1] = r[2] THEN 0 ELSE 1 + f[<<r[1] \div 2, r[2] \div 2>>]
<1>1. rank \in [D -> Nat] /\ base \in [D -> Nat] /\ step \in [D \X Nat -> Nat]
  OBVIOUS
<1>2. \A r \in D \ Stop : <<r[1] \div 2, r[2] \div 2>> \in D /\ (r[1] \div 2) + (r[2] \div 2) < r[1] + r[2]
  OBVIOUS
<1>3. PICK f : Solves(f, D, Stop, pred, base, step, Nat)
  <2>1. pred \in [D -> D] /\ \A r \in D \ Stop : rank[pred[r]] < rank[r]
    BY <1>2
  <2>2. Descends(D, rank, Stop, pred, base, step, Nat)
    <3> HIDE DEF D, Stop, rank, pred, base, step
    <3> QED
      BY <1>1, <2>1 DEF Descends
  <2> HIDE DEF D, Stop, rank, pred, base, step
  <2> QED
    BY <2>2, DescentExists
<1>4. ASSUME NEW r \in D
      PROVE  f[r] = Body(f, r)
  <2>1. CASE r \in Stop
    <3>1. f[r] = base[r]
      <4> HIDE DEF D, Stop, base, step, pred
      <4> QED
        BY <1>3, <2>1 DEF Solves
    <3> QED
      BY <2>1, <3>1
  <2>2. CASE r \notin Stop
    <3> DEFINE q == <<r[1] \div 2, r[2] \div 2>>
    <3>1. pred[r] = q /\ q \in D
      BY <1>2, <2>2
    <3>2. f[q] \in Nat
      BY <1>3, <3>1 DEF Solves
    <3>3. f[r] = step[<<r, f[q]>>]
      <4> HIDE DEF D, Stop, base, step, pred, q
      <4> QED
        BY <1>3, <2>2, <3>1 DEF Solves
    <3>4. step[<<r, f[q]>>] = 1 + f[q]
      <4> HIDE DEF q
      <4> QED
        BY <3>2
    <3> QED
      BY <2>2, <3>3, <3>4
  <2> QED
    BY <2>1, <2>2
<1>5. f = [r \in Nat \X Nat |-> Body(f, r)]
  <2>1. f \in [D -> Nat]
    BY <1>3 DEF Solves
  <2> HIDE DEF Body
  <2> QED
    BY <1>4, <2>1
<1>6. BitsApart = [r \in Nat \X Nat |-> Body(BitsApart, r)]
  BY <1>5 DEF BitsApart
<1> QED
  BY <1>6

\* A chain takes one step for every hash.
LEMMA ChainDef ==
  ASSUME NEW seed, NEW proof, NEW out, NEW number \in Nat, NEW sides
  PROVE  /\ Chain(seed, proof, out, number, sides)[0] = seed
         /\ \A c \in 1 .. number :
              Chain(seed, proof, out, number, sides)[c]
                = Join(sides[c], Chain(seed, proof, out, number, sides)[c - 1], proof[out + c])
<1> DEFINE Then(f, c) == IF c = 0 THEN seed ELSE Join(sides[c], f[c - 1], proof[out + c])
           Exists(n) == \E f : f = [c \in 0 .. n |-> Then(f, c)]
           at == Chain(seed, proof, out, number, sides)
<1>1. \A n \in Nat : Exists(n)
  <2> DEFINE Without == {n \in Nat : ~Exists(n)}
  <2>1. SUFFICES ASSUME Without # {}
                 PROVE  FALSE
    BY <2>1
  <2>2. PICK n \in Without : \A m \in Without : n <= m
    <3>1. Without \subseteq Nat
      OBVIOUS
    <3> HIDE DEF Without
    <3> QED
      BY <2>1, <3>1, LeastNumber
  <2>3. n \in Nat /\ ~Exists(n)
    OBVIOUS
  <2>4. \E g : \A c \in 0 .. n - 1 : g[c] = Then(g, c)
    <3>1. CASE n = 0
      BY <3>1
    <3>2. CASE n # 0
      <4>1. n - 1 \in Nat /\ n - 1 \notin Without
        <5> HIDE DEF Exists, Without
        <5> QED
          BY <2>2, <2>3, <3>2
      <4>2. PICK g : g = [c \in 0 .. n - 1 |-> Then(g, c)]
        BY <4>1
      <4>3. \A c \in 0 .. n - 1 : g[c] = Then(g, c)
        <5> HIDE DEF Then
        <5> QED
          BY <4>2
      <4> HIDE DEF Then
      <4> QED
        BY <4>3
    <3> QED
      BY <3>1, <3>2
  <2>5. PICK g : \A c \in 0 .. n - 1 : g[c] = Then(g, c)
    BY <2>4
  <2> DEFINE f == [c \in 0 .. n |-> Then(g, c)]
  <2>6. ASSUME NEW c \in 0 .. n
        PROVE  Then(f, c) = Then(g, c)
    <3>1. CASE c = 0
      BY <3>1
    <3>2. CASE c # 0
      <4>1. c - 1 \in 0 .. n - 1
        BY <2>3, <3>2
      <4>2. c - 1 \in 0 .. n /\ g[c - 1] = Then(g, c - 1)
        BY <2>5, <4>1
      <4>3. f[c - 1] = g[c - 1]
        <5> HIDE DEF Then
        <5> QED
          BY <4>2
      <4> HIDE DEF f
      <4> QED
        BY <3>2, <4>3
    <3> QED
      BY <3>1, <3>2
  <2>7. f = [c \in 0 .. n |-> Then(f, c)]
    <3>1. \A c \in 0 .. n : Then(f, c) = Then(g, c)
      BY <2>6
    <3> HIDE DEF Then
    <3> QED
      BY <3>1
  <2> HIDE DEF f
  <2> QED
    BY <2>3, <2>7
<1>2. PICK f : f = [c \in 0 .. number |-> Then(f, c)]
  BY <1>1
<1>3. at = [c \in 0 .. number |-> Then(at, c)]
  BY <1>2 DEF Chain
<1> HIDE DEF at
<1>4. \A c \in 0 .. number : at[c] = Then(at, c)
  <2> HIDE DEF Then
  <2> QED
    BY <1>3
<1>5. at[0] = seed
  BY <1>4
<1>6. \A c \in 1 .. number : at[c] = Join(sides[c], at[c - 1], proof[out + c])
  BY <1>4
<1> QED
  BY <1>5, <1>6 DEF at


\* All of these are numbers.
LEMMA PowerType == \A n \in Nat : Power[n] \in Nat
<1> DEFINE Without == {n : n \in {x \in Nat : Power[x] \notin Nat}}
<1>1. SUFFICES ASSUME Without # {}
               PROVE  FALSE
  BY <1>1
<1>2. PICK w \in Without : \A u \in Without : w <= u
  <2>1. Without \subseteq Nat
    OBVIOUS
  <2> HIDE DEF Without
  <2> QED
    BY <1>1, <2>1, LeastNumber
<1>3. PICK n \in Nat : Power[n] \notin Nat /\ w = n
  OBVIOUS
<1> DEFINE q == n - 1
<1>4. ~(n = 0) /\ Power[q] \notin Nat
  BY <1>3, PowerDef
<1>5. q \in Nat /\ q \in Nat /\ q < w /\ w \in Nat
  BY <1>3, <1>4
<1>6. q \in Without
  <2> HIDE DEF q
  <2> QED
    BY <1>4, <1>5
<1> HIDE DEF Without, q
<1> QED
  BY <1>2, <1>5, <1>6

\* A shifted number is one.
LEMMA ShiftedType == \A r \in Nat \X Nat : Shifted[r] \in Nat
<1> DEFINE Without == {r[2] : r \in {x \in Nat \X Nat : Shifted[x] \notin Nat}}
<1>1. SUFFICES ASSUME Without # {}
               PROVE  FALSE
  BY <1>1
<1>2. PICK w \in Without : \A u \in Without : w <= u
  <2>1. Without \subseteq Nat
    OBVIOUS
  <2> HIDE DEF Without
  <2> QED
    BY <1>1, <2>1, LeastNumber
<1>3. PICK r \in Nat \X Nat : Shifted[r] \notin Nat /\ w = r[2]
  OBVIOUS
<1> DEFINE q == <<r[1], r[2] - 1>>
<1>4. ~(r[2] = 0) /\ Shifted[q] \notin Nat
  BY <1>3, ShiftedDef
<1>5. q \in Nat \X Nat /\ q[2] \in Nat /\ q[2] < w /\ w \in Nat
  BY <1>3, <1>4
<1>6. q[2] \in Without
  <2> HIDE DEF q
  <2> QED
    BY <1>4, <1>5
<1> HIDE DEF Without, q
<1> QED
  BY <1>2, <1>5, <1>6

\* A count of bits is a number.
LEMMA OnesType == \A n \in Nat : Ones[n] \in Nat
<1> DEFINE Without == {n : n \in {x \in Nat : Ones[x] \notin Nat}}
<1>1. SUFFICES ASSUME Without # {}
               PROVE  FALSE
  BY <1>1
<1>2. PICK w \in Without : \A u \in Without : w <= u
  <2>1. Without \subseteq Nat
    OBVIOUS
  <2> HIDE DEF Without
  <2> QED
    BY <1>1, <2>1, LeastNumber
<1>3. PICK n \in Nat : Ones[n] \notin Nat /\ w = n
  OBVIOUS
<1> DEFINE q == n \div 2
<1>4. ~(n = 0) /\ Ones[q] \notin Nat
  BY <1>3, OnesDef
<1>5. q \in Nat /\ q \in Nat /\ q < w /\ w \in Nat
  BY <1>3, <1>4
<1>6. q \in Without
  <2> HIDE DEF q
  <2> QED
    BY <1>4, <1>5
<1> HIDE DEF Without, q
<1> QED
  BY <1>2, <1>5, <1>6

\* So is the shift of the older size.
LEMMA TrailingZerosType == \A n \in Nat \ {0} : TrailingZeros[n] \in Nat
<1> DEFINE Without == {n : n \in {x \in Nat \ {0} : TrailingZeros[x] \notin Nat}}
<1>1. SUFFICES ASSUME Without # {}
               PROVE  FALSE
  BY <1>1
<1>2. PICK w \in Without : \A u \in Without : w <= u
  <2>1. Without \subseteq Nat
    OBVIOUS
  <2> HIDE DEF Without
  <2> QED
    BY <1>1, <2>1, LeastNumber
<1>3. PICK n \in Nat \ {0} : TrailingZeros[n] \notin Nat /\ w = n
  OBVIOUS
<1> DEFINE q == n \div 2
<1>4. ~(n % 2 = 1) /\ TrailingZeros[q] \notin Nat
  BY <1>3, TrailingZerosDef
<1>5. q \in Nat \ {0} /\ q \in Nat /\ q < w /\ w \in Nat
  BY <1>3, <1>4
<1>6. q \in Without
  <2> HIDE DEF q
  <2> QED
    BY <1>4, <1>5
<1> HIDE DEF Without, q
<1> QED
  BY <1>2, <1>5, <1>6

\* So is the number of levels below the border.
LEMMA BitsApartType == \A r \in Nat \X Nat : BitsApart[r] \in Nat
<1> DEFINE Without == {r[1] + r[2] : r \in {x \in Nat \X Nat : BitsApart[x] \notin Nat}}
<1>1. SUFFICES ASSUME Without # {}
               PROVE  FALSE
  BY <1>1
<1>2. PICK w \in Without : \A u \in Without : w <= u
  <2>1. Without \subseteq Nat
    OBVIOUS
  <2> HIDE DEF Without
  <2> QED
    BY <1>1, <2>1, LeastNumber
<1>3. PICK r \in Nat \X Nat : BitsApart[r] \notin Nat /\ w = r[1] + r[2]
  OBVIOUS
<1> DEFINE q == <<r[1] \div 2, r[2] \div 2>>
<1>4. ~(r[1] = r[2]) /\ BitsApart[q] \notin Nat
  BY <1>3, BitsApartDef
<1>5. q \in Nat \X Nat /\ (q[1] + q[2]) \in Nat /\ (q[1] + q[2]) < w /\ w \in Nat
  BY <1>3, <1>4
<1>6. (q[1] + q[2]) \in Without
  <2> HIDE DEF q
  <2> QED
    BY <1>4, <1>5
<1> HIDE DEF Without, q
<1> QED
  BY <1>2, <1>5, <1>6

\* The bits that are cut off can be cut off first or last.
LEMMA ShiftedHalf ==
  \A i, n \in Nat : Shifted[<<n, i + 1>>] = Shifted[<<n \div 2, i>>]
<1> DEFINE Half(i) == \A n \in Nat : Shifted[<<n, i + 1>>] = Shifted[<<n \div 2, i>>]
           Without == {i \in Nat : ~Half(i)}
<1>1. SUFFICES ASSUME Without # {}
               PROVE  FALSE
  BY <1>1
<1>2. PICK i \in Without : \A j \in Without : i <= j
  <2>1. Without \subseteq Nat
    OBVIOUS
  <2> HIDE DEF Without
  <2> QED
    BY <1>1, <2>1, LeastNumber
<1>3. PICK n \in Nat : Shifted[<<n, i + 1>>] # Shifted[<<n \div 2, i>>]
  OBVIOUS
<1>4. i \in Nat
  OBVIOUS
<1>5. Shifted[<<n, i + 1>>] = Shifted[<<n, i>>] \div 2
  <2> DEFINE r == <<n, i + 1>>
  <2>1. r \in Nat \X Nat /\ r[1] = n /\ r[2] = i + 1 /\ r[2] # 0 /\ r[2] - 1 = i
    BY <1>4
  <2> HIDE DEF r
  <2>2. Shifted[r] = Shifted[<<r[1], r[2] - 1>>] \div 2
    BY <2>1, ShiftedDef
  <2>3. Shifted[r] = Shifted[<<n, i>>] \div 2
    BY <2>1, <2>2
  <2> QED
    BY <2>3 DEF r
<1>6. CASE i = 0
  <2>1. \A m \in Nat : Shifted[<<m, i>>] = m
    <3> TAKE m \in Nat
    <3> DEFINE r == <<m, i>>
    <3>1. r \in Nat \X Nat /\ r[1] = m /\ r[2] = 0
      BY <1>6
    <3> HIDE DEF r
    <3>2. Shifted[r] = m
      BY <3>1, ShiftedDef
    <3> QED
      BY <3>2 DEF r
  <2>2. n \div 2 \in Nat
    OBVIOUS
  <2> QED
    BY <1>3, <1>5, <2>1, <2>2
<1>7. CASE i # 0
  <2> DEFINE m == n \div 2
             r == <<m, i>>
  <2>1. r \in Nat \X Nat /\ r[1] = m /\ r[2] = i /\ r[2] # 0 /\ m \in Nat
    BY <1>4, <1>7
  <2> HIDE DEF r, m
  <2>2. Shifted[r] = Shifted[<<m, i - 1>>] \div 2
    BY <2>1, ShiftedDef
  <2>3. i - 1 \in Nat /\ i - 1 \notin Without /\ (i - 1) + 1 = i
    <3> HIDE DEF Without
    <3> QED
      BY <1>2, <1>4, <1>7
  <2>4. Half(i - 1)
    <3> HIDE DEF Half
    <3> QED
      BY <2>3
  <2>5. Shifted[<<n, i>>] = Shifted[<<m, i - 1>>]
    BY <2>3, <2>4 DEF m
  <2> QED
    BY <1>3, <1>5, <2>2, <2>5 DEF r, m
<1> QED
  BY <1>6, <1>7

\* Nodes are the same when all their pairs are.
SamePairs(nodes, n, olds, o, k) ==
  \A j \in 1 .. k : Pairs(nodes, n)[j] = Pairs(olds, o)[j]

\* So the first 2 * k nodes of two levels are the same if the first k pairs are.
LEMMA PairsAgree ==
  ASSUME NEW n \in Nat, NEW o \in Nat, NEW nodes, NEW olds,
         NEW k \in Nat, 2 * k <= n, 2 * k <= o,
         SamePairs(nodes, n, olds, o, k)
  PROVE  \A j \in 1 .. 2 * k : nodes[j] = olds[j]
<1> SUFFICES ASSUME NEW j \in 1 .. 2 * k
             PROVE  nodes[j] = olds[j]
  OBVIOUS
<1> DEFINE i == (j + 1) \div 2
<1>1. i \in 1 .. k /\ (j = 2 * i \/ j = 2 * i - 1)
  OBVIOUS
<1>2. 2 * i <= n /\ 2 * i <= o /\ i \in 1 .. (n + 1) \div 2 /\ i \in 1 .. (o + 1) \div 2
  BY <1>1
<1> HIDE DEF i
<1>3. /\ Pairs(nodes, n)[i] = HashChildren(nodes[2 * i - 1], nodes[2 * i])
      /\ Pairs(olds, o)[i] = HashChildren(olds[2 * i - 1], olds[2 * i])
  BY <1>2 DEF Pairs
<1>4. HashChildren(nodes[2 * i - 1], nodes[2 * i]) = HashChildren(olds[2 * i - 1], olds[2 * i])
  BY <1>1, <1>3 DEF SamePairs
<1>5. nodes[2 * i - 1] = olds[2 * i - 1] /\ nodes[2 * i] = olds[2 * i]
  BY <1>4, ChildrenDiffer
<1> QED
  BY <1>1, <1>5

\* A whole level is half as many nodes one level up.
LEMMA LevelRoot ==
  ASSUME NEW nodes, NEW n \in Nat \ {0}
  PROVE  Roots(nodes, n)[<<0, n>>]
           = Roots(Pairs(nodes, n), (n + 1) \div 2)[<<0, (n + 1) \div 2>>]
<1> DEFINE m == (n + 1) \div 2
<1>1. m \in 0 .. (n + 1) \div 2 /\ 0 \in 0 .. (n + 1) \div 2 /\ 0 < m /\ n <= 2 * m /\ 2 * 0 = 0
  OBVIOUS
<1>2. Upto(2 * m, n) = n
  BY <1>1 DEF Upto
<1>3. \A b \in 0 .. (n + 1) \div 2 : 0 < b =>
         Roots(nodes, n)[<<2 * 0, Upto(2 * b, n)>>]
           = Roots(Pairs(nodes, n), (n + 1) \div 2)[<<0, b>>]
  BY <1>1, RootOfPairs
<1>4. Roots(nodes, n)[<<2 * 0, Upto(2 * m, n)>>] = Roots(Pairs(nodes, n), m)[<<0, m>>]
  BY <1>1, <1>3
<1> QED
  BY <1>1, <1>2, <1>4

\* The root over one node is the node.
LEMMA RootOfOne ==
  ASSUME NEW nodes
  PROVE  Roots(nodes, 1)[<<0, 1>>] = nodes[1]
<1> DEFINE whole == <<0, 1>>
<1>1. whole \in (0 .. 1) \X (0 .. 1) /\ whole[1] = 0 /\ whole[2] = 1 /\ 1 \in Nat
  OBVIOUS
<1> HIDE DEF whole
<1>2. Roots(nodes, 1)[whole] = RootOver(Roots(nodes, 1), nodes, whole)
  BY <1>1, RootsDef
<1>3. ~(whole[2] <= whole[1]) /\ whole[2] = whole[1] + 1
  BY <1>1
<1>4. Roots(nodes, 1)[whole] = nodes[whole[2]]
  BY <1>2, <1>3 DEF RootOver
<1> QED
  BY <1>1, <1>4 DEF whole

\* Pairs at half a place.
LEMMA PairAt ==
  ASSUME NEW n \in Nat, NEW index \in 0 .. n - 1, NEW nodes
  PROVE  /\ index % 2 = 1 => Pairs(nodes, n)[index \div 2 + 1]
                               = HashChildren(nodes[index], nodes[index + 1])
         /\ index % 2 = 0 /\ index < n - 1
              => Pairs(nodes, n)[index \div 2 + 1]
                   = HashChildren(nodes[index + 1], nodes[index + 2])
         /\ index % 2 = 0 /\ index = n - 1
              => Pairs(nodes, n)[index \div 2 + 1] = nodes[index + 1]
<1> DEFINE i == index \div 2 + 1
<1>1. i \in 1 .. (n + 1) \div 2
  OBVIOUS
<1>2. /\ index % 2 = 1 => 2 * i = index + 1 /\ 2 * i - 1 = index /\ 2 * i <= n
      /\ index % 2 = 0 /\ index < n - 1 => 2 * i = index + 2 /\ 2 * i - 1 = index + 1 /\ 2 * i <= n
      /\ index % 2 = 0 /\ index = n - 1 => 2 * i - 1 = index + 1 /\ ~(2 * i <= n)
  OBVIOUS
<1> HIDE DEF i
<1>3. Pairs(nodes, n)[i] = IF 2 * i <= n THEN HashChildren(nodes[2 * i - 1], nodes[2 * i])
                                         ELSE nodes[2 * i - 1]
  BY <1>1 DEF Pairs
<1>4. CASE 2 * i <= n
  <2>1. Pairs(nodes, n)[i] = HashChildren(nodes[2 * i - 1], nodes[2 * i])
    BY <1>3, <1>4
  <2> QED
    BY <1>2, <1>4, <2>1 DEF i
<1>5. CASE ~(2 * i <= n)
  <2>1. Pairs(nodes, n)[i] = nodes[2 * i - 1]
    BY <1>3, <1>5
  <2> QED
    BY <1>2, <1>5, <2>1 DEF i
<1> QED
  BY <1>4, <1>5

\* Logs of one size with one root are the same.
LEMMA SameRootSameNodes ==
  \A n \in Nat \ {0} : \A nodes, olds :
    Roots(nodes, n)[<<0, n>>] = Roots(olds, n)[<<0, n>>]
      => \A j \in 1 .. n : nodes[j] = olds[j]
<1> DEFINE Same(n) == \A nodes, olds :
                        Roots(nodes, n)[<<0, n>>] = Roots(olds, n)[<<0, n>>]
                          => \A j \in 1 .. n : nodes[j] = olds[j]
           Without == {n \in Nat \ {0} : ~Same(n)}
<1>1. SUFFICES ASSUME Without # {}
               PROVE  FALSE
  BY <1>1
<1>2. PICK n \in Without : \A m \in Without : n <= m
  <2>1. Without \subseteq Nat
    OBVIOUS
  <2> HIDE DEF Without
  <2> QED
    BY <1>1, <2>1, LeastNumber
<1>3. n \in Nat \ {0} /\ ~Same(n)
  OBVIOUS
<1>4. PICK nodes, olds : /\ Roots(nodes, n)[<<0, n>>] = Roots(olds, n)[<<0, n>>]
                         /\ ~\A j \in 1 .. n : nodes[j] = olds[j]
  BY <1>3
<1>5. CASE n = 1
  <2>1. nodes[1] = olds[1]
    BY <1>4, <1>5, RootOfOne
  <2>2. \A j \in 1 .. n : j = 1
    BY <1>5
  <2> QED
    BY <1>4, <2>1, <2>2
<1>6. CASE n # 1
  <2> DEFINE m == (n + 1) \div 2
             k == n \div 2
  <2>1. m \in Nat \ {0} /\ m < n /\ k \in Nat /\ 2 * k <= n /\ k <= m
    BY <1>3, <1>6
  <2>2. Roots(Pairs(nodes, n), m)[<<0, m>>] = Roots(Pairs(olds, n), m)[<<0, m>>]
    BY <1>3, <1>4, LevelRoot
  <2>3. Same(m)
    <3> HIDE DEF m, Same
    <3>1. m \notin Without
      <4> HIDE DEF Without
      <4> QED
        BY <1>2, <1>3, <2>1
    <3> QED
      BY <2>1, <3>1
  <2>4. \A j \in 1 .. m : Pairs(nodes, n)[j] = Pairs(olds, n)[j]
    <3> HIDE DEF m
    <3> QED
      BY <2>2, <2>3
  <2>5. \A j \in 1 .. 2 * k : nodes[j] = olds[j]
    <3>1. SamePairs(nodes, n, olds, n, k)
      <4> HIDE DEF m, k
      <4> QED
        BY <2>1, <2>4 DEF SamePairs
    <3> HIDE DEF k
    <3> QED
      BY <1>3, <2>1, <3>1, PairsAgree
  <2>6. nodes[n] = olds[n]
    <3>1. CASE n % 2 = 0
      <4>1. n \in 1 .. 2 * k
        BY <1>3, <3>1
      <4> QED
        BY <2>5, <4>1
    <3>2. CASE n % 2 = 1
      <4>1. (n - 1) % 2 = 0 /\ n - 1 \in 0 .. n - 1 /\ (n - 1) \div 2 + 1 = m /\ m \in 1 .. m
            /\ (n - 1) + 1 = n
        BY <1>3, <3>2
      <4>2. Pairs(nodes, n)[m] = nodes[n] /\ Pairs(olds, n)[m] = olds[n]
        <5> DEFINE index == n - 1
        <5>1. index \in 0 .. n - 1 /\ index % 2 = 0 /\ index = n - 1
              /\ index \div 2 + 1 = m /\ index + 1 = n
          BY <4>1
        <5>2. n \in Nat
          BY <1>3
        <5> HIDE DEF index, m
        <5>3. /\ Pairs(nodes, n)[index \div 2 + 1] = nodes[index + 1]
              /\ Pairs(olds, n)[index \div 2 + 1] = olds[index + 1]
          BY <5>1, <5>2, PairAt
        <5> QED
          BY <5>1, <5>3
      <4> QED
        BY <2>4, <4>1, <4>2
    <3> QED
      BY <1>3, <3>1, <3>2
  <2>7. \A j \in 1 .. n : j \in 1 .. 2 * k \/ j = n
    BY <1>3
  <2> QED
    BY <1>4, <2>5, <2>6, <2>7
<1> QED
  BY <1>5, <1>6

\* Two chains that join the same siblings on the left, and end at the roots over
\* two levels of one size, stand at the last node of the two levels, which do not
\* differ in any other node.
Climbs(hash, sibling, last) ==
  \A c \in 1 .. last : hash[c] = HashChildren(sibling[c], hash[c - 1])

EdgesAgree(new, old, last, n) ==
  \A nodes, olds : \A c \in 0 .. last :
    /\ last - c = Ones[n - 1]
    /\ new[last] = Roots(nodes, n)[<<0, n>>]
    /\ old[last] = Roots(olds, n)[<<0, n>>]
    => /\ new[c] = nodes[n] /\ old[c] = olds[n]
       /\ \A j \in 1 .. n - 1 : nodes[j] = olds[j]

\* By descent to the smallest level: a node with an even index is promoted.
LEMMA BorderAgrees ==
  ASSUME NEW new, NEW old, NEW sibling, NEW last \in Nat,
         Climbs(new, sibling, last), Climbs(old, sibling, last)
  PROVE  \A n \in Nat \ {0} : EdgesAgree(new, old, last, n)
<1> DEFINE Without == {n \in Nat \ {0} : ~EdgesAgree(new, old, last, n)}
<1>1. SUFFICES ASSUME Without # {}
               PROVE  FALSE
  BY <1>1
<1>2. PICK n \in Without : \A m \in Without : n <= m
  <2>1. Without \subseteq Nat
    OBVIOUS
  <2> HIDE DEF Without
  <2> QED
    BY <1>1, <2>1, LeastNumber
<1>3. n \in Nat \ {0} /\ ~EdgesAgree(new, old, last, n)
  OBVIOUS
<1>4. PICK nodes, olds : \E c \in 0 .. last :
        /\ last - c = Ones[n - 1]
        /\ new[last] = Roots(nodes, n)[<<0, n>>]
        /\ old[last] = Roots(olds, n)[<<0, n>>]
        /\ ~(/\ new[c] = nodes[n] /\ old[c] = olds[n]
             /\ \A j \in 1 .. n - 1 : nodes[j] = olds[j])
  BY <1>3 DEF EdgesAgree
<1>5. PICK c \in 0 .. last :
        /\ last - c = Ones[n - 1]
        /\ new[last] = Roots(nodes, n)[<<0, n>>]
        /\ old[last] = Roots(olds, n)[<<0, n>>]
        /\ ~(/\ new[c] = nodes[n] /\ old[c] = olds[n]
             /\ \A j \in 1 .. n - 1 : nodes[j] = olds[j])
  BY <1>4
<1>6. CASE n = 1
  <2>1. Ones[0] = 0
    BY OnesDef
  <2>2. c = last
    BY <1>5, <1>6, <2>1
  <2>3. new[c] = nodes[n] /\ old[c] = olds[n]
    BY <1>5, <1>6, <2>2, RootOfOne
  <2>4. \A j \in 1 .. n - 1 : nodes[j] = olds[j]
    BY <1>6
  <2> QED
    BY <1>5, <2>3, <2>4
<1>7. CASE n # 1
  <2> DEFINE m == (n + 1) \div 2
             up == Pairs(nodes, n)
             upOld == Pairs(olds, n)
  <2>1. m \in Nat \ {0} /\ m < n /\ (n - 1) \div 2 = m - 1 /\ m - 1 \in Nat
    BY <1>3, <1>7
  <2>2. Ones[n - 1] = ((n - 1) % 2) + Ones[m - 1]
    <3> DEFINE k == n - 1
    <3>1. k \in Nat /\ k # 0 /\ k \div 2 = m - 1
      BY <1>3, <1>7, <2>1
    <3> HIDE DEF k, m
    <3>2. Ones[k] = (k % 2) + Ones[k \div 2]
      BY <3>1, OnesDef
    <3> QED
      BY <3>1, <3>2 DEF k
  <2>3. Ones[m - 1] \in Nat
    <3> HIDE DEF m
    <3> QED
      BY <2>1, OnesType
  <2>4. new[last] = Roots(up, m)[<<0, m>>] /\ old[last] = Roots(upOld, m)[<<0, m>>]
    BY <1>3, <1>5, LevelRoot
  <2>5. EdgesAgree(new, old, last, m)
    <3> HIDE DEF m
    <3>1. m \notin Without
      <4> HIDE DEF Without
      <4> QED
        BY <1>2, <1>3, <2>1
    <3> QED
      BY <2>1, <3>1
  <2>6. ASSUME NEW b \in 0 .. last, last - b = Ones[m - 1]
        PROVE  /\ new[b] = up[m] /\ old[b] = upOld[m]
               /\ \A j \in 1 .. m - 1 : up[j] = upOld[j]
    <3> HIDE DEF m, up, upOld
    <3> QED
      BY <2>4, <2>5, <2>6 DEF EdgesAgree
  <2> DEFINE index == n - 1
  <2>7. index \in 0 .. n - 1 /\ index + 1 = n /\ index = n - 1 /\ n \in Nat
        /\ index \div 2 + 1 = m /\ ~(index < n - 1)
    BY <1>3, <2>1
  <2>8. CASE index % 2 = 0
    <3>1. last - c = Ones[m - 1]
      BY <1>5, <2>2, <2>3, <2>8
    <3>2. /\ new[c] = up[m] /\ old[c] = upOld[m]
          /\ \A j \in 1 .. m - 1 : up[j] = upOld[j]
      <4> HIDE DEF m, up, upOld
      <4> QED
        BY <2>6, <3>1
    <3>3. up[m] = nodes[n] /\ upOld[m] = olds[n]
      <4> HIDE DEF index, m
      <4>1. /\ Pairs(nodes, n)[index \div 2 + 1] = nodes[index + 1]
            /\ Pairs(olds, n)[index \div 2 + 1] = olds[index + 1]
        <5>1. n \in Nat /\ index \in 0 .. n - 1 /\ index = n - 1
          BY ONLY <2>7
        <5> QED
          BY ONLY <2>8, <5>1, PairAt
      <4> QED
        BY <2>7, <4>1
    <3>4. \A j \in 1 .. n - 1 : nodes[j] = olds[j]
      <4> DEFINE k == m - 1
      <4>1. k \in Nat /\ 2 * k <= n /\ 2 * k = n - 1
        BY <1>3, <2>1, <2>8
      <4>2. SamePairs(nodes, n, olds, n, k)
        BY <3>2 DEF SamePairs
      <4> HIDE DEF k
      <4>3. \A j \in 1 .. 2 * k : nodes[j] = olds[j]
        BY <1>3, <4>1, <4>2, PairsAgree
      <4> QED
        BY <4>1, <4>3
    <3> QED
      BY <1>5, <3>2, <3>3, <3>4
  <2>9. CASE index % 2 = 1
    <3>1. last - (c + 1) = Ones[m - 1] /\ c + 1 \in 1 .. last /\ c + 1 \in 0 .. last
      BY <1>5, <2>2, <2>3, <2>9
    <3>2. /\ new[c + 1] = up[m] /\ old[c + 1] = upOld[m]
          /\ \A j \in 1 .. m - 1 : up[j] = upOld[j]
      <4> HIDE DEF m, up, upOld
      <4> QED
        BY <2>6, <3>1
    <3>3. /\ up[m] = HashChildren(nodes[n - 1], nodes[n])
          /\ upOld[m] = HashChildren(olds[n - 1], olds[n])
      <4> HIDE DEF index, m
      <4>1. /\ Pairs(nodes, n)[index \div 2 + 1] = HashChildren(nodes[index], nodes[index + 1])
            /\ Pairs(olds, n)[index \div 2 + 1] = HashChildren(olds[index], olds[index + 1])
        <5>1. n \in Nat /\ index \in 0 .. n - 1
          BY ONLY <2>7
        <5> QED
          BY ONLY <2>9, <5>1, PairAt
      <4> QED
        BY <2>7, <4>1
    <3>4. /\ new[c + 1] = HashChildren(sibling[c + 1], new[c])
          /\ old[c + 1] = HashChildren(sibling[c + 1], old[c])
      <4>1. (c + 1) - 1 = c
        BY <1>5
      <4> QED
        BY <3>1, <4>1 DEF Climbs
    <3>5. /\ sibling[c + 1] = nodes[n - 1] /\ new[c] = nodes[n]
          /\ sibling[c + 1] = olds[n - 1] /\ old[c] = olds[n]
      <4> HIDE DEF m, up, upOld
      <4>1. /\ HashChildren(sibling[c + 1], new[c]) = HashChildren(nodes[n - 1], nodes[n])
            /\ HashChildren(sibling[c + 1], old[c]) = HashChildren(olds[n - 1], olds[n])
        BY <3>2, <3>3, <3>4
      <4> QED
        BY <4>1, ChildrenDiffer
    <3>6. \A j \in 1 .. n - 2 : nodes[j] = olds[j]
      <4> DEFINE k == m - 1
      <4>1. k \in Nat /\ 2 * k <= n /\ 2 * k = n - 2
        BY <1>3, <2>1, <2>9
      <4>2. SamePairs(nodes, n, olds, n, k)
        BY <3>2 DEF SamePairs
      <4> HIDE DEF k
      <4>3. \A j \in 1 .. 2 * k : nodes[j] = olds[j]
        BY <1>3, <4>1, <4>2, PairsAgree
      <4> QED
        BY <4>1, <4>3
    <3>7. \A j \in 1 .. n - 1 : j \in 1 .. n - 2 \/ j = n - 1
      BY <1>3
    <3>8. \A j \in 1 .. n - 1 : nodes[j] = olds[j]
      BY <3>5, <3>6, <3>7
    <3> QED
      BY <1>5, <3>5, <3>8
  <2> QED
    BY <2>7, <2>8, <2>9
<1> QED
  BY <1>6, <1>7

\* Below, where the node of the older log is at its right edge and that of the newer
\* is not, a sibling on the right is of the newer log only.
Joins(new, old, sibling, mask, last) ==
  \A c \in 1 .. last :
    /\ Bit(mask, c - 1) = 1 => /\ new[c] = HashChildren(sibling[c], new[c - 1])
                               /\ old[c] = HashChildren(sibling[c], old[c - 1])
    /\ Bit(mask, c - 1) = 0 => /\ new[c] = HashChildren(new[c - 1], sibling[c])
                               /\ old[c] = old[c - 1]

Rooted(root, nodes, n) == root = Roots(nodes, n)[<<0, n>>]

\* Two hashes stand at one place of two levels that do not differ before it.
Stand(newHash, oldHash, nodes, olds, i) ==
  /\ newHash = nodes[i + 1] /\ oldHash = olds[i + 1]
  /\ \A j \in 1 .. i : nodes[j] = olds[j]

\* newRoot and oldRoot are what the border makes of the two hashes at its start.
Tops(newTop, oldTop, newRoot, oldRoot, i) ==
  \A nodes, olds :
    Rooted(newRoot, nodes, i + 1) /\ Rooted(oldRoot, olds, i + 1)
      => Stand(newTop, oldTop, nodes, olds, i)

LevelsAgree(new, old, mask, last, newRoot, oldRoot, n) ==
  \A nodes, olds : \A c \in 0 .. last, i \in 0 .. n - 1 :
    /\ i = Shifted[<<mask, c>>]
    /\ last - c = BitsApart[<<i, n - 1>>]
    /\ Rooted(newRoot, nodes, n)
    /\ Rooted(oldRoot, olds, i + 1)
    => Stand(new[c], old[c], nodes, olds, i)

\* By descent to the smallest level, down to where both edges meet.
LEMMA InnerAgrees ==
  ASSUME NEW new, NEW old, NEW sibling, NEW mask \in Nat, NEW last \in Nat,
         Joins(new, old, sibling, mask, last), NEW newRoot, NEW oldRoot,
         Tops(new[last], old[last], newRoot, oldRoot, Shifted[<<mask, last>>])
  PROVE  \A n \in Nat \ {0} : LevelsAgree(new, old, mask, last, newRoot, oldRoot, n)
<1> DEFINE Agree(n) == LevelsAgree(new, old, mask, last, newRoot, oldRoot, n)
           Without == {n \in Nat \ {0} : ~Agree(n)}
<1>1. SUFFICES ASSUME Without # {}
               PROVE  FALSE
  BY <1>1
<1>2. PICK n \in Without : \A m \in Without : n <= m
  <2>1. Without \subseteq Nat
    OBVIOUS
  <2> HIDE DEF Without
  <2> QED
    BY <1>1, <2>1, LeastNumber
<1>3. n \in Nat \ {0} /\ ~Agree(n)
  OBVIOUS
<1> DEFINE Wrong(nodes, olds, c, i) ==
             /\ i = Shifted[<<mask, c>>]
             /\ last - c = BitsApart[<<i, n - 1>>]
             /\ Rooted(newRoot, nodes, n)
             /\ Rooted(oldRoot, olds, i + 1)
             /\ ~Stand(new[c], old[c], nodes, olds, i)
<1>4. PICK nodes, olds : \E c \in 0 .. last, i \in 0 .. n - 1 : Wrong(nodes, olds, c, i)
  <2>1. ASSUME \A nodes, olds : \A c \in 0 .. last, i \in 0 .. n - 1 : ~Wrong(nodes, olds, c, i)
        PROVE  Agree(n)
    BY <2>1, Zenon DEF LevelsAgree
  <2> HIDE DEF Agree, Wrong
  <2> QED
    BY <1>3, <2>1
<1>5. PICK c \in 0 .. last, i \in 0 .. n - 1 : Wrong(nodes, olds, c, i)
  BY <1>4
<1>10. /\ i \in Nat /\ i <= n - 1 /\ c \in Nat /\ c <= last
       /\ i = Shifted[<<mask, c>>] /\ last - c = BitsApart[<<i, n - 1>>]
  BY <1>3, <1>5
<1>11. Rooted(newRoot, nodes, n) /\ Rooted(oldRoot, olds, i + 1)
  BY <1>5
<1>12. ~Stand(new[c], old[c], nodes, olds, i)
  BY <1>5
<1> HIDE DEF Wrong
<1> DEFINE r == <<i, n - 1>>
           half == <<i \div 2, (n - 1) \div 2>>
           m == (n + 1) \div 2
           k == i \div 2
<1>6. /\ r \in Nat \X Nat /\ r[1] = i /\ r[2] = n - 1
      /\ half \in Nat \X Nat /\ (n - 1) \div 2 = m - 1
  BY <1>3
<1>7. BitsApart[r] = IF r[1] = r[2] THEN 0
                     ELSE 1 + BitsApart[<<r[1] \div 2, r[2] \div 2>>]
  <2> HIDE DEF r
  <2> QED
    BY <1>6, BitsApartDef
<1>8. CASE i = n - 1
  <2>1. c = last
    BY <1>6, <1>7, <1>8, <1>10
  <2>2. i + 1 = n /\ i = Shifted[<<mask, last>>]
    BY <1>3, <1>8, <1>10, <2>1
  <2>3. Stand(new[c], old[c], nodes, olds, i)
    <3>1. Rooted(newRoot, nodes, i + 1) /\ Rooted(oldRoot, olds, i + 1)
      BY <1>11, <2>2
    <3>2. Tops(new[c], old[c], newRoot, oldRoot, i)
      BY <2>1, <2>2
    <3> QED
      BY <3>1, <3>2 DEF Tops
  <2> QED
    BY <1>12, <2>3
<1>9. CASE i # n - 1
  <2>1. i < n - 1 /\ m \in Nat \ {0} /\ m < n /\ k \in 0 .. m - 1 /\ i \in 0 .. (i + 1) - 1
    BY <1>3, <1>9
  <2>2. BitsApart[half] \in Nat
    <3> HIDE DEF half
    <3> QED
      BY <1>6, BitsApartType
  <2>3. last - (c + 1) = BitsApart[half] /\ c + 1 \in 1 .. last /\ c + 1 \in 0 .. last
    <3>1. BitsApart[r] = 1 + BitsApart[half]
      BY <1>6, <1>7, <1>9
    <3> HIDE DEF half, r
    <3> QED
      BY <1>10, <2>2, <3>1 DEF r
  <2>4. Shifted[<<mask, c + 1>>] = k
    <3> DEFINE next == <<mask, c + 1>>
    <3>1. next \in Nat \X Nat /\ next[1] = mask /\ next[2] = c + 1 /\ next[2] # 0
          /\ next[2] - 1 = c
      BY <1>10
    <3> HIDE DEF next
    <3>2. Shifted[next] = Shifted[<<next[1], next[2] - 1>>] \div 2
      BY <3>1, ShiftedDef
    <3>3. Shifted[next] = Shifted[<<mask, c>>] \div 2
      BY <3>1, <3>2
    <3> QED
      BY <1>10, <3>3 DEF next
  <2> DEFINE up == Pairs(nodes, n)
             upOld == Pairs(olds, i + 1)
  <2>5. Rooted(newRoot, up, m) /\ Rooted(oldRoot, upOld, k + 1)
    <3>1. newRoot = Roots(up, m)[<<0, m>>]
      BY <1>3, <1>11, LevelRoot DEF Rooted
    <3>2. ((i + 1) + 1) \div 2 = k + 1 /\ i + 1 \in Nat \ {0}
      BY <2>1
    <3>3. Roots(olds, i + 1)[<<0, i + 1>>]
            = Roots(upOld, ((i + 1) + 1) \div 2)[<<0, ((i + 1) + 1) \div 2>>]
      BY <3>2, LevelRoot
    <3> HIDE DEF k
    <3> QED
      BY <1>11, <3>1, <3>2, <3>3 DEF Rooted
  <2>6. Agree(m)
    <3> HIDE DEF m, Agree
    <3>1. m \notin Without
      <4> HIDE DEF Without
      <4> QED
        BY <1>2, <1>3, <2>1
    <3> QED
      BY <2>1, <3>1
  <2>7. /\ new[c + 1] = up[k + 1] /\ old[c + 1] = upOld[k + 1]
        /\ \A j \in 1 .. k : up[j] = upOld[j]
    <3>1. BitsApart[<<k, m - 1>>] = BitsApart[half]
      BY <1>6
    <3> DEFINE d == c + 1
    <3>2. d \in 0 .. last /\ k = Shifted[<<mask, d>>] /\ last - d = BitsApart[<<k, m - 1>>]
      BY <2>3, <2>4, <3>1
    <3> HIDE DEF m, k, up, upOld, half, d
    <3>3. Stand(new[d], old[d], up, upOld, k)
      <4>1. k \in 0 .. m - 1
        BY <2>1
      <4>2. LevelsAgree(new, old, mask, last, newRoot, oldRoot, m)
        BY <2>6
      <4> HIDE DEF Agree
      <4> QED
        BY <2>5, <3>2, <4>1, <4>2 DEF LevelsAgree
    <3> QED
      BY <3>3 DEF d, Stand
  <2>8. Bit(mask, (c + 1) - 1) = i % 2
    <3>1. (c + 1) - 1 = c
      BY <1>10
    <3> QED
      BY <1>10, <3>1 DEF Bit
  <2>9. \A j \in 1 .. 2 * k : nodes[j] = olds[j]
    <3>1. k \in Nat /\ 2 * k <= n /\ 2 * k <= i + 1
      BY <2>1
    <3>2. i + 1 \in Nat /\ n \in Nat
      BY <1>3
    <3>3. \A j \in 1 .. k : Pairs(nodes, n)[j] = Pairs(olds, i + 1)[j]
      BY <2>7
    <3> DEFINE o == i + 1
    <3>4. o \in Nat /\ 2 * k <= o
      BY <3>1, <3>2
    <3>5. SamePairs(nodes, n, olds, o, k)
      BY <3>3 DEF SamePairs
    <3> HIDE DEF k, o, m, up, upOld, half, r, Agree, Without
    <3> QED
      BY ONLY <3>1, <3>2, <3>4, <3>5, PairsAgree
  <2>10. CASE i % 2 = 1
    <3>1. /\ new[c + 1] = HashChildren(sibling[c + 1], new[c])
          /\ old[c + 1] = HashChildren(sibling[c + 1], old[c])
      <4>1. (c + 1) - 1 = c
        BY <1>10
      <4> QED
        BY <2>3, <2>8, <2>10, <4>1 DEF Joins
    <3>2. up[k + 1] = HashChildren(nodes[i], nodes[i + 1])
      BY <1>3, <2>10, PairAt
    <3>3. upOld[k + 1] = HashChildren(olds[i], olds[i + 1])
      <4>1. i + 1 \in Nat
        BY <2>1
      <4> QED
        BY <2>1, <2>10, <4>1, PairAt
    <3>4. /\ sibling[c + 1] = nodes[i] /\ new[c] = nodes[i + 1]
          /\ sibling[c + 1] = olds[i] /\ old[c] = olds[i + 1]
      <4> HIDE DEF up, upOld, k
      <4>1. /\ HashChildren(sibling[c + 1], new[c]) = HashChildren(nodes[i], nodes[i + 1])
            /\ HashChildren(sibling[c + 1], old[c]) = HashChildren(olds[i], olds[i + 1])
        BY <2>7, <3>1, <3>2, <3>3
      <4> QED
        BY <4>1, ChildrenDiffer
    <3>5. \A j \in 1 .. i : j \in 1 .. 2 * k \/ j = i
      BY <1>10, <2>10
    <3>6. \A j \in 1 .. i : nodes[j] = olds[j]
      <4> HIDE DEF k
      <4> QED
        BY <2>9, <3>4, <3>5
    <3> QED
      BY <1>12, <3>4, <3>6 DEF Stand
  <2>11. CASE i % 2 = 0
    <3>1. /\ new[c + 1] = HashChildren(new[c], sibling[c + 1])
          /\ old[c + 1] = old[c]
      <4>1. (c + 1) - 1 = c
        BY <1>10
      <4> QED
        BY <2>3, <2>8, <2>11, <4>1 DEF Joins
    <3>2. up[k + 1] = HashChildren(nodes[i + 1], nodes[i + 2])
      BY <1>3, <2>1, <2>11, PairAt
    <3>3. upOld[k + 1] = olds[i + 1]
      <4> DEFINE o == i + 1
      <4>1. o \in Nat /\ i \in 0 .. o - 1 /\ i = o - 1
        BY <2>1
      <4> HIDE DEF o
      <4>2. Pairs(olds, o)[i \div 2 + 1] = olds[i + 1]
        BY ONLY <2>11, <4>1, PairAt
      <4> QED
        BY <4>2 DEF o
    <3>4. new[c] = nodes[i + 1] /\ old[c] = olds[i + 1]
      <4> HIDE DEF up, upOld, k
      <4>1. HashChildren(new[c], sibling[c + 1]) = HashChildren(nodes[i + 1], nodes[i + 2])
        BY <2>7, <3>1, <3>2
      <4>2. new[c] = nodes[i + 1]
        BY <4>1, ChildrenDiffer
      <4> QED
        BY <2>7, <3>1, <3>3, <4>2
    <3>5. \A j \in 1 .. i : j \in 1 .. 2 * k
      BY <1>10, <2>11
    <3>6. \A j \in 1 .. i : nodes[j] = olds[j]
      <4> HIDE DEF k
      <4> QED
        BY <2>9, <3>5
    <3> QED
      BY <1>12, <3>4, <3>6 DEF Stand
  <2> QED
    BY <2>1, <2>10, <2>11
<1> QED
  BY <1>8, <1>9

\* The two inner chains of a cut, and what the border makes of them.
LEMMA ChainsJoin ==
  ASSUME NEW cut, cut.inner \in Nat, NEW seed, NEW proof
  PROVE  \E new, old, sibling :
           /\ new[0] = seed /\ old[0] = seed
           /\ Joins(new, old, sibling, cut.mask, cut.inner)
           /\ \A c \in 1 .. cut.inner : sibling[c] = proof[cut.start + c]
           /\ new[cut.inner] = ChainInner(cut, seed, proof)
           /\ old[cut.inner] = ChainInnerRight(cut, seed, proof)
<1> DEFINE last == cut.inner
           right == [i \in 1 .. cut.inner |-> IF Bit(cut.mask, i - 1) = 0 THEN "right" ELSE "left"]
           left == [i \in 1 .. cut.inner |-> IF Bit(cut.mask, i - 1) = 1 THEN "left" ELSE "none"]
           new == Chain(seed, proof, cut.start, last, right)
           old == Chain(seed, proof, cut.start, last, left)
           sibling == [c \in 1 .. last |-> proof[cut.start + c]]
<1>1. /\ new[last] = ChainInner(cut, seed, proof)
      /\ old[last] = ChainInnerRight(cut, seed, proof)
  BY DEF ChainInner, ChainInnerRight, Inner
<1>2. /\ new[0] = seed
      /\ \A c \in 1 .. last : new[c] = Join(right[c], new[c - 1], proof[cut.start + c])
  <2> HIDE DEF right, last
  <2>1. last \in Nat
    BY DEF last
  <2> QED
    BY <2>1, ChainDef
<1>3. /\ old[0] = seed
      /\ \A c \in 1 .. last : old[c] = Join(left[c], old[c - 1], proof[cut.start + c])
  <2> HIDE DEF left, last
  <2>1. last \in Nat
    BY DEF last
  <2> QED
    BY <2>1, ChainDef
<1> HIDE DEF new, old
<1>4. Joins(new, old, sibling, cut.mask, last)
  <2> SUFFICES ASSUME NEW c \in 1 .. last
               PROVE  /\ Bit(cut.mask, c - 1) = 1 =>
                           /\ new[c] = HashChildren(sibling[c], new[c - 1])
                           /\ old[c] = HashChildren(sibling[c], old[c - 1])
                      /\ Bit(cut.mask, c - 1) = 0 =>
                           /\ new[c] = HashChildren(new[c - 1], sibling[c])
                           /\ old[c] = old[c - 1]
    BY DEF Joins
  <2> DEFINE s == proof[cut.start + c]
             newSide == right[c]
             oldSide == left[c]
             newBefore == new[c - 1]
             oldBefore == old[c - 1]
  <2>1. /\ new[c] = Join(newSide, newBefore, s)
        /\ old[c] = Join(oldSide, oldBefore, s)
    BY <1>2, <1>3
  <2>2. sibling[c] = s
    OBVIOUS
  <2>3. ASSUME Bit(cut.mask, c - 1) = 1
        PROVE  newSide = "left" /\ oldSide = "left"
    BY <2>3
  <2>4. ASSUME Bit(cut.mask, c - 1) = 0
        PROVE  newSide = "right" /\ oldSide = "none"
    BY <2>4
  <2>5. ASSUME Bit(cut.mask, c - 1) = 1
        PROVE  /\ new[c] = HashChildren(sibling[c], new[c - 1])
               /\ old[c] = HashChildren(sibling[c], old[c - 1])
    <3> HIDE DEF s, newSide, oldSide, newBefore, oldBefore, sibling
    <3>1. /\ new[c] = HashChildren(s, newBefore)
          /\ old[c] = HashChildren(s, oldBefore)
      BY <2>1, <2>3, <2>5 DEF Join
    <3> QED
      BY <2>2, <3>1 DEF newBefore, oldBefore
  <2>6. ASSUME Bit(cut.mask, c - 1) = 0
        PROVE  /\ new[c] = HashChildren(new[c - 1], sibling[c])
               /\ old[c] = old[c - 1]
    <3> HIDE DEF s, newSide, oldSide, newBefore, oldBefore, sibling
    <3>1. new[c] = HashChildren(newBefore, s) /\ old[c] = oldBefore
      BY <2>1, <2>4, <2>6 DEF Join
    <3> QED
      BY <2>2, <3>1 DEF newBefore, oldBefore
  <2> QED
    BY <2>5, <2>6
<1>5. \A c \in 1 .. last : sibling[c] = proof[cut.start + c]
  OBVIOUS
<1> QED
  BY <1>1, <1>2, <1>3, <1>4, <1>5

\* The two chains of chain_border_right have the same siblings.
LEMMA BordersClimb ==
  ASSUME NEW cut, cut.border \in Nat, NEW newTop, NEW oldTop, NEW proof
  PROVE  \E new, old, sibling :
           /\ new[0] = newTop /\ old[0] = oldTop
           /\ Climbs(new, sibling, cut.border) /\ Climbs(old, sibling, cut.border)
           /\ \A c \in 1 .. cut.border : sibling[c] = proof[cut.start + cut.inner + c]
           /\ new[cut.border] = ChainBorderRight(cut, newTop, proof)
           /\ old[cut.border] = ChainBorderRight(cut, oldTop, proof)
<1> DEFINE last == cut.border
           out == cut.start + cut.inner
           left == [i \in 1 .. last |-> "left"]
           Border(top) == Chain(top, proof, out, last, left)
           sibling == [c \in 1 .. last |-> proof[out + c]]
<1>1. ASSUME NEW top
      PROVE  /\ Border(top)[0] = top
             /\ Climbs(Border(top), sibling, last)
             /\ Border(top)[last] = ChainBorderRight(cut, top, proof)
  <2> DEFINE hash == Border(top)
  <2>1. hash[last] = ChainBorderRight(cut, top, proof)
    BY DEF ChainBorderRight
  <2>2. /\ hash[0] = top
        /\ \A c \in 1 .. last : hash[c] = Join(left[c], hash[c - 1], proof[out + c])
    <3> HIDE DEF left, last, out
    <3>1. last \in Nat
      BY DEF last
    <3> QED
      BY <3>1, ChainDef
  <2> HIDE DEF hash, Border
  <2>3. ASSUME NEW c \in 1 .. last
        PROVE  hash[c] = HashChildren(sibling[c], hash[c - 1])
    <3> DEFINE s == proof[out + c]
               before == hash[c - 1]
               side == left[c]
    <3>1. side = "left" /\ sibling[c] = s
      OBVIOUS
    <3>2. hash[c] = Join(side, before, s)
      BY <2>2
    <3> HIDE DEF s, before, side, sibling
    <3>3. hash[c] = HashChildren(s, before)
      BY <3>1, <3>2 DEF Join
    <3> QED
      BY <3>1, <3>3 DEF before
  <2>4. Climbs(hash, sibling, last)
    BY <2>3 DEF Climbs
  <2> QED
    BY <2>1, <2>2, <2>4 DEF hash
<1>2. \A c \in 1 .. last : sibling[c] = proof[out + c]
  OBVIOUS
<1> HIDE DEF Border, sibling
<1> QED
  BY <1>1, <1>2

Grown(proof, oldRoot, newRoot, old, n) ==
  /\ OldRoot(Cut(old, n), proof, oldRoot) = oldRoot
  /\ NewRoot(Cut(old, n), proof, oldRoot) = newRoot

\* How the proof is cut if the older log has an odd size: nothing is shifted.
LEMMA OddCut ==
  ASSUME NEW n \in Nat, NEW old \in 1 .. n - 1, old % 2 = 1
  PROVE  LET cut == Cut(old, n)
             mask == old - 1
         IN /\ cut.start = (IF old = 1 THEN 0 ELSE 1)
            /\ cut.mask = mask /\ mask = Shifted[<<mask, 0>>]
            /\ cut.inner \in Nat /\ cut.inner = BitsApart[<<mask, n - 1>>]
            /\ Shifted[<<mask, cut.inner>>] \in Nat
            /\ cut.border \in Nat /\ cut.border = Ones[Shifted[<<mask, cut.inner>>]]
<1> DEFINE cut == Cut(old, n)
           mask == old - 1
           pair == <<mask, n - 1>>
           cutOff == <<mask, cut.inner>>
<1>1. old \in Nat /\ old > 0 /\ mask \in Nat /\ n \in Nat \ {0}
  OBVIOUS
<1>2. BitsApart[pair] \in Nat
  <2>1. pair \in Nat \X Nat
    BY <1>1
  <2> HIDE DEF pair
  <2> QED
    BY <2>1, BitsApartType
<1>3. TrailingZeros[old] = 0 /\ Power[0] = 1
  BY <1>1, TrailingZerosDef, PowerDef
<1>4. Shifted[<<mask, 0>>] = mask
  <2> DEFINE r == <<mask, 0>>
  <2>1. r \in Nat \X Nat /\ r[1] = mask /\ r[2] = 0
    BY <1>1
  <2> HIDE DEF r, mask
  <2>2. Shifted[r] = mask
    BY <2>1, ShiftedDef
  <2> QED
    BY <2>2 DEF r
<1>5. /\ cut.start = (IF old = 1 THEN 0 ELSE 1)
      /\ cut.inner = BitsApart[pair] /\ cut.mask = mask
  <2>1. cut.start = IF old = Power[TrailingZeros[old]] THEN 0 ELSE 1
    BY DEF Cut
  <2>2. cut.inner = IF BitsApart[pair] > TrailingZeros[old]
                    THEN BitsApart[pair] - TrailingZeros[old] ELSE 0
    BY DEF Cut
  <2>3. cut.mask = Shifted[<<mask, TrailingZeros[old]>>]
    BY DEF Cut
  <2> HIDE DEF cut, pair, mask
  <2> QED
    BY <1>2, <1>3, <1>4, <2>1, <2>2, <2>3
<1>6. cut.border = Ones[Shifted[cutOff]]
  <2>1. cut.border = Ones[Shifted[<<mask, BitsApart[pair]>>]]
    BY DEF Cut
  <2> HIDE DEF cut, pair, mask
  <2> QED
    BY <1>5, <2>1
<1> HIDE DEF cut
<1>7. Shifted[cutOff] \in Nat /\ cut.border \in Nat
  <2>1. cutOff \in Nat \X Nat
    BY <1>1, <1>2, <1>5
  <2> HIDE DEF cutOff
  <2>2. Shifted[cutOff] \in Nat
    BY <2>1, ShiftedType
  <2> QED
    BY <1>6, <2>2, OnesType
<1> HIDE DEF mask
<1> QED
  BY <1>2, <1>4, <1>5, <1>6, <1>7 DEF cut, mask

\* If the older log has an odd size, the proof starts at its last leaf.
LEMMA OddGrowth ==
  ASSUME NEW n \in Nat, NEW old \in 1 .. n - 1, old % 2 = 1,
         NEW proof, NEW oldRoot, NEW newRoot, Grown(proof, oldRoot, newRoot, old, n),
         NEW nodes, NEW olds, Rooted(newRoot, nodes, n), Rooted(oldRoot, olds, old)
  PROVE  \A j \in 1 .. old : nodes[j] = olds[j]
<1> DEFINE cut == Cut(old, n)
           mask == old - 1
           cutOff == <<mask, cut.inner>>
           seed == Seed(cut, proof, oldRoot)
<1>1. old \in Nat /\ old > 0 /\ mask \in Nat /\ n \in Nat \ {0} /\ mask \in 0 .. n - 1
  OBVIOUS
<1>2. /\ cut.mask = mask /\ mask = Shifted[<<mask, 0>>]
      /\ cut.inner \in Nat /\ cut.inner = BitsApart[<<mask, n - 1>>]
      /\ Shifted[cutOff] \in Nat
      /\ cut.border \in Nat /\ cut.border = Ones[Shifted[cutOff]]
  BY OddCut
<1>3. OldRoot(cut, proof, oldRoot) = oldRoot /\ NewRoot(cut, proof, oldRoot) = newRoot
  BY DEF Grown
<1> HIDE DEF cut
<1>4. PICK new, last, sibling :
        /\ new[0] = seed /\ last[0] = seed
        /\ Joins(new, last, sibling, cut.mask, cut.inner)
        /\ \A c \in 1 .. cut.inner : sibling[c] = proof[cut.start + c]
        /\ new[cut.inner] = ChainInner(cut, seed, proof)
        /\ last[cut.inner] = ChainInnerRight(cut, seed, proof)
  <2>1. cut.inner \in Nat
    BY <1>2
  <2> HIDE DEF seed
  <2> QED
    BY ONLY <2>1, ChainsJoin
<1> DEFINE newTop == new[cut.inner]
           oldTop == last[cut.inner]
<1>5. PICK above, aboveOld, left :
        /\ above[0] = newTop /\ aboveOld[0] = oldTop
        /\ Climbs(above, left, cut.border) /\ Climbs(aboveOld, left, cut.border)
        /\ \A c \in 1 .. cut.border : left[c] = proof[cut.start + cut.inner + c]
        /\ above[cut.border] = ChainBorderRight(cut, newTop, proof)
        /\ aboveOld[cut.border] = ChainBorderRight(cut, oldTop, proof)
  <2> HIDE DEF newTop, oldTop
  <2> QED
    BY <1>2, BordersClimb
<1>6. above[cut.border] = newRoot /\ aboveOld[cut.border] = oldRoot
  BY <1>3, <1>4, <1>5 DEF OldRoot, NewRoot
<1> DEFINE i == Shifted[cutOff]
<1>7. Tops(newTop, oldTop, newRoot, oldRoot, i)
  <2> HIDE DEF newTop, oldTop, i, cutOff
  <2>1. i + 1 \in Nat \ {0} /\ (i + 1) - 1 = i /\ 0 \in 0 .. cut.border
        /\ cut.border - 0 = Ones[(i + 1) - 1]
    BY <1>2 DEF i
  <2>2. EdgesAgree(above, aboveOld, cut.border, i + 1)
    BY <1>2, <1>5, <2>1, BorderAgrees
  <2>3. SUFFICES ASSUME NEW x, NEW y, Rooted(newRoot, x, i + 1), Rooted(oldRoot, y, i + 1)
                 PROVE  Stand(newTop, oldTop, x, y, i)
    BY <2>3 DEF Tops
  <2>4. /\ above[cut.border] = Roots(x, i + 1)[<<0, i + 1>>]
        /\ aboveOld[cut.border] = Roots(y, i + 1)[<<0, i + 1>>]
    BY <1>6, <2>3 DEF Rooted
  <2>5. /\ above[0] = x[i + 1] /\ aboveOld[0] = y[i + 1]
        /\ \A j \in 1 .. (i + 1) - 1 : x[j] = y[j]
    BY <2>1, <2>2, <2>4 DEF EdgesAgree
  <2> QED
    BY <1>5, <2>1, <2>5 DEF Stand
<1>8. LevelsAgree(new, last, mask, cut.inner, newRoot, oldRoot, n)
  <2>1. Joins(new, last, sibling, mask, cut.inner)
    BY <1>2, <1>4
  <2>2. Tops(new[cut.inner], last[cut.inner], newRoot, oldRoot, Shifted[<<mask, cut.inner>>])
    BY <1>7
  <2>3. cut.inner \in Nat
    BY <1>2
  <2> HIDE DEF mask
  <2> QED
    BY <1>1, <2>1, <2>2, <2>3, InnerAgrees
<1>9. Stand(new[0], last[0], nodes, olds, mask)
  <2>1. mask + 1 = old
    OBVIOUS
  <2>2. /\ 0 \in 0 .. cut.inner /\ mask = Shifted[<<mask, 0>>]
        /\ cut.inner - 0 = BitsApart[<<mask, n - 1>>]
    BY <1>2
  <2>3. Rooted(oldRoot, olds, mask + 1)
    BY <2>1
  <2> HIDE DEF mask
  <2> QED
    BY <1>1, <1>8, <2>2, <2>3 DEF LevelsAgree
<1>10. nodes[old] = olds[old] /\ \A j \in 1 .. old - 1 : nodes[j] = olds[j]
  <2>1. nodes[mask + 1] = olds[mask + 1] /\ \A j \in 1 .. mask : nodes[j] = olds[j]
    <3> HIDE DEF mask
    <3> QED
      BY <1>4, <1>9 DEF Stand
  <2>2. mask + 1 = old
    OBVIOUS
  <2> QED
    BY <2>1, <2>2
<1>11. \A j \in 1 .. old : j \in 1 .. old - 1 \/ j = old
  BY <1>1
<1> QED
  BY <1>10, <1>11

\* If it is even, the proof is cut as it is for the logs of the pairs.
LEMMA HalfCut ==
  ASSUME NEW n \in Nat, NEW old \in 1 .. n - 1, old % 2 = 0
  PROVE  Cut(old, n) = Cut(old \div 2, (n + 1) \div 2)
<1> DEFINE k == old \div 2
           m == (n + 1) \div 2
           shift == TrailingZeros[k]
           half == <<k - 1, m - 1>>
           pair == <<old - 1, n - 1>>
           apart == BitsApart[half]
<1>1. /\ old \in Nat \ {0} /\ k \in Nat \ {0} /\ old = 2 * k
      /\ (old - 1) \div 2 = k - 1 /\ (n - 1) \div 2 = m - 1 /\ m - 1 \in Nat /\ k - 1 \in Nat
      /\ old - 1 \in Nat /\ n - 1 \in Nat /\ old - 1 # n - 1
  OBVIOUS
<1>2. TrailingZeros[old] = 1 + shift /\ shift \in Nat
  <2>1. TrailingZeros[old] = 1 + TrailingZeros[old \div 2]
    BY <1>1, TrailingZerosDef
  <2>2. shift \in Nat
    <3> HIDE DEF k
    <3> QED
      BY <1>1, TrailingZerosType
  <2> QED
    BY <2>1, <2>2
<1>3. BitsApart[pair] = 1 + apart /\ apart \in Nat
  <2>1. /\ pair \in Nat \X Nat /\ pair[1] = old - 1 /\ pair[2] = n - 1 /\ pair[1] # pair[2]
        /\ half \in Nat \X Nat
        /\ <<pair[1] \div 2, pair[2] \div 2>> = half
    BY <1>1
  <2> HIDE DEF pair, half
  <2>2. BitsApart[pair] = 1 + BitsApart[<<pair[1] \div 2, pair[2] \div 2>>]
    BY <2>1, BitsApartDef
  <2> QED
    BY <2>1, <2>2, BitsApartType
<1>4. \A i \in Nat : Shifted[<<old - 1, 1 + i>>] = Shifted[<<k - 1, i>>]
  <2> TAKE i \in Nat
  <2> DEFINE o == old - 1
  <2>1. o \in Nat /\ o \div 2 = k - 1 /\ 1 + i = i + 1
    BY <1>1
  <2> HIDE DEF o, k
  <2>2. Shifted[<<o, i + 1>>] = Shifted[<<o \div 2, i>>]
    BY <2>1, ShiftedHalf
  <2>3. Shifted[<<o, 1 + i>>] = Shifted[<<k - 1, i>>]
    BY <2>1, <2>2
  <2> QED
    BY <2>3 DEF o
<1>5. old = Power[1 + shift] <=> k = Power[shift]
  <2> DEFINE s == 1 + shift
  <2>1. s \in Nat /\ s # 0 /\ s - 1 = shift
    BY <1>2
  <2>2. Power[s] = 2 * Power[shift] /\ Power[shift] \in Nat
    <3> HIDE DEF s, shift
    <3>1. Power[s] = 2 * Power[s - 1]
      BY <2>1, PowerDef
    <3> QED
      BY <1>2, <2>1, <3>1, PowerType
  <2> HIDE DEF k, shift
  <2> QED
    BY <1>1, <2>2
<1>6. /\ (IF old = Power[1 + shift] THEN 0 ELSE 1) = (IF k = Power[shift] THEN 0 ELSE 1)
      /\ (IF 1 + apart > 1 + shift THEN (1 + apart) - (1 + shift) ELSE 0)
           = (IF apart > shift THEN apart - shift ELSE 0)
      /\ Ones[Shifted[<<old - 1, 1 + apart>>]] = Ones[Shifted[<<k - 1, apart>>]]
      /\ Shifted[<<old - 1, 1 + shift>>] = Shifted[<<k - 1, shift>>]
  <2> HIDE DEF apart, shift, k
  <2> QED
    BY <1>2, <1>3, <1>4, <1>5
<1>7. Cut(old, n) =
        [start  |-> IF old = Power[1 + shift] THEN 0 ELSE 1,
         inner  |-> IF 1 + apart > 1 + shift THEN (1 + apart) - (1 + shift) ELSE 0,
         border |-> Ones[Shifted[<<old - 1, 1 + apart>>]],
         mask   |-> Shifted[<<old - 1, 1 + shift>>]]
  <2>1. Cut(old, n) =
          [start  |-> IF old = Power[TrailingZeros[old]] THEN 0 ELSE 1,
           inner  |-> IF BitsApart[pair] > TrailingZeros[old]
                      THEN BitsApart[pair] - TrailingZeros[old] ELSE 0,
           border |-> Ones[Shifted[<<old - 1, BitsApart[pair]>>]],
           mask   |-> Shifted[<<old - 1, TrailingZeros[old]>>]]
    BY DEF Cut
  <2> HIDE DEF pair, apart, shift
  <2> QED
    BY <1>2, <1>3, <2>1
<1>8. Cut(k, m) =
        [start  |-> IF k = Power[shift] THEN 0 ELSE 1,
         inner  |-> IF apart > shift THEN apart - shift ELSE 0,
         border |-> Ones[Shifted[<<k - 1, apart>>]],
         mask   |-> Shifted[<<k - 1, shift>>]]
  BY DEF Cut
<1> HIDE DEF apart, shift, k, m
<1>9. Cut(old, n) = Cut(k, m)
  BY <1>6, <1>7, <1>8
<1> QED
  BY <1>9 DEF k, m

\* What is accepted as growth keeps the nodes of the older log, whatever the proof.
Grows(proof, oldRoot, newRoot, n) ==
  \A nodes, olds : \A old \in 1 .. n - 1 :
    /\ Grown(proof, oldRoot, newRoot, old, n)
    /\ Rooted(newRoot, nodes, n) /\ Rooted(oldRoot, olds, old)
    => \A j \in 1 .. old : nodes[j] = olds[j]

\* By descent to the smallest newer log: halved while the older size is even.
LEMMA GrowthAgrees ==
  ASSUME NEW proof, NEW oldRoot, NEW newRoot
  PROVE  \A n \in Nat : Grows(proof, oldRoot, newRoot, n)
<1> DEFINE Grow(n) == Grows(proof, oldRoot, newRoot, n)
           Without == {n \in Nat : ~Grow(n)}
<1>1. SUFFICES ASSUME Without # {}
               PROVE  FALSE
  BY <1>1
<1>2. PICK n \in Without : \A m \in Without : n <= m
  <2>1. Without \subseteq Nat
    OBVIOUS
  <2> HIDE DEF Without
  <2> QED
    BY <1>1, <2>1, LeastNumber
<1>3. n \in Nat /\ ~Grow(n)
  OBVIOUS
<1> DEFINE Right(nodes, olds, old) ==
             Grown(proof, oldRoot, newRoot, old, n)
               /\ Rooted(newRoot, nodes, n) /\ Rooted(oldRoot, olds, old)
               => \A j \in 1 .. old : nodes[j] = olds[j]
<1>4. PICK nodes, olds : \E old \in 1 .. n - 1 : ~Right(nodes, olds, old)
  <2>1. ASSUME \A nodes, olds : \A old \in 1 .. n - 1 : Right(nodes, olds, old)
        PROVE  Grow(n)
    BY ONLY <2>1, Zenon DEF Grows
  <2> HIDE DEF Grow, Right
  <2> QED
    BY <1>3, <2>1
<1>5. PICK old \in 1 .. n - 1 : ~Right(nodes, olds, old)
  BY <1>4
<1>6. /\ Grown(proof, oldRoot, newRoot, old, n)
      /\ Rooted(newRoot, nodes, n) /\ Rooted(oldRoot, olds, old)
      /\ ~\A j \in 1 .. old : nodes[j] = olds[j]
  BY <1>5
<1> HIDE DEF Right
<1>7. CASE old % 2 = 1
  BY <1>3, <1>6, <1>7, OddGrowth
<1>8. CASE old % 2 = 0
  <2> DEFINE k == old \div 2
             m == (n + 1) \div 2
             up == Pairs(nodes, n)
             upOld == Pairs(olds, old)
  <2>1. /\ old \in Nat \ {0} /\ n \in Nat \ {0} /\ k \in 1 .. m - 1 /\ k \in Nat /\ old = 2 * k
        /\ m \in Nat /\ m < n /\ (old + 1) \div 2 = k /\ old <= n
    BY <1>3, <1>8
  <2>2. Grown(proof, oldRoot, newRoot, k, m)
    <3>1. Cut(old, n) = Cut(k, m)
      BY <1>3, <1>8, HalfCut
    <3> HIDE DEF k, m
    <3> QED
      BY <1>6, <3>1 DEF Grown
  <2>3. Rooted(newRoot, up, m)
    <3>1. newRoot = Roots(up, m)[<<0, m>>]
      BY <1>6, <2>1, LevelRoot DEF Rooted
    <3> HIDE DEF m, up
    <3> QED
      BY <3>1 DEF Rooted
  <2>4. Rooted(oldRoot, upOld, k)
    <3>1. Roots(olds, old)[<<0, old>>]
            = Roots(upOld, (old + 1) \div 2)[<<0, (old + 1) \div 2>>]
      BY <2>1, LevelRoot
    <3> HIDE DEF k, upOld
    <3> QED
      BY <1>6, <2>1, <3>1 DEF Rooted
  <2>5. Grow(m)
    <3> HIDE DEF m, Grow
    <3>1. m \notin Without
      <4> HIDE DEF Without
      <4> QED
        BY <1>2, <1>3, <2>1
    <3> QED
      BY <2>1, <3>1
  <2>6. \A j \in 1 .. k : up[j] = upOld[j]
    <3> HIDE DEF m, k, up, upOld
    <3> QED
      BY <2>1, <2>2, <2>3, <2>4, <2>5 DEF Grows
  <2>7. SamePairs(nodes, n, olds, old, k)
    BY <2>6 DEF SamePairs
  <2>8. \A j \in 1 .. 2 * k : nodes[j] = olds[j]
    <3> HIDE DEF k
    <3> QED
      BY <2>1, <2>7, PairsAgree
  <2> HIDE DEF k
  <2> QED
    BY <1>6, <2>1, <2>8
<1>9. old % 2 = 0 \/ old % 2 = 1
  BY <1>3
<1> QED
  BY <1>7, <1>8, <1>9

\* A newer root is accepted after an older one only for a log that the older one is
\* a prefix of.
LEMMA AcceptedIsPrefix ==
  ASSUME NEW S, NEW older \in Seq(S), NEW newer \in Seq(S), NEW proof,
         VerifyConsistency(Len(older), Len(newer), proof, MTH(older), MTH(newer))
  PROVE  SubSeq(newer, 1, Len(older)) = older
<1> DEFINE o == Len(older)
           n == Len(newer)
           olds == Leaves(older)
           nodes == Leaves(newer)
<1>1. o \in Nat /\ n \in Nat /\ DOMAIN older = 1 .. o /\ DOMAIN newer = 1 .. n
  OBVIOUS
<1>2. MTH(older) = Roots(olds, o)[<<0, o>>] /\ MTH(newer) = Roots(nodes, n)[<<0, n>>]
  BY DEF MTH, Subtree, Subtrees
<1>3. o <= n /\ \A j \in 1 .. o : nodes[j] = olds[j]
  <2>1. CASE o = 0
    BY <1>1, <2>1
  <2>2. CASE o > 0 /\ o = n /\ MTH(older) = MTH(newer)
    <3>1. o \in Nat \ {0} /\ Roots(nodes, o)[<<0, o>>] = Roots(olds, o)[<<0, o>>]
      BY <1>1, <1>2, <2>2
    <3> HIDE DEF o, olds, nodes
    <3>2. \A j \in 1 .. o : nodes[j] = olds[j]
      BY <3>1, SameRootSameNodes
    <3> QED
      BY <1>1, <2>2, <3>2
  <2>3. CASE 0 < o /\ o < n /\ VerifyGrowth(o, n, proof, MTH(older), MTH(newer))
    <3> DEFINE oldRoot == MTH(older)
               newRoot == MTH(newer)
    <3>1. Grown(proof, oldRoot, newRoot, o, n)
      BY <2>3 DEF VerifyGrowth, Grown
    <3>2. Rooted(newRoot, nodes, n) /\ Rooted(oldRoot, olds, o) /\ o \in 1 .. n - 1
      BY <1>1, <1>2, <2>3 DEF Rooted
    <3> HIDE DEF oldRoot, newRoot, o, n, olds, nodes
    <3>3. Grows(proof, oldRoot, newRoot, n)
      BY <1>1, GrowthAgrees
    <3>4. \A j \in 1 .. o : nodes[j] = olds[j]
      BY <3>1, <3>2, <3>3 DEF Grows
    <3> QED
      BY <1>1, <2>3, <3>4
  <2> QED
    BY <2>1, <2>2, <2>3 DEF VerifyConsistency
<1>4. ASSUME NEW j \in 1 .. o
      PROVE  newer[j] = older[j]
  <2>1. nodes[j] = <<newer[j]>> /\ olds[j] = <<older[j]>>
    BY <1>1, <1>3 DEF Leaves, HashLeaf
  <2>2. <<newer[j]>> = <<older[j]>>
    <3> HIDE DEF nodes, olds
    <3> QED
      BY <1>3, <2>1
  <2> QED
    BY <2>2
<1>5. /\ SubSeq(newer, 1, o) \in Seq(S) /\ Len(SubSeq(newer, 1, o)) = o
      /\ \A j \in 1 .. o : SubSeq(newer, 1, o)[j] = newer[j]
  <2>1. 1 \in Int /\ o \in Int /\ \A j \in 1 .. o : j \in 1 .. n
    BY <1>1, <1>3
  <2> QED
    BY <1>1, <1>3, <2>1
<1> DEFINE prefix == SubSeq(newer, 1, o)
<1>6. prefix \in Seq(S) /\ Len(prefix) = Len(older) /\ \A j \in 1 .. Len(prefix) : prefix[j] = older[j]
  <2> HIDE DEF prefix
  <2>1. prefix \in Seq(S) /\ Len(prefix) = o /\ \A j \in 1 .. o : prefix[j] = newer[j]
    BY <1>5 DEF prefix
  <2> QED
    BY <1>4, <2>1
<1>7. prefix = older
  <2> HIDE DEF prefix
  <2> QED
    BY <1>6, SeqEqual
<1> QED
  BY <1>7

-----------------------------------------------------------------------------
(* What the log sends.                                                     *)

Ranges(n) == (0 .. n) \X (0 .. n)
Middle(r) == r[1] + Split[r[2] - r[1]]
LeftPart(r) == <<r[1], Middle(r)>>
RightPart(r) == <<Middle(r), r[2]>>
Short(r) == r[2] <= r[1] + 1

\* The roots over the ranges of the first n leaves.
Hashes(root, n) == {root[r] : r \in Ranges(n)}

\* The parts of a range that is not short.
LEMMA PartsOf ==
  ASSUME NEW n \in Nat, NEW r \in Ranges(n), ~Short(r)
  PROVE  /\ LeftPart(r) \in Ranges(n) /\ RightPart(r) \in Ranges(n)
         /\ Middle(r) \in 0 .. n /\ r[1] < Middle(r) /\ Middle(r) < r[2]
         /\ r[1] \in 0 .. n /\ r[2] \in 0 .. n
<1> DEFINE mid == Middle(r)
<1>1. r \in (0 .. n) \X (0 .. n) /\ r[1] \in 0 .. n /\ r[2] \in 0 .. n /\ r[2] > r[1] + 1
  BY DEF Ranges, Short
<1>2. mid = r[1] + Split[r[2] - r[1]]
  BY DEF Middle
<1> HIDE DEF mid
<1>3. /\ <<r[1], mid>> \in (0 .. n) \X (0 .. n) /\ <<mid, r[2]>> \in (0 .. n) \X (0 .. n)
      /\ r[1] < mid /\ mid < r[2]
  BY <1>1, <1>2, PartsAreShorter
<1>4. mid \in 0 .. n
  BY <1>3
<1> QED
  BY <1>1, <1>3, <1>4 DEF LeftPart, RightPart, Ranges, mid

\* What is put together by appending roots is a sequence of roots.
LEMMA WalkType ==
  ASSUME NEW root, NEW n \in Nat, NEW walk,
         \A r \in Ranges(n) :
           \/ walk[r] \in Seq(Hashes(root, n))
           \/ /\ ~Short(r)
              /\ \/ walk[r] = Append(walk[LeftPart(r)], root[RightPart(r)])
                 \/ walk[r] = Append(walk[RightPart(r)], root[LeftPart(r)])
  PROVE  \A r \in Ranges(n) : walk[r] \in Seq(Hashes(root, n))
<1> DEFINE V == Hashes(root, n)
           width(r) == n + r[2] - r[1]
           Without == {width(r) : r \in {x \in Ranges(n) : walk[x] \notin Seq(V)}}
<1>1. \A r \in Ranges(n) : root[r] \in V
  BY DEF Hashes
<1>2. \A r \in Ranges(n) : width(r) \in Nat
  BY DEF Ranges
<1>3. SUFFICES ASSUME Without # {}
               PROVE  FALSE
  BY <1>3
<1>4. PICK w \in Without : \A v \in Without : w <= v
  <2>1. Without \subseteq Nat
    <3> HIDE DEF width
    <3> QED
      BY <1>2
  <2> HIDE DEF Without
  <2> QED
    BY <1>3, <2>1, LeastNumber
<1>5. PICK r \in Ranges(n) : walk[r] \notin Seq(V) /\ w = width(r)
  OBVIOUS
<1> DEFINE l == LeftPart(r)
           h == RightPart(r)
<1>6. ~Short(r)
  BY <1>5
<1>7. l \in Ranges(n) /\ h \in Ranges(n) /\ width(l) < width(r) /\ width(h) < width(r)
  <2>1. /\ l \in Ranges(n) /\ h \in Ranges(n)
        /\ Middle(r) \in 0 .. n /\ r[1] < Middle(r) /\ Middle(r) < r[2]
        /\ r[1] \in 0 .. n /\ r[2] \in 0 .. n
    BY <1>6, PartsOf
  <2>2. l[1] = r[1] /\ l[2] = Middle(r) /\ h[1] = Middle(r) /\ h[2] = r[2]
    BY DEF LeftPart, RightPart
  <2> HIDE DEF l, h
  <2> QED
    BY <2>1, <2>2
<1>8. walk[l] \in Seq(V) /\ walk[h] \in Seq(V)
  <2>1. ASSUME NEW q \in Ranges(n), width(q) < width(r)
        PROVE  walk[q] \in Seq(V)
    <3>1. width(q) \notin Without
      <4> HIDE DEF Without, width
      <4> QED
        BY <1>2, <1>4, <1>5, <2>1
    <3> HIDE DEF width, V
    <3> QED
      BY <3>1
  <2> HIDE DEF l, h, width, V, Without
  <2> QED
    BY <1>7, <2>1
<1>9. walk[r] = Append(walk[l], root[h]) \/ walk[r] = Append(walk[h], root[l])
  BY <1>5
<1> HIDE DEF V, l, h, width, Without
<1>10. root[l] \in V /\ root[h] \in V
  BY <1>1, <1>7
<1>11. Append(walk[l], root[h]) \in Seq(V) /\ Append(walk[h], root[l]) \in Seq(V)
  BY <1>8, <1>10
<1> QED
  BY <1>5, <1>9, <1>11

\* A walk goes from a range into one of its parts and notes the root of the other.
Walks(f, root, n, Stop, left, base) ==
  /\ f \in [Ranges(n) -> Seq(Hashes(root, n))]
  /\ \A r \in Ranges(n) :
       f[r] = IF r \in Stop THEN base[r]
              ELSE IF left[r] THEN Append(f[LeftPart(r)], root[RightPart(r)])
              ELSE Append(f[RightPart(r)], root[LeftPart(r)])

\* There is one for any choice of parts, since they are shorter.
LEMMA WalkExists ==
  ASSUME NEW root, NEW n \in Nat, NEW Stop, NEW left \in [Ranges(n) -> BOOLEAN],
         NEW base \in [Ranges(n) -> Seq(Hashes(root, n))],
         \A r \in Ranges(n) : Short(r) => r \in Stop
  PROVE  \E f : Walks(f, root, n, Stop, left, base)
<1> DEFINE D == Ranges(n)
           V == Seq(Hashes(root, n))
           rank == [r \in D |-> IF r[2] <= r[1] THEN 0 ELSE r[2] - r[1]]
           pred == [r \in D |-> IF r \in Stop THEN r
                                ELSE IF left[r] THEN LeftPart(r) ELSE RightPart(r)]
           other(r) == IF left[r] THEN RightPart(r) ELSE LeftPart(r)
           step == [x \in D \X V |-> IF x[1] \in Stop THEN x[2]
                                     ELSE Append(x[2], root[other(x[1])])]
<1>1. ASSUME NEW r \in D, r \notin Stop
      PROVE  /\ LeftPart(r) \in D /\ RightPart(r) \in D
             /\ rank[LeftPart(r)] < rank[r] /\ rank[RightPart(r)] < rank[r]
  <2> DEFINE mid == Middle(r)
             l == LeftPart(r)
             h == RightPart(r)
  <2>1. r[2] > r[1] + 1 /\ r[1] \in 0 .. n /\ r[2] \in 0 .. n
    <3>1. r[1] \in 0 .. n /\ r[2] \in 0 .. n /\ ~Short(r)
      BY <1>1 DEF Ranges
    <3> QED
      BY <3>1 DEF Short
  <2>2. l \in D /\ h \in D /\ r[1] < mid /\ mid < r[2]
    <3>1. r \in (0 .. n) \X (0 .. n) /\ mid = r[1] + Split[r[2] - r[1]]
      BY DEF Ranges, Middle
    <3> HIDE DEF mid
    <3> QED
      BY <2>1, <3>1, PartsAreShorter DEF LeftPart, RightPart, Ranges, mid
  <2>3. l[1] = r[1] /\ l[2] = mid /\ h[1] = mid /\ h[2] = r[2]
    BY DEF LeftPart, RightPart
  <2>4. mid \in Int
    BY <2>2, <2>3 DEF Ranges
  <2> HIDE DEF l, h, mid
  <2>5. rank[l] < rank[r] /\ rank[h] < rank[r]
    BY <2>1, <2>2, <2>3, <2>4
  <2> QED
    BY <2>2, <2>5 DEF l, h
<1>2. rank \in [D -> Nat]
  BY DEF Ranges
<1>3. pred \in [D -> D] /\ \A r \in D \ Stop : rank[pred[r]] < rank[r]
  <2> HIDE DEF D, rank
  <2> QED
    BY <1>1
<1>4. step \in [D \X V -> V]
  <2> SUFFICES ASSUME NEW r \in D, NEW q \in V, r \notin Stop
               PROVE  Append(q, root[other(r)]) \in V
    OBVIOUS
  <2>1. other(r) \in D
    BY <1>1
  <2>2. root[other(r)] \in Hashes(root, n)
    <3> HIDE DEF other
    <3> QED
      BY <2>1 DEF Hashes
  <2> HIDE DEF other
  <2> QED
    BY <2>2
<1>5. PICK f : Solves(f, D, Stop, pred, base, step, V)
  <2>1. Descends(D, rank, Stop, pred, base, step, V)
    <3>1. base \in [D -> V]
      OBVIOUS
    <3> HIDE DEF D, V, rank, pred, step
    <3> QED
      BY <1>2, <1>3, <1>4, <3>1 DEF Descends
  <2> HIDE DEF D, V, rank, pred, step
  <2> QED
    BY <2>1, DescentExists
<1>6. f \in [D -> V]
  BY <1>5 DEF Solves
<1>7. ASSUME NEW r \in D
      PROVE  f[r] = IF r \in Stop THEN base[r]
                    ELSE IF left[r] THEN Append(f[LeftPart(r)], root[RightPart(r)])
                    ELSE Append(f[RightPart(r)], root[LeftPart(r)])
  <2>1. CASE r \in Stop
    <3> HIDE DEF D, V, pred, step
    <3> QED
      BY <1>5, <2>1 DEF Solves
  <2>2. CASE r \notin Stop
    <3> DEFINE q == pred[r]
    <3>1. q = IF left[r] THEN LeftPart(r) ELSE RightPart(r)
      BY <2>2
    <3>2. q \in D /\ f[q] \in V
      BY <1>1, <1>6, <2>2, <3>1
    <3>3. f[r] = step[<<r, f[q]>>]
      <4> HIDE DEF D, V, pred, step
      <4> QED
        BY <1>5, <2>2 DEF Solves, q
    <3> HIDE DEF q, D, V
    <3>4. step[<<r, f[q]>>] = Append(f[q], root[other(r)])
      BY <2>2, <3>2
    <3> QED
      BY <2>2, <3>1, <3>3, <3>4
  <2> QED
    BY <2>1, <2>2
<1> QED
  BY <1>6, <1>7 DEF Walks

PathOver(path, root, m, r) ==
  IF Short(r) THEN <<>>
  ELSE IF m < Middle(r) THEN Append(path[LeftPart(r)], root[RightPart(r)])
  ELSE Append(path[RightPart(r)], root[LeftPart(r)])

\* Paths obeys its definition.
LEMMA PathsDef ==
  ASSUME NEW root, NEW m \in Nat, NEW n \in Nat
  PROVE  LET path == Paths(root, m, n)
         IN \A r \in Ranges(n) : /\ path[r] \in Seq(Hashes(root, n))
                                 /\ path[r] = PathOver(path, root, m, r)
<1> DEFINE Stop == {r \in Ranges(n) : Short(r)}
           left == [r \in Ranges(n) |-> m < Middle(r)]
           base == [r \in Ranges(n) |-> <<>>]
           path == Paths(root, m, n)
<1>1. PICK f : Walks(f, root, n, Stop, left, base)
  <2>1. left \in [Ranges(n) -> BOOLEAN] /\ base \in [Ranges(n) -> Seq(Hashes(root, n))]
    OBVIOUS
  <2>2. \A r \in Ranges(n) : Short(r) => r \in Stop
    OBVIOUS
  <2> HIDE DEF Stop, left, base
  <2> QED
    BY <2>1, <2>2, WalkExists
<1>2. \A r \in Ranges(n) : f[r] = PathOver(f, root, m, r)
  BY <1>1 DEF Walks, PathOver
<1>3. f \in [Ranges(n) -> Seq(Hashes(root, n))]
  BY <1>1 DEF Walks
<1>4. f = [r \in Ranges(n) |-> PathOver(f, root, m, r)]
  BY <1>2, <1>3
<1>5. path = CHOOSE g : g = [r \in Ranges(n) |-> PathOver(g, root, m, r)]
  BY DEF Paths, PathOver, Ranges, Short, Middle, LeftPart, RightPart
<1> HIDE DEF path
<1>6. path = [r \in Ranges(n) |-> PathOver(path, root, m, r)]
  BY <1>4, <1>5
<1>7. ASSUME NEW r \in Ranges(n)
      PROVE  path[r] = PathOver(path, root, m, r)
  BY <1>6
<1>8. \A r \in Ranges(n) :
        \/ path[r] \in Seq(Hashes(root, n))
        \/ /\ ~Short(r)
           /\ \/ path[r] = Append(path[LeftPart(r)], root[RightPart(r)])
              \/ path[r] = Append(path[RightPart(r)], root[LeftPart(r)])
  <2>1. \A r \in Ranges(n) :
          \/ PathOver(path, root, m, r) \in Seq(Hashes(root, n))
          \/ /\ ~Short(r)
             /\ \/ PathOver(path, root, m, r) = Append(path[LeftPart(r)], root[RightPart(r)])
                \/ PathOver(path, root, m, r) = Append(path[RightPart(r)], root[LeftPart(r)])
    BY DEF PathOver
  <2> QED
    BY <1>7, <2>1
<1>9. \A r \in Ranges(n) : path[r] \in Seq(Hashes(root, n))
  BY <1>8, WalkType
<1> QED
  BY <1>7, <1>9 DEF path

SubOver(sub, root, m, r) ==
  IF r[2] = m THEN IF r[1] = 0 THEN <<>> ELSE <<root[r]>>
  ELSE IF Short(r) THEN <<>>
  ELSE IF m <= Middle(r) THEN Append(sub[LeftPart(r)], root[RightPart(r)])
  ELSE Append(sub[RightPart(r)], root[LeftPart(r)])

\* SubProofs obeys its definition.
LEMMA SubProofsDef ==
  ASSUME NEW root, NEW m \in Nat, NEW n \in Nat
  PROVE  LET sub == SubProofs(root, m, n)
         IN \A r \in Ranges(n) : /\ sub[r] \in Seq(Hashes(root, n))
                                 /\ sub[r] = SubOver(sub, root, m, r)
<1> DEFINE V == Seq(Hashes(root, n))
           Stop == {r \in Ranges(n) : r[2] = m \/ Short(r)}
           left == [r \in Ranges(n) |-> m <= Middle(r)]
           base == [r \in Ranges(n) |-> IF r[2] = m /\ r[1] # 0 THEN <<root[r]>> ELSE <<>>]
           sub == SubProofs(root, m, n)
<1>1. \A r \in Ranges(n) : <<root[r]>> \in V /\ <<>> \in V
  BY DEF Hashes
<1>2. PICK f : Walks(f, root, n, Stop, left, base)
  <2>1. left \in [Ranges(n) -> BOOLEAN] /\ base \in [Ranges(n) -> V]
    <3> HIDE DEF V
    <3> QED
      BY <1>1
  <2>2. \A r \in Ranges(n) : Short(r) => r \in Stop
    OBVIOUS
  <2> HIDE DEF Stop, left, base
  <2> QED
    BY <2>1, <2>2, WalkExists
<1>3. \A r \in Ranges(n) : f[r] = SubOver(f, root, m, r)
  <2> SUFFICES ASSUME NEW r \in Ranges(n)
               PROVE  f[r] = SubOver(f, root, m, r)
    OBVIOUS
  <2>1. f[r] = IF r \in Stop THEN base[r]
               ELSE IF left[r] THEN Append(f[LeftPart(r)], root[RightPart(r)])
               ELSE Append(f[RightPart(r)], root[LeftPart(r)])
    BY <1>2 DEF Walks
  <2>2. /\ r \in Stop <=> r[2] = m \/ Short(r)
        /\ base[r] = IF r[2] = m /\ r[1] # 0 THEN <<root[r]>> ELSE <<>>
        /\ left[r] <=> m <= Middle(r)
    OBVIOUS
  <2> HIDE DEF Stop, base, left
  <2> QED
    BY <2>1, <2>2 DEF SubOver
<1>4. f \in [Ranges(n) -> V]
  BY <1>2 DEF Walks
<1>5. f = [r \in Ranges(n) |-> SubOver(f, root, m, r)]
  <2> HIDE DEF V
  <2> QED
    BY <1>3, <1>4
<1>6. sub = CHOOSE g : g = [r \in Ranges(n) |-> SubOver(g, root, m, r)]
  BY DEF SubProofs, SubOver, Ranges, Short, Middle, LeftPart, RightPart
<1> HIDE DEF sub
<1>7. sub = [r \in Ranges(n) |-> SubOver(sub, root, m, r)]
  BY <1>5, <1>6
<1>8. ASSUME NEW r \in Ranges(n)
      PROVE  sub[r] = SubOver(sub, root, m, r)
  BY <1>7
<1>9. \A r \in Ranges(n) :
        \/ sub[r] \in V
        \/ /\ ~Short(r)
           /\ \/ sub[r] = Append(sub[LeftPart(r)], root[RightPart(r)])
              \/ sub[r] = Append(sub[RightPart(r)], root[LeftPart(r)])
  <2> HIDE DEF V
  <2>1. \A r \in Ranges(n) :
          \/ SubOver(sub, root, m, r) \in V
          \/ /\ ~Short(r)
             /\ \/ SubOver(sub, root, m, r) = Append(sub[LeftPart(r)], root[RightPart(r)])
                \/ SubOver(sub, root, m, r) = Append(sub[RightPart(r)], root[LeftPart(r)])
    BY <1>1 DEF SubOver
  <2> QED
    BY <1>8, <2>1
<1>10. \A r \in Ranges(n) : sub[r] \in V
  BY <1>9, WalkType
<1> QED
  BY <1>8, <1>10 DEF sub

-----------------------------------------------------------------------------
(* A proof, level by level.                                                *)

\* The range of nodes one level down of a range of pairs.
Low(n, x, y) == <<2 * x, Upto(2 * y, n)>>

\* Its parts are those of the parts of the range of pairs.
LEMMA PartsOfLow ==
  ASSUME NEW n \in Nat, NEW x \in 0 .. (n + 1) \div 2, NEW y \in 0 .. (n + 1) \div 2,
         y > x + 1
  PROVE  LET z == Middle(<<x, y>>)
             low == Low(n, x, y)
         IN /\ z \in 0 .. (n + 1) \div 2 /\ x < z /\ z < y
            /\ Middle(low) = 2 * z
            /\ LeftPart(low) = Low(n, x, z) /\ RightPart(low) = Low(n, z, y)
            /\ low \in Ranges(n) /\ ~Short(low)
<1> DEFINE k == Split[y - x]
           low == Low(n, x, y)
           s == low[2] - low[1]
           z == x + k
           m == (n + 1) \div 2
<1>1. x \in Nat /\ y \in Nat /\ y <= m /\ m \in Nat /\ 2 * m <= n + 1
  OBVIOUS
<1>2. low[1] = 2 * x /\ (low[2] = 2 * y \/ low[2] = 2 * y - 1) /\ low[2] <= n /\ low[2] \in Nat
  BY <1>1 DEF Low, Upto
<1>3. k \in 1 .. y - x - 1
  <2>1. y - x \in Nat \ {0, 1}
    BY <1>1
  <2> QED
    BY <2>1, SplitIsInside
<1> HIDE DEF low, m
<1>4. s \in Nat /\ s > 2 /\ (s + 1) \div 2 = y - x
  <2>1. s = 2 * (y - x) \/ s = 2 * (y - x) - 1
    BY <1>1, <1>2
  <2>2. y - x \in Nat /\ y - x >= 2
    BY <1>1
  <2> HIDE DEF s
  <2> QED
    BY <2>1, <2>2
<1>5. Split[s] = 2 * k
  <2> HIDE DEF s
  <2>1. s \in Nat \ {0, 1} /\ ~(s <= 2)
    BY <1>4
  <2>2. Split[s] = 2 * Split[(s + 1) \div 2]
    BY <2>1, SplitDef
  <2> QED
    BY <1>4, <2>2
<1> HIDE DEF k
<1>6. z \in 0 .. m /\ x < z /\ z < y /\ 2 * z <= n
  BY <1>1, <1>3
<1>7. Middle(<<x, y>>) = z
  BY DEF Middle, k
<1>8. Middle(low) = 2 * z
  <2> HIDE DEF s
  <2>1. Middle(low) = low[1] + Split[s]
    BY DEF Middle, s
  <2> QED
    BY <1>1, <1>2, <1>3, <1>5, <2>1
<1>9. Upto(2 * z, n) = 2 * z
  BY <1>6 DEF Upto
<1>10. LeftPart(low) = Low(n, x, z) /\ RightPart(low) = Low(n, z, y)
  <2>1. low[1] = 2 * x /\ low[2] = Upto(2 * y, n)
    BY DEF low, Low
  <2> HIDE DEF z
  <2> QED
    BY <1>8, <1>9, <2>1 DEF LeftPart, RightPart, Low
<1>11. low \in Ranges(n) /\ ~Short(low)
  <2>1. low = <<low[1], low[2]>>
    BY DEF low, Low
  <2>2. low[1] \in 0 .. n /\ low[2] \in 0 .. n /\ ~(low[2] <= low[1] + 1)
    BY <1>1, <1>2
  <2> QED
    BY <2>1, <2>2 DEF Ranges, Short
<1> QED
  BY <1>6, <1>7, <1>8, <1>10, <1>11 DEF low, m

-----------------------------------------------------------------------------
(* What it sends for a leaf is accepted.                                   *)

\* The root over one place is its node.
LEMMA RootOfPlace ==
  ASSUME NEW nodes, NEW n \in Nat, NEW i \in 0 .. n - 1
  PROVE  Roots(nodes, n)[<<i, i + 1>>] = nodes[i + 1]
<1> DEFINE r == <<i, i + 1>>
<1>1. r \in (0 .. n) \X (0 .. n) /\ r[1] = i /\ r[2] = i + 1 /\ i \in Nat
  OBVIOUS
<1> HIDE DEF r
<1>2. Roots(nodes, n)[r] = RootOver(Roots(nodes, n), nodes, r)
  BY <1>1, RootsDef
<1>3. ~(r[2] <= r[1]) /\ r[2] = r[1] + 1
  BY <1>1
<1>4. Roots(nodes, n)[r] = nodes[r[2]]
  BY <1>2, <1>3 DEF RootOver
<1> QED
  BY <1>1, <1>4 DEF r

\* The sibling of a place.
Beside(nodes, i) == IF i % 2 = 1 THEN nodes[i] ELSE nodes[i + 2]

\* A sequence is a first element and a rest.
Begins(q, first, rest) ==
  /\ Len(q) = Len(rest) + 1
  /\ q[1] = first
  /\ \A j \in 1 .. Len(rest) : q[j + 1] = rest[j]

\* From a level, the sibling comes first, and then what comes from the level above.
Follows(q, nodes, n, i, rest) ==
  IF Promoted(<<i, n>>) THEN q = rest ELSE Begins(q, Beside(nodes, i), rest)

\* What is appended to the rest is appended to the whole.
LEMMA BeginsAppend ==
  ASSUME NEW S, NEW q \in Seq(S), NEW T, NEW rest \in Seq(T), NEW first,
         Begins(q, first, rest), NEW v, v \in S, v \in T
  PROVE  Begins(Append(q, v), first, Append(rest, v))
<1>1. /\ Len(q) = Len(rest) + 1 /\ q[1] = first /\ Len(rest) \in Nat
      /\ \A j \in 1 .. Len(rest) : q[j + 1] = rest[j]
  BY DEF Begins
<1>2. Len(Append(q, v)) = Len(q) + 1 /\ Len(Append(rest, v)) = Len(rest) + 1
  OBVIOUS
<1>3. /\ \A j \in 1 .. Len(q) : Append(q, v)[j] = q[j]
      /\ Append(q, v)[Len(q) + 1] = v
      /\ \A j \in 1 .. Len(rest) : Append(rest, v)[j] = rest[j]
      /\ Append(rest, v)[Len(rest) + 1] = v
  OBVIOUS
<1> DEFINE a == Append(q, v)
           b == Append(rest, v)
           k == Len(rest)
<1>4. /\ Len(a) = k + 2 /\ Len(b) = k + 1 /\ k \in Nat
      /\ \A j \in 1 .. k + 1 : a[j] = q[j]
      /\ a[k + 2] = v
      /\ \A j \in 1 .. k : b[j] = rest[j]
      /\ b[k + 1] = v
  BY <1>1, <1>2, <1>3
<1>5. \A j \in 1 .. k : q[j + 1] = rest[j]
  BY <1>1
<1> HIDE DEF a, b, k
<1>6. a[1] = first
  BY <1>1, <1>4
<1>7. \A j \in 1 .. k + 1 : a[j + 1] = b[j]
  <2> TAKE j \in 1 .. k + 1
  <2>1. CASE j = k + 1
    <3>1. j + 1 = k + 2
      BY <1>4, <2>1
    <3> QED
      BY <1>4, <2>1, <3>1
  <2>2. CASE j \in 1 .. k
    <3>1. j + 1 \in 1 .. k + 1
      BY <1>4, <2>2
    <3>2. a[j + 1] = q[j + 1]
      BY <1>4, <3>1
    <3> QED
      BY <1>4, <1>5, <2>2, <3>2
  <2> QED
    BY <1>4, <2>1, <2>2
<1>8. Len(a) = Len(b) + 1
  BY <1>4
<1>9. \A j \in 1 .. Len(b) : a[j + 1] = b[j]
  BY <1>4, <1>7
<1> QED
  BY <1>6, <1>8, <1>9 DEF Begins, a, b

\* The same for either level.
LEMMA FollowsAppend ==
  ASSUME NEW S, NEW q \in Seq(S), NEW T, NEW rest \in Seq(T), NEW nodes, NEW n, NEW i,
         Follows(q, nodes, n, i, rest), NEW v, v \in S, v \in T
  PROVE  Follows(Append(q, v), nodes, n, i, Append(rest, v))
BY BeginsAppend DEF Follows

\* What leads from a place to the root over a range is its sibling, if it has one,
\* and what leads from half the place to the root over the pairs.
LEMMA PathOfPairs ==
  ASSUME NEW nodes, NEW n \in Nat, NEW i \in 0 .. n - 1,
         NEW a \in 0 .. (n + 1) \div 2, NEW b \in 0 .. (n + 1) \div 2,
         a <= i \div 2, i \div 2 < b
  PROVE  Follows(Paths(Roots(nodes, n), i, n)[Low(n, a, b)], nodes, n, i,
                 Paths(Roots(Pairs(nodes, n), (n + 1) \div 2), i \div 2,
                       (n + 1) \div 2)[<<a, b>>])
<1> DEFINE m == (n + 1) \div 2
           j == i \div 2
           lower == Roots(nodes, n)
           upper == Roots(Pairs(nodes, n), m)
           path == Paths(lower, i, n)
           above == Paths(upper, j, m)
           Place(x, y) == x \in 0 .. m /\ y \in 0 .. m /\ x <= j /\ j < y
           Right(x, y) == Follows(path[Low(n, x, y)], nodes, n, i, above[<<x, y>>])
           Without == {w \in Nat : \E x, y \in 0 .. m : Place(x, y) /\ w = y - x /\ ~Right(x, y)}
<1>1. i \in Nat /\ j \in Nat /\ m \in Nat /\ n <= 2 * m /\ 2 * m <= n + 1
      /\ 2 * j <= i /\ i <= 2 * j + 1 /\ i < n
  OBVIOUS
<1>2. \A r \in Ranges(n) : /\ path[r] \in Seq(Hashes(lower, n))
                           /\ path[r] = PathOver(path, lower, i, r)
  <2> HIDE DEF lower
  <2> QED
    BY <1>1, PathsDef
<1>3. \A r \in Ranges(m) : /\ above[r] \in Seq(Hashes(upper, m))
                           /\ above[r] = PathOver(above, upper, j, r)
  <2> HIDE DEF upper, m, j
  <2> QED
    BY <1>1, PathsDef
<1>4. \A x, y \in 0 .. m : x < y => lower[Low(n, x, y)] = upper[<<x, y>>]
  BY RootOfPairs DEF Low
<1>5. \A k \in 0 .. n - 1 : lower[<<k, k + 1>>] = nodes[k + 1]
  BY RootOfPlace
<1> HIDE DEF lower, upper, path, above
<1>6. SUFFICES ASSUME Without # {}
               PROVE  FALSE
  <2>1. Place(a, b) /\ b - a \in Nat /\ a \in 0 .. m /\ b \in 0 .. m
    BY <1>1
  <2>2. Right(a, b)
    <3> HIDE DEF Right, Place, m
    <3> QED
      BY <1>6, <2>1
  <2> QED
    BY <2>2 DEF lower, upper, path, above
<1>7. PICK w \in Without : \A v \in Without : w <= v
  <2>1. Without \subseteq Nat
    OBVIOUS
  <2> HIDE DEF Without
  <2> QED
    BY <1>6, <2>1, LeastNumber
<1>8. PICK x \in 0 .. m, y \in 0 .. m : Place(x, y) /\ w = y - x /\ ~Right(x, y)
  BY <1>7
<1>9. w \in Nat
  BY <1>7
<1>10. x \in Nat /\ y \in Nat /\ x <= j /\ j < y /\ y <= m /\ w = y - x
  BY <1>8
<1> DEFINE low == Low(n, x, y)
           up == <<x, y>>
<1>11. up \in Ranges(m) /\ up[1] = x /\ up[2] = y
  BY DEF Ranges
<1> HIDE DEF Without
<1>12. CASE y = x + 1
  <2>1. x = j /\ y = j + 1
    BY <1>1, <1>10, <1>12
  <2>2. above[up] = <<>>
    <3> HIDE DEF up
    <3> QED
      BY <1>3, <1>10, <1>11, <1>12 DEF PathOver, Short
  <2>3. low[1] = 2 * j /\ low[2] = Upto(2 * j + 2, n) /\ low = <<low[1], low[2]>>
    BY <1>1, <2>1 DEF Low
  <2> HIDE DEF low, up, j, m
  <2>4. CASE i = n - 1 /\ i % 2 = 0
    <3>1. low[2] = 2 * j + 1 /\ low[1] \in 0 .. n /\ low[2] \in 0 .. n /\ low[2] <= low[1] + 1
      BY <1>1, <2>3, <2>4 DEF Upto, j
    <3>2. low \in Ranges(n) /\ Short(low)
      BY <2>3, <3>1 DEF Ranges, Short
    <3>3. path[low] = <<>>
      BY <1>2, <3>2 DEF PathOver
    <3>4. Promoted(<<i, n>>)
      <4>1. n % 2 = 1
        BY <1>1, <2>4
      <4> QED
        BY <2>4, <4>1 DEF Promoted
    <3>5. Right(x, y)
      BY <2>2, <3>3, <3>4 DEF Follows, low, up
    <3> QED
      BY <1>8, <3>5
  <2>5. CASE ~(i = n - 1 /\ i % 2 = 0)
    <3>1. low[2] = 2 * j + 2 /\ low[1] \in 0 .. n /\ low[2] \in 0 .. n
      BY <1>1, <2>3, <2>5 DEF Upto, j
    <3>2. low \in Ranges(n) /\ ~Short(low)
      BY <1>1, <2>3, <3>1 DEF Ranges, Short
    <3>3. Middle(low) = 2 * j + 1
      <4>1. low[2] - low[1] = 2
        BY <1>1, <2>3, <3>1
      <4>2. Split[low[2] - low[1]] = 1
        <5>1. \A s : s = 2 => Split[s] = 1
          BY SplitDef
        <5> QED
          BY <4>1, <5>1
      <4> QED
        BY <1>1, <2>3, <4>2 DEF Middle
    <3>4. LeftPart(low) = <<2 * j, 2 * j + 1>> /\ RightPart(low) = <<2 * j + 1, 2 * j + 2>>
      BY <2>3, <3>1, <3>3 DEF LeftPart, RightPart
    <3> DEFINE l == LeftPart(low)
               h == RightPart(low)
    <3>5. l \in Ranges(n) /\ h \in Ranges(n) /\ Short(l) /\ Short(h)
      <4>1. 2 * j \in 0 .. n /\ 2 * j + 1 \in 0 .. n /\ 2 * j + 2 \in 0 .. n
        BY <1>1, <2>3, <3>1
      <4> QED
        BY <1>1, <3>4, <4>1 DEF Ranges, Short
    <3>6. path[l] = <<>> /\ path[h] = <<>>
      <4> HIDE DEF l, h
      <4> QED
        BY <1>2, <3>5 DEF PathOver
    <3>7. lower[l] = nodes[2 * j + 1] /\ lower[h] = nodes[2 * j + 2]
      <4> DEFINE u == 2 * j
                 v == 2 * j + 1
      <4>1. u \in 0 .. n - 1 /\ v \in 0 .. n - 1 /\ u + 1 = 2 * j + 1 /\ v + 1 = 2 * j + 2
        BY <1>1, <2>3, <3>1
      <4>2. l = <<u, u + 1>> /\ h = <<v, v + 1>>
        BY <3>4, <4>1
      <4> HIDE DEF u, v, l, h
      <4> QED
        BY <1>5, <4>1, <4>2
    <3>8. path[low] = IF i < 2 * j + 1 THEN Append(path[l], lower[h])
                      ELSE Append(path[h], lower[l])
      <4> HIDE DEF l, h
      <4> QED
        BY <1>2, <3>2, <3>3 DEF PathOver, l, h
    <3>9. path[low] = <<Beside(nodes, i)>>
      <4> HIDE DEF l, h
      <4>1. CASE i = 2 * j
        <5>1. i < 2 * j + 1 /\ i % 2 # 1 /\ i + 2 = 2 * j + 2
          BY <1>1, <4>1
        <5>2. path[low] = Append(<<>>, nodes[i + 2])
          BY <3>6, <3>7, <3>8, <5>1
        <5>3. Append(<<>>, nodes[i + 2]) = <<nodes[i + 2]>>
          OBVIOUS
        <5> QED
          BY <5>1, <5>2, <5>3 DEF Beside
      <4>2. CASE i = 2 * j + 1
        <5>1. ~(i < 2 * j + 1) /\ i % 2 = 1
          BY <1>1, <4>2
        <5>2. path[low] = Append(<<>>, nodes[i])
          BY <3>6, <3>7, <3>8, <4>2, <5>1
        <5>3. Append(<<>>, nodes[i]) = <<nodes[i]>>
          OBVIOUS
        <5> QED
          BY <5>1, <5>2, <5>3 DEF Beside
      <4> QED
        BY <1>1, <4>1, <4>2
    <3>10. ~Promoted(<<i, n>>)
      <4>1. ~(n % 2 = 1 /\ i = n - 1)
        BY <1>1, <2>5
      <4> QED
        BY <4>1 DEF Promoted
    <3>11. Begins(<<Beside(nodes, i)>>, Beside(nodes, i), <<>>)
      BY DEF Begins
    <3>12. Right(x, y)
      <4>1. Begins(path[low], Beside(nodes, i), above[up])
        BY <2>2, <3>9, <3>11
      <4> QED
        BY <3>10, <4>1 DEF Follows, low, up
    <3> QED
      BY <1>8, <3>12
  <2> QED
    BY <2>4, <2>5
<1>13. CASE y # x + 1
  <2> DEFINE z == Middle(up)
  <2>1. /\ z \in 0 .. m /\ x < z /\ z < y
        /\ Middle(low) = 2 * z
        /\ LeftPart(low) = Low(n, x, z) /\ RightPart(low) = Low(n, z, y)
        /\ low \in Ranges(n) /\ ~Short(low)
    <3>1. y > x + 1
      BY <1>10, <1>13
    <3> QED
      BY <3>1, PartsOfLow
  <2>2. LeftPart(up) = <<x, z>> /\ RightPart(up) = <<z, y>> /\ ~Short(up)
    <3>1. ~(up[2] <= up[1] + 1)
      BY <1>10, <1>11, <1>13
    <3> HIDE DEF z
    <3> QED
      BY <1>11, <3>1 DEF LeftPart, RightPart, Short, z
  <2> HIDE DEF z, low
  <2>3. /\ lower[Low(n, x, z)] = upper[<<x, z>>] /\ lower[Low(n, z, y)] = upper[<<z, y>>]
    BY <1>4, <2>1
  <2>4. /\ LeftPart(low) \in Ranges(n) /\ RightPart(low) \in Ranges(n)
        /\ LeftPart(up) \in Ranges(m) /\ RightPart(up) \in Ranges(m)
    BY <1>1, <1>11, <2>1, <2>2, PartsOf
  <2>5. \A r \in Ranges(n) : lower[r] \in Hashes(lower, n)
    BY DEF Hashes
  <2>6. \A r \in Ranges(m) : upper[r] \in Hashes(upper, m)
    BY DEF Hashes
  <2>7. i < 2 * z <=> j < z
    BY <1>1, <2>1
  <2>8. /\ path[low] = PathOver(path, lower, i, low)
        /\ above[up] = PathOver(above, upper, j, up)
    BY <1>2, <1>3, <1>11, <2>1
  <2>9. CASE j < z
    <3>1. path[low] = Append(path[Low(n, x, z)], upper[<<z, y>>])
      BY <2>1, <2>3, <2>7, <2>8, <2>9 DEF PathOver
    <3>2. above[up] = Append(above[<<x, z>>], upper[<<z, y>>])
      <4> HIDE DEF up
      <4> QED
        BY <2>2, <2>8, <2>9 DEF PathOver, z
    <3>3. Right(x, z)
      <4>1. Place(x, z) /\ z - x \in Nat /\ z - x < w /\ x \in 0 .. m
        BY <1>10, <2>1, <2>9
      <4>2. z - x \notin Without
        BY <1>7, <1>9, <4>1
      <4> HIDE DEF Right, Place
      <4> QED
        BY <2>1, <4>1, <4>2 DEF Without
    <3>4. /\ path[Low(n, x, z)] \in Seq(Hashes(lower, n))
          /\ above[<<x, z>>] \in Seq(Hashes(upper, m))
          /\ upper[<<z, y>>] \in Hashes(lower, n) /\ upper[<<z, y>>] \in Hashes(upper, m)
      <4>1. Low(n, x, z) \in Ranges(n) /\ Low(n, z, y) \in Ranges(n)
            /\ <<x, z>> \in Ranges(m) /\ <<z, y>> \in Ranges(m)
        BY <2>1, <2>2, <2>4
      <4> HIDE DEF m
      <4> QED
        BY <1>2, <1>3, <2>3, <2>5, <2>6, <4>1
    <3>5. Follows(Append(path[Low(n, x, z)], upper[<<z, y>>]), nodes, n, i,
                  Append(above[<<x, z>>], upper[<<z, y>>]))
      BY <3>3, <3>4, FollowsAppend
    <3> QED
      BY <1>8, <3>1, <3>2, <3>5 DEF low
  <2>10. CASE ~(j < z)
    <3>1. path[low] = Append(path[Low(n, z, y)], upper[<<x, z>>])
      BY <2>1, <2>3, <2>7, <2>8, <2>10 DEF PathOver
    <3>2. above[up] = Append(above[<<z, y>>], upper[<<x, z>>])
      <4> HIDE DEF up
      <4> QED
        BY <2>2, <2>8, <2>10 DEF PathOver, z
    <3>3. Right(z, y)
      <4>1. Place(z, y) /\ y - z \in Nat /\ y - z < w /\ y \in 0 .. m
        BY <1>1, <1>10, <2>1, <2>10
      <4>2. y - z \notin Without
        BY <1>7, <1>9, <4>1
      <4> HIDE DEF Right, Place
      <4> QED
        BY <2>1, <4>1, <4>2 DEF Without
    <3>4. /\ path[Low(n, z, y)] \in Seq(Hashes(lower, n))
          /\ above[<<z, y>>] \in Seq(Hashes(upper, m))
          /\ upper[<<x, z>>] \in Hashes(lower, n) /\ upper[<<x, z>>] \in Hashes(upper, m)
      <4>1. Low(n, x, z) \in Ranges(n) /\ Low(n, z, y) \in Ranges(n)
            /\ <<x, z>> \in Ranges(m) /\ <<z, y>> \in Ranges(m)
        BY <2>1, <2>2, <2>4
      <4> HIDE DEF m
      <4> QED
        BY <1>2, <1>3, <2>3, <2>5, <2>6, <4>1
    <3>5. Follows(Append(path[Low(n, z, y)], upper[<<x, z>>]), nodes, n, i,
                  Append(above[<<z, y>>], upper[<<x, z>>]))
      BY <3>3, <3>4, FollowsAppend
    <3> QED
      BY <1>8, <3>1, <3>2, <3>5 DEF low
  <2> QED
    BY <2>9, <2>10
<1> QED
  BY <1>12, <1>13

\* What the log sends for a place of a level.
PathTo(nodes, n, i) == Paths(Roots(nodes, n), i, n)[<<0, n>>]

\* What is left of a proof after so many hashes.
Ends(proof, c, q) ==
  Len(proof) = c + Len(q) /\ \A j \in 1 .. Len(q) : proof[c + j] = q[j]

\* It is a sequence.
LEMMA PathToType ==
  ASSUME NEW nodes, NEW n \in Nat, NEW i \in Nat
  PROVE  Len(PathTo(nodes, n, i)) \in Nat
<1> DEFINE root == Roots(nodes, n)
           r == <<0, n>>
<1>1. r \in Ranges(n)
  BY DEF Ranges
<1> HIDE DEF root, r
<1>2. Paths(root, i, n)[r] \in Seq(Hashes(root, n))
  BY <1>1, PathsDef
<1> QED
  BY <1>2 DEF PathTo, root, r

\* Over one node there is nothing to send.
LEMMA PathToOne ==
  ASSUME NEW nodes
  PROVE  PathTo(nodes, 1, 0) = <<>>
<1> DEFINE root == Roots(nodes, 1)
           r == <<0, 1>>
<1>1. r \in Ranges(1) /\ Short(r) /\ 0 \in Nat /\ 1 \in Nat
  BY DEF Ranges, Short
<1> HIDE DEF root, r
<1>2. Paths(root, 0, 1)[r] = PathOver(Paths(root, 0, 1), root, 0, r)
  BY <1>1, PathsDef
<1> QED
  BY <1>1, <1>2 DEF PathTo, root, r, PathOver

\* One level: the sibling, unless the node is promoted, and the rest.
LEMMA PathToUp ==
  ASSUME NEW nodes, NEW n \in Nat \ {0, 1}, NEW i \in 0 .. n - 1
  PROVE  Follows(PathTo(nodes, n, i), nodes, n, i,
                 PathTo(Pairs(nodes, n), (n + 1) \div 2, i \div 2))
<1> DEFINE m == (n + 1) \div 2
<1>1. /\ n \in Nat /\ 0 \in 0 .. (n + 1) \div 2 /\ m \in 0 .. (n + 1) \div 2
      /\ 0 <= i \div 2 /\ i \div 2 < m
      /\ n <= 2 * m
  OBVIOUS
<1>2. Low(n, 0, m) = <<0, n>>
  BY <1>1 DEF Low, Upto
<1>3. Follows(Paths(Roots(nodes, n), i, n)[Low(n, 0, m)], nodes, n, i,
              Paths(Roots(Pairs(nodes, n), (n + 1) \div 2), i \div 2,
                    (n + 1) \div 2)[<<0, m>>])
  BY <1>1, PathOfPairs
<1> QED
  BY <1>2, <1>3 DEF PathTo

\* So a proof that ends like that goes on with the sibling.
LEMMA EndsUp ==
  ASSUME NEW nodes, NEW n \in Nat \ {0, 1}, NEW i \in 0 .. n - 1,
         NEW proof, NEW c \in Nat, Ends(proof, c, PathTo(nodes, n, i))
  PROVE  LET rest == PathTo(Pairs(nodes, n), (n + 1) \div 2, i \div 2)
         IN /\ Promoted(<<i, n>>) => Ends(proof, c, rest)
            /\ ~Promoted(<<i, n>>) => /\ Ends(proof, c + 1, rest)
                                      /\ proof[c + 1] = Beside(nodes, i)
                                      /\ c + 1 \in 1 .. Len(proof)
<1> DEFINE q == PathTo(nodes, n, i)
           rest == PathTo(Pairs(nodes, n), (n + 1) \div 2, i \div 2)
<1>1. Follows(q, nodes, n, i, rest)
  BY PathToUp
<1>2. Len(rest) \in Nat
  <2>1. (n + 1) \div 2 \in Nat /\ i \div 2 \in Nat
    OBVIOUS
  <2> QED
    BY <2>1, PathToType
<1>3. Len(proof) = c + Len(q) /\ \A j \in 1 .. Len(q) : proof[c + j] = q[j]
  BY DEF Ends
<1> HIDE DEF q, rest
<1>4. ASSUME Promoted(<<i, n>>)
      PROVE  Ends(proof, c, rest)
  BY <1>1, <1>3, <1>4 DEF Follows, Ends
<1>5. ASSUME ~Promoted(<<i, n>>)
      PROVE  /\ Ends(proof, c + 1, rest)
             /\ proof[c + 1] = Beside(nodes, i)
             /\ c + 1 \in 1 .. Len(proof)
  <2>1. /\ Len(q) = Len(rest) + 1 /\ q[1] = Beside(nodes, i)
        /\ \A j \in 1 .. Len(rest) : q[j + 1] = rest[j]
    BY <1>1, <1>5 DEF Follows, Begins
  <2> DEFINE k == Len(rest)
  <2>2. k \in Nat /\ Len(q) = k + 1 /\ Len(proof) = c + 1 + k
    BY <1>2, <1>3, <2>1
  <2>3. \A j \in 1 .. k : q[j + 1] = rest[j]
    BY <2>1
  <2> HIDE DEF k
  <2>4. proof[c + 1] = q[1]
    BY <1>3, <2>2
  <2>5. \A j \in 1 .. k : proof[(c + 1) + j] = rest[j]
    <3> TAKE j \in 1 .. k
    <3>1. j + 1 \in 1 .. Len(q) /\ c + (j + 1) = (c + 1) + j
      BY <2>2
    <3>2. proof[c + (j + 1)] = q[j + 1]
      BY <1>3, <3>1
    <3> QED
      BY <2>3, <3>1, <3>2
  <2>6. Ends(proof, c + 1, rest)
    <3>1. Len(proof) = (c + 1) + k
      BY <2>2
    <3> QED
      BY <2>5, <3>1 DEF Ends, k
  <2>7. c + 1 \in 1 .. Len(proof)
    BY <2>2
  <2> QED
    BY <2>1, <2>4, <2>6, <2>7
<1> QED
  BY <1>4, <1>5 DEF q, rest

\* With its sibling, the node climbs to its pair.
LEMMA ClimbOfBeside ==
  ASSUME NEW n \in Nat \ {0, 1}, NEW index \in 0 .. n - 1, NEW place, At(place, index, n),
         NEW nodes, ~Promoted(<<index, n>>), place.hash = nodes[index + 1]
  PROVE  Climb(place, Beside(nodes, index)).hash = Pairs(nodes, n)[index \div 2 + 1]
<1> DEFINE sibling == Beside(nodes, index)
<1>1. ~(n % 2 = 1 /\ index = n - 1)
  BY DEF Promoted
<1>2. n \in Nat
  OBVIOUS
<1>3. CASE index % 2 = 1
  <2>1. OnTheRight(place)
    BY <1>3 DEF At, OnTheRight
  <2>2. Climb(place, sibling).hash = HashChildren(sibling, place.hash)
    BY <2>1 DEF Climb
  <2>3. Pairs(nodes, n)[index \div 2 + 1] = HashChildren(nodes[index], nodes[index + 1])
    BY <1>2, <1>3, PairAt
  <2> QED
    BY <1>3, <2>2, <2>3 DEF Beside
<1>4. CASE index % 2 # 1
  <2>1. index < n - 1 /\ index % 2 = 0
    BY <1>1, <1>4
  <2>2. ~OnTheRight(place)
    BY <1>4, <2>1 DEF At, OnTheRight
  <2>3. Climb(place, sibling).hash = HashChildren(place.hash, sibling)
    BY <2>2 DEF Climb
  <2>4. Pairs(nodes, n)[index \div 2 + 1] = HashChildren(nodes[index + 1], nodes[index + 2])
    BY <1>2, <2>1, PairAt
  <2> QED
    BY <1>4, <2>3, <2>4 DEF Beside
<1> QED
  BY <1>3, <1>4

\* An ascent that stands at a node of a level, with what the log sends for it left,
\* ends at the root over the level.
Reaches(at, proof, n) ==
  \A nodes : \A index \in 0 .. n - 1, c \in 0 .. Len(proof) :
    /\ At(at[c], index, n)
    /\ at[c].hash = nodes[index + 1]
    /\ Ends(proof, c, PathTo(nodes, n, index))
    => /\ at[Len(proof)].hash = Roots(nodes, n)[<<0, n>>]
       /\ Len(proof) - c = Siblings[<<index, n>>]

\* By descent to the smallest level for which it does not.
LEMMA AscentReaches ==
  ASSUME NEW at, NEW proof, Len(proof) \in Nat,
         \A c \in 1 .. Len(proof) : at[c] = Climb(at[c - 1], proof[c])
  PROVE  \A n \in Nat \ {0} : Reaches(at, proof, n)
<1> DEFINE last == Len(proof)
           Without == {n \in Nat \ {0} : ~Reaches(at, proof, n)}
<1>1. SUFFICES ASSUME Without # {}
               PROVE  FALSE
  BY <1>1
<1>2. PICK n \in Without : \A m \in Without : n <= m
  <2>1. Without \subseteq Nat
    OBVIOUS
  <2> HIDE DEF Without
  <2> QED
    BY <1>1, <2>1, LeastNumber
<1>3. n \in Nat \ {0} /\ ~Reaches(at, proof, n)
  OBVIOUS
<1> DEFINE Wrong(nodes, index, c) ==
             /\ At(at[c], index, n)
             /\ at[c].hash = nodes[index + 1]
             /\ Ends(proof, c, PathTo(nodes, n, index))
             /\ ~(/\ at[last].hash = Roots(nodes, n)[<<0, n>>]
                  /\ last - c = Siblings[<<index, n>>])
<1>4. PICK nodes : \E index \in 0 .. n - 1, c \in 0 .. last : Wrong(nodes, index, c)
  BY <1>3 DEF Reaches
<1>5. PICK index \in 0 .. n - 1, c \in 0 .. last : Wrong(nodes, index, c)
  BY <1>4
<1>6. CASE n = 1
  <2>1. index = 0
    BY <1>5, <1>6
  <2>2. Ends(proof, c, <<>>)
    BY <1>5, <1>6, <2>1, PathToOne
  <2>3. c = last
    BY <2>2 DEF Ends
  <2>4. at[last].hash = Roots(nodes, n)[<<0, n>>]
    BY <1>5, <1>6, <2>1, <2>3, RootOfOne
  <2>5. Siblings[<<index, n>>] = 0
    <3> DEFINE r == <<index, n>>
    <3>1. r \in Nat \X Nat /\ r[2] <= 1
      BY <1>3, <1>6, <2>1
    <3> HIDE DEF r
    <3> QED
      BY <3>1, SiblingsDef DEF r
  <2> QED
    BY <1>5, <2>3, <2>4, <2>5
<1>7. CASE n # 1
  <2> DEFINE m == (n + 1) \div 2
             j == index \div 2
             up == Pairs(nodes, n)
             r == <<index, n>>
             q == <<j, m>>
             rest == PathTo(up, m, j)
  <2>1. n \in Nat \ {0, 1} /\ c \in Nat
    BY <1>3, <1>7
  <2>2. m \in Nat \ {0} /\ m < n /\ j \in 0 .. m - 1
    BY <2>1
  <2>3. Reaches(at, proof, m)
    <3> HIDE DEF m
    <3>1. m \notin Without
      <4> HIDE DEF Without
      <4> QED
        BY <1>2, <1>3, <2>2
    <3> QED
      BY <2>2, <3>1
  <2>4. Roots(nodes, n)[<<0, n>>] = Roots(up, m)[<<0, m>>]
    BY <1>3, LevelRoot
  <2>5. Siblings[r] = Siblings[q] + IF Promoted(r) THEN 0 ELSE 1
    <3>1. r \in Nat \X Nat /\ r[2] > 1 /\ Halved(r) = q
      BY <2>1 DEF Halved
    <3> HIDE DEF r, q
    <3> QED
      BY <3>1, SiblingsDef
  <2>6. Siblings[q] \in Nat
    <3>1. q \in Nat \X Nat
      BY <2>2
    <3> HIDE DEF q
    <3> QED
      BY <3>1, SiblingsType
  <2>7. /\ At(at[c], index, n) /\ at[c].hash = nodes[index + 1]
        /\ Ends(proof, c, PathTo(nodes, n, index))
    BY <1>5
  <2>8. /\ Promoted(r) => Ends(proof, c, rest)
        /\ ~Promoted(r) => /\ Ends(proof, c + 1, rest)
                           /\ proof[c + 1] = Beside(nodes, index)
                           /\ c + 1 \in 1 .. Len(proof)
    BY <2>1, <2>7, EndsUp
  <2>9. ASSUME NEW d \in 0 .. last, At(at[d], j, m), at[d].hash = up[j + 1],
               Ends(proof, d, rest)
        PROVE  /\ at[last].hash = Roots(nodes, n)[<<0, n>>]
               /\ last - d = Siblings[q]
    <3> HIDE DEF m, j, up
    <3> QED
      BY <2>2, <2>3, <2>4, <2>9 DEF Reaches
  <2>10. CASE Promoted(r)
    <3>1. At(at[c], j, m) /\ up[j + 1] = nodes[index + 1]
      BY <2>1, <2>7, <2>10, LevelUp
    <3>2. at[last].hash = Roots(nodes, n)[<<0, n>>] /\ last - c = Siblings[q]
      <4> HIDE DEF m, j, up, q, rest
      <4> QED
        BY <2>7, <2>8, <2>9, <2>10, <3>1
    <3> QED
      BY <1>5, <2>5, <2>6, <2>10, <3>2
  <2>11. CASE ~Promoted(r)
    <3> DEFINE d == c + 1
    <3>1. d \in 1 .. last /\ d - 1 = c /\ Ends(proof, d, rest)
          /\ proof[d] = Beside(nodes, index)
      BY <2>1, <2>8, <2>11
    <3>2. at[d] = Climb(at[c], Beside(nodes, index))
      <4> HIDE DEF d
      <4> QED
        BY <3>1
    <3>3. At(at[d], j, m)
      <4>1. At(Climb(at[c], Beside(nodes, index)), j, m)
        BY <2>1, <2>7, <2>11, LevelUp
      <4> QED
        BY <3>2, <4>1
    <3>4. at[d].hash = up[j + 1]
      <4>1. Climb(at[c], Beside(nodes, index)).hash = up[j + 1]
        BY <2>1, <2>7, <2>11, ClimbOfBeside
      <4> QED
        BY <3>2, <4>1
    <3>5. at[last].hash = Roots(nodes, n)[<<0, n>>] /\ last - d = Siblings[q]
      <4> HIDE DEF m, j, up, q, rest, d
      <4> QED
        BY <2>9, <3>1, <3>3, <3>4
    <3>6. last - c = Siblings[r]
      <4> HIDE DEF q, r
      <4> QED
        BY <2>1, <2>5, <2>6, <2>11, <3>5
    <3> QED
      BY <1>5, <3>5, <3>6
  <2> QED
    BY <2>10, <2>11
<1> QED
  BY <1>6, <1>7

\* What the log sends for a leaf is accepted for it.
LEMMA HonestInclusion ==
  ASSUME NEW leaves, Len(leaves) \in Nat, DOMAIN leaves = 1 .. Len(leaves),
         NEW index \in 0 .. Len(leaves) - 1
  PROVE  VerifyInclusion(HashLeaf(leaves[index + 1]), index, Len(leaves),
                         Path(leaves, index, Len(leaves)), MTH(leaves))
<1> DEFINE n == Len(leaves)
           hash == HashLeaf(leaves[index + 1])
           nodes == Leaves(leaves)
           proof == PathTo(nodes, n, index)
           at == Ascent(hash, index, n, proof)
<1>1. Path(leaves, index, n) = proof /\ MTH(leaves) = Roots(nodes, n)[<<0, n>>]
  BY DEF Path, PathTo, MTH, Subtree, Subtrees
<1>2. Len(proof) \in Nat
  <2> HIDE DEF nodes
  <2> QED
    BY PathToType
<1>3. nodes[index + 1] = hash
  <2>1. index + 1 \in DOMAIN leaves
    OBVIOUS
  <2> QED
    BY <2>1 DEF Leaves
<1>4. n \in Nat \ {0} /\ index \in 0 .. n - 1 /\ index < n
  OBVIOUS
<1> HIDE DEF hash, nodes, n
<1>5. Ends(proof, 0, proof)
  <2> HIDE DEF proof
  <2> QED
    BY <1>2 DEF Ends
<1> HIDE DEF proof
<1>6. /\ at[0] = [hash |-> hash, index |-> index, last |-> n - 1]
      /\ \A c \in 1 .. Len(proof) : at[c] = Climb(at[c - 1], proof[c])
  BY <1>2, AscentDef
<1> HIDE DEF at
<1>7. Reaches(at, proof, n)
  BY <1>2, <1>4, <1>6, AscentReaches
<1>8. At(at[0], index, n) /\ at[0].hash = nodes[index + 1]
  BY <1>3, <1>6 DEF At
<1>9. at[Len(proof)].hash = Roots(nodes, n)[<<0, n>>] /\ Len(proof) - 0 = Siblings[<<index, n>>]
  <2>1. 0 \in 0 .. Len(proof)
    BY <1>2
  <2>2. Ends(proof, 0, PathTo(nodes, n, index))
    BY <1>5 DEF proof
  <2> QED
    BY <1>4, <1>7, <1>8, <2>1, <2>2 DEF Reaches
<1>10. VerifyInclusion(hash, index, n, proof, MTH(leaves))
  BY <1>1, <1>2, <1>4, <1>9 DEF VerifyInclusion, ExpectedLength, RootFromInclusion, at
<1> QED
  BY <1>1, <1>10 DEF hash, n

-----------------------------------------------------------------------------
(* What it sends for an older size is accepted.                            *)

\* What the log sends for an older size.
SubPath(nodes, n, m) == SubProofs(Roots(nodes, n), m, n)[<<0, n>>]

\* For an even older size, it sends what it sends for half the size and the pairs.
LEMMA SubOfPairs ==
  ASSUME NEW nodes, NEW n \in Nat, NEW m \in 1 .. n - 1, m % 2 = 0
  PROVE  SubPath(nodes, n, m) = SubPath(Pairs(nodes, n), (n + 1) \div 2, m \div 2)
<1> DEFINE half == (n + 1) \div 2
           k == m \div 2
           lower == Roots(nodes, n)
           upper == Roots(Pairs(nodes, n), half)
           sub == SubProofs(lower, m, n)
           above == SubProofs(upper, k, half)
           Same(x, y) == sub[Low(n, x, y)] = above[<<x, y>>]
           Without == {w \in Nat : \E x, y \in 0 .. half :
                                      x < k /\ k <= y /\ w = y - x /\ ~Same(x, y)}
<1>1. k \in Nat \ {0} /\ half \in Nat /\ n <= 2 * half /\ 2 * half <= n + 1 /\ m = 2 * k
      /\ m < n /\ k <= half /\ 0 \in 0 .. half /\ half \in 0 .. half /\ m \in Nat
  OBVIOUS
<1>2. \A r \in Ranges(n) : sub[r] = SubOver(sub, lower, m, r)
  <2> HIDE DEF lower
  <2> QED
    BY <1>1, SubProofsDef
<1>3. \A r \in Ranges(half) : above[r] = SubOver(above, upper, k, r)
  <2> HIDE DEF upper, half, k
  <2> QED
    BY <1>1, SubProofsDef
<1>4. \A x, y \in 0 .. half : x < y => lower[Low(n, x, y)] = upper[<<x, y>>]
  BY RootOfPairs DEF Low
<1>5. SUFFICES Without = {}
  <2>1. Low(n, 0, half) = <<0, n>>
    <3> HIDE DEF half
    <3>1. Upto(2 * half, n) = n
      BY <1>1 DEF Upto
    <3> QED
      BY <3>1 DEF Low
  <2>2. half - 0 \in Nat /\ 0 < k
    BY <1>1
  <2>3. Same(0, half)
    <3> HIDE DEF Same, half, k
    <3> QED
      BY <1>1, <1>5, <2>2
  <2> QED
    BY <2>1, <2>3 DEF SubPath
<1> HIDE DEF lower, upper, sub, above, half, k
<1>6. SUFFICES ASSUME Without # {}
               PROVE  FALSE
  BY <1>6
<1>7. PICK w \in Without : \A v \in Without : w <= v
  <2>1. Without \subseteq Nat
    OBVIOUS
  <2> HIDE DEF Without
  <2> QED
    BY <1>6, <2>1, LeastNumber
<1>8. PICK x \in 0 .. half, y \in 0 .. half : x < k /\ k <= y /\ w = y - x /\ ~Same(x, y)
  BY <1>7
<1>9. w \in Nat
  BY <1>7
<1> DEFINE low == Low(n, x, y)
           up == <<x, y>>
<1>10. up \in Ranges(half) /\ up[1] = x /\ up[2] = y
  BY DEF Ranges
<1>11. low[1] = 2 * x /\ low[2] = Upto(2 * y, n) /\ low \in Ranges(n)
  BY <1>1, <1>8 DEF Low, Upto, Ranges
<1>12. ASSUME NEW a \in 0 .. half, NEW b \in 0 .. half, a < k, k <= b, b - a < w
       PROVE  Same(a, b)
  <2>1. b - a \in Nat
    BY <1>1, <1>12
  <2>2. b - a \notin Without
    <3> HIDE DEF Without
    <3> QED
      BY <1>7, <1>9, <1>12, <2>1
  <2> HIDE DEF Same
  <2> QED
    BY <1>12, <2>1, <2>2
<1> HIDE DEF Without
<1>13. CASE y = k
  <2>1. lower[low] = upper[up]
    <3>1. x < y
      BY <1>1, <1>8, <1>13
    <3> QED
      BY <1>4, <3>1
  <2> HIDE DEF low, up
  <2>2. low[2] = m /\ (low[1] = 0 <=> x = 0)
    <3>1. 2 * y = m /\ m <= n /\ x \in Nat
      BY <1>1, <1>8, <1>13
    <3> QED
      BY <1>11, <3>1 DEF Upto
  <2>3. sub[low] = IF low[1] = 0 THEN <<>> ELSE <<lower[low]>>
    BY <1>2, <1>11, <2>2 DEF SubOver
  <2>4. above[up] = IF up[1] = 0 THEN <<>> ELSE <<upper[up]>>
    BY <1>3, <1>10, <1>13 DEF SubOver
  <2>5. sub[low] = above[up]
    BY <1>10, <2>1, <2>2, <2>3, <2>4
  <2> QED
    BY <1>8, <2>5 DEF low, up
<1>14. CASE y # k
  <2> DEFINE z == Middle(up)
  <2>1. y > x + 1 /\ low[2] # m
    BY <1>1, <1>8, <1>11, <1>14 DEF Upto
  <2>2. /\ z \in 0 .. half /\ x < z /\ z < y
        /\ Middle(low) = 2 * z
        /\ LeftPart(low) = Low(n, x, z) /\ RightPart(low) = Low(n, z, y)
        /\ ~Short(low)
    BY <2>1, PartsOfLow DEF half
  <2>3. LeftPart(up) = <<x, z>> /\ RightPart(up) = <<z, y>> /\ ~Short(up)
    <3>1. ~(up[2] <= up[1] + 1)
      BY <1>10, <2>1
    <3> HIDE DEF z
    <3> QED
      BY <1>10, <3>1 DEF LeftPart, RightPart, Short, z
  <2>4. lower[Low(n, x, z)] = upper[<<x, z>>] /\ lower[Low(n, z, y)] = upper[<<z, y>>]
    BY <1>4, <2>2
  <2>5. m <= 2 * z <=> k <= z
    BY <1>1, <2>2
  <2> HIDE DEF z, low, up
  <2>6. sub[low] = IF m <= 2 * z THEN Append(sub[LeftPart(low)], lower[RightPart(low)])
                   ELSE Append(sub[RightPart(low)], lower[LeftPart(low)])
    BY <1>2, <1>11, <2>1, <2>2 DEF SubOver
  <2>7. above[up] = IF k <= z THEN Append(above[LeftPart(up)], upper[RightPart(up)])
                    ELSE Append(above[RightPart(up)], upper[LeftPart(up)])
    BY <1>3, <1>10, <1>14, <2>3 DEF SubOver, z
  <2>8. CASE k <= z
    <3>1. Same(x, z)
      <4> HIDE DEF Same
      <4> QED
        BY <1>8, <1>9, <1>12, <2>2, <2>8
    <3>2. sub[low] = above[up]
      BY <2>2, <2>3, <2>4, <2>5, <2>6, <2>7, <2>8, <3>1
    <3> QED
      BY <1>8, <3>2 DEF low, up
  <2>9. CASE ~(k <= z)
    <3>1. Same(z, y)
      <4> HIDE DEF Same
      <4> QED
        BY <1>1, <1>8, <1>9, <1>12, <2>2, <2>9
    <3>2. sub[low] = above[up]
      BY <2>2, <2>3, <2>4, <2>5, <2>6, <2>7, <2>9, <3>1
    <3> QED
      BY <1>8, <3>2 DEF low, up
  <2> QED
    BY <2>8, <2>9
<1> QED
  BY <1>13, <1>14

\* All subtrees but the smallest have an even number of leaves on the left.
LEMMA SplitIsEven ==
  ASSUME NEW s \in Nat, s > 2
  PROVE  Split[s] % 2 = 0
<1> DEFINE h == (s + 1) \div 2
<1>1. s \in Nat \ {0, 1} /\ ~(s <= 2) /\ h \in Nat \ {0, 1}
  OBVIOUS
<1>2. Split[s] = 2 * Split[h]
  BY <1>1, SplitDef
<1> HIDE DEF h
<1>3. Split[h] \in Nat
  BY <1>1, SplitIsInside
<1> QED
  BY <1>2, <1>3

\* For an odd one, what it sends for the last leaf of the older log, after the leaf
\* itself unless it is the only one.
FromLeaf(q, nodes, m, rest) ==
  IF m = 1 THEN q = rest ELSE Begins(q, nodes[m], rest)

\* In the tree, the older log ends between a leaf and its sibling on the right.
LEMMA SubOfOdd ==
  ASSUME NEW nodes, NEW n \in Nat, NEW m \in 1 .. n - 1, m % 2 = 1
  PROVE  FromLeaf(SubPath(nodes, n, m), nodes, m, PathTo(nodes, n, m - 1))
<1> DEFINE root == Roots(nodes, n)
           V == Hashes(root, n)
           sub == SubProofs(root, m, n)
           i == m - 1
           path == Paths(root, i, n)
           Around(r) == r \in Ranges(n) /\ r[1] % 2 = 0 /\ r[1] < m /\ m < r[2]
           Right(r) == FromLeaf(sub[r], nodes, m, path[r])
           width(r) == n + r[2] - r[1]
           Without == {width(r) : r \in {x \in Ranges(n) : Around(x) /\ ~Right(x)}}
<1>1. m \in Nat /\ i \in 0 .. n - 1 /\ i \in Nat /\ i % 2 = 0 /\ m < n /\ i + 1 = m
  OBVIOUS
<1>2. \A r \in Ranges(n) : sub[r] \in Seq(V) /\ sub[r] = SubOver(sub, root, m, r)
  <2> HIDE DEF root
  <2> QED
    BY <1>1, SubProofsDef
<1>3. \A r \in Ranges(n) : path[r] \in Seq(V) /\ path[r] = PathOver(path, root, i, r)
  <2> HIDE DEF root, i
  <2> QED
    BY <1>1, PathsDef
<1>4. root[<<i, m>>] = nodes[m]
  <2> HIDE DEF i
  <2>1. Roots(nodes, n)[<<i, i + 1>>] = nodes[i + 1]
    BY <1>1, RootOfPlace
  <2> QED
    BY <1>1, <2>1
<1>5. \A r \in Ranges(n) : root[r] \in V
  BY DEF Hashes
<1>6. \A r \in Ranges(n) : width(r) \in Nat
  BY DEF Ranges
<1> HIDE DEF root, sub, path, V
<1>7. SUFFICES Without = {}
  <2> DEFINE r == <<0, n>>
  <2>1. r \in Ranges(n) /\ Around(r)
    BY <1>1 DEF Ranges
  <2>2. Right(r)
    <3> HIDE DEF Around, Right, r, width
    <3> QED
      BY <1>7, <2>1
  <2> QED
    BY <2>2 DEF SubPath, PathTo, root, sub, path
<1>8. SUFFICES ASSUME Without # {}
               PROVE  FALSE
  BY <1>8
<1>9. PICK w \in Without : \A v \in Without : w <= v
  <2>1. Without \subseteq Nat
    <3> HIDE DEF width
    <3> QED
      BY <1>6
  <2> HIDE DEF Without
  <2> QED
    BY <1>8, <2>1, LeastNumber
<1>10. PICK r \in Ranges(n) : Around(r) /\ ~Right(r) /\ w = width(r)
  OBVIOUS
<1> DEFINE mid == Middle(r)
           l == LeftPart(r)
           h == RightPart(r)
           s == r[2] - r[1]
<1>11. r[1] \in Nat /\ r[2] \in Nat /\ r[1] % 2 = 0 /\ r[1] < m /\ m < r[2] /\ r[2] # m
       /\ ~Short(r)
  BY <1>1, <1>10 DEF Ranges, Short
<1>12. /\ l \in Ranges(n) /\ h \in Ranges(n)
       /\ mid \in 0 .. n /\ r[1] < mid /\ mid < r[2]
       /\ l[1] = r[1] /\ l[2] = mid /\ h[1] = mid /\ h[2] = r[2]
       /\ l = <<r[1], mid>>
  <2>1. /\ l \in Ranges(n) /\ h \in Ranges(n)
        /\ mid \in 0 .. n /\ r[1] < mid /\ mid < r[2]
    BY <1>11, PartsOf
  <2> HIDE DEF mid
  <2> QED
    BY <2>1 DEF LeftPart, RightPart, mid
<1>13. s > 2 => mid % 2 = 0
  <2>1. s \in Nat /\ mid = r[1] + Split[s]
    BY <1>11 DEF Middle
  <2> HIDE DEF s, mid
  <2>2. SUFFICES ASSUME s > 2
                 PROVE  mid % 2 = 0
    BY <2>2
  <2>3. Split[s] % 2 = 0
    BY <2>1, <2>2, SplitIsEven
  <2>4. Split[s] \in Nat
    BY <2>1, <2>2, SplitIsInside
  <2> QED
    BY <1>11, <2>1, <2>3, <2>4
<1>14. s = 2 => mid = r[1] + 1
  <2>1. mid = r[1] + Split[s]
    BY DEF Middle
  <2>2. \A t : t = 2 => Split[t] = 1
    BY SplitDef
  <2> QED
    BY <2>1, <2>2
<1>15. s \in Nat /\ s >= 2
  BY <1>1, <1>11
<1> HIDE DEF mid, l, h
<1>16. ASSUME NEW q \in Ranges(n), Around(q), width(q) < width(r)
       PROVE  FromLeaf(sub[q], nodes, m, path[q])
  <2>1. width(q) \notin Without
    <3> HIDE DEF Without, width
    <3> QED
      BY <1>6, <1>9, <1>10, <1>16
  <2> HIDE DEF Around, width
  <2> QED
    BY <1>16, <2>1
<1>17. /\ sub[r] = IF m <= mid THEN Append(sub[l], root[h]) ELSE Append(sub[h], root[l])
       /\ path[r] = IF i < mid THEN Append(path[l], root[h]) ELSE Append(path[h], root[l])
  BY <1>2, <1>3, <1>10, <1>11 DEF SubOver, PathOver, mid, l, h
<1>18. /\ sub[l] \in Seq(V) /\ sub[h] \in Seq(V) /\ path[l] \in Seq(V) /\ path[h] \in Seq(V)
       /\ root[l] \in V /\ root[h] \in V
  BY <1>2, <1>3, <1>5, <1>12
<1>19. ASSUME NEW q \in Seq(V), NEW rest \in Seq(V), FromLeaf(q, nodes, m, rest),
              NEW v \in V
       PROVE  FromLeaf(Append(q, v), nodes, m, Append(rest, v))
  BY <1>19, BeginsAppend DEF FromLeaf
<1> HIDE DEF Without
<1>20. CASE m < mid
  <2>1. Around(l) /\ width(l) < width(r)
    BY <1>11, <1>12, <1>20
  <2>2. FromLeaf(sub[l], nodes, m, path[l])
    <3> HIDE DEF Around, width
    <3> QED
      BY <1>12, <1>16, <2>1
  <2>3. FromLeaf(Append(sub[l], root[h]), nodes, m, Append(path[l], root[h]))
    BY <1>18, <1>19, <2>2
  <2>4. m <= mid /\ i < mid
    BY <1>1, <1>12, <1>20
  <2> QED
    BY <1>10, <1>17, <2>3, <2>4
<1>21. CASE m > mid
  <2>1. s > 2
    BY <1>1, <1>11, <1>12, <1>14, <1>15, <1>21
  <2>2. Around(h) /\ width(h) < width(r)
    BY <1>11, <1>12, <1>13, <1>21, <2>1
  <2>3. FromLeaf(sub[h], nodes, m, path[h])
    <3> HIDE DEF Around, width
    <3> QED
      BY <1>12, <1>16, <2>2
  <2>4. FromLeaf(Append(sub[h], root[l]), nodes, m, Append(path[h], root[l]))
    BY <1>18, <1>19, <2>3
  <2>5. ~(m <= mid) /\ ~(i < mid)
    BY <1>1, <1>12, <1>21
  <2> QED
    BY <1>10, <1>17, <2>4, <2>5
<1>22. CASE m = mid
  <2>1. mid = r[1] + 1 /\ i = r[1] /\ m <= mid /\ i < mid
    BY <1>1, <1>11, <1>12, <1>13, <1>14, <1>15, <1>22
  <2>2. sub[l] = IF m = 1 THEN <<>> ELSE <<nodes[m]>>
    <3>1. sub[l] = IF l[1] = 0 THEN <<>> ELSE <<root[l]>>
      BY <1>2, <1>12, <1>22 DEF SubOver
    <3>2. l[1] = 0 <=> m = 1
      BY <1>1, <1>11, <1>12, <2>1
    <3>3. root[l] = nodes[m]
      BY <1>4, <1>12, <1>22, <2>1
    <3> QED
      BY <3>1, <3>2, <3>3
  <2>3. path[l] = <<>>
    <3>1. Short(l)
      BY <1>11, <1>12, <2>1 DEF Short
    <3> QED
      BY <1>3, <1>12, <3>1 DEF PathOver
  <2>4. FromLeaf(sub[l], nodes, m, path[l])
    <3>1. Begins(<<nodes[m]>>, nodes[m], <<>>)
      BY DEF Begins
    <3> QED
      BY <2>2, <2>3, <3>1 DEF FromLeaf
  <2>5. FromLeaf(Append(sub[l], root[h]), nodes, m, Append(path[l], root[h]))
    BY <1>18, <1>19, <2>4
  <2> QED
    BY <1>10, <1>17, <2>1, <2>5
<1>23. m < mid \/ m > mid \/ m = mid
  BY <1>1, <1>12
<1> QED
  BY <1>20, <1>21, <1>22, <1>23

\* Two hashes that stand at one place of two levels stand at half the place one level
\* up, when the sibling joins them; on the right it is of the newer log only.
LEMMA StandUp ==
  ASSUME NEW n \in Nat, NEW i \in 0 .. n - 1, NEW nodes, NEW olds,
         NEW new, NEW old, Stand(new, old, nodes, olds, i)
  PROVE  LET up == Pairs(nodes, n)
             upOld == Pairs(olds, i + 1)
         IN /\ i % 2 = 1 =>
                 Stand(HashChildren(nodes[i], new), HashChildren(nodes[i], old),
                       up, upOld, i \div 2)
            /\ i % 2 = 0 /\ i < n - 1 =>
                 Stand(HashChildren(new, nodes[i + 2]), old, up, upOld, i \div 2)
            /\ i % 2 = 0 /\ i = n - 1 => Stand(new, old, up, upOld, i \div 2)
<1> DEFINE o == i + 1
           k == i \div 2
           up == Pairs(nodes, n)
           upOld == Pairs(olds, o)
<1>1. /\ i \in Nat /\ o \in Nat /\ i \in 0 .. o - 1 /\ i = o - 1
      /\ k \in Nat /\ 2 * k <= i /\ i < n /\ n \in Nat /\ i \in 0 .. n - 1
  OBVIOUS
<1>2. new = nodes[i + 1] /\ old = olds[i + 1] /\ \A j \in 1 .. i : nodes[j] = olds[j]
  BY DEF Stand
<1> HIDE DEF o
<1>3. \A j \in 1 .. k : up[j] = upOld[j]
  <2> SUFFICES ASSUME NEW j \in 1 .. k
               PROVE  up[j] = upOld[j]
    OBVIOUS
  <2>1. /\ j \in 1 .. (n + 1) \div 2 /\ 2 * j <= n /\ j \in 1 .. (o + 1) \div 2 /\ 2 * j <= o
        /\ 2 * j - 1 \in 1 .. i /\ 2 * j \in 1 .. i
    BY <1>1
  <2>2. /\ up[j] = HashChildren(nodes[2 * j - 1], nodes[2 * j])
        /\ upOld[j] = HashChildren(olds[2 * j - 1], olds[2 * j])
    BY <2>1 DEF Pairs
  <2> HIDE DEF up, upOld
  <2> QED
    BY <1>2, <2>1, <2>2
<1>4. /\ i % 2 = 1 => /\ up[k + 1] = HashChildren(nodes[i], nodes[i + 1])
                      /\ upOld[k + 1] = HashChildren(olds[i], olds[i + 1])
      /\ i % 2 = 0 => upOld[k + 1] = olds[i + 1]
      /\ i % 2 = 0 /\ i < n - 1 => up[k + 1] = HashChildren(nodes[i + 1], nodes[i + 2])
      /\ i % 2 = 0 /\ i = n - 1 => up[k + 1] = nodes[i + 1]
  <2>1. i % 2 = 1 => up[k + 1] = HashChildren(nodes[i], nodes[i + 1])
    BY ONLY <1>1, PairAt
  <2>2. i % 2 = 0 /\ i < n - 1 => up[k + 1] = HashChildren(nodes[i + 1], nodes[i + 2])
    BY ONLY <1>1, PairAt
  <2>3. i % 2 = 0 /\ i = n - 1 => up[k + 1] = nodes[i + 1]
    BY ONLY <1>1, PairAt
  <2>4. i % 2 = 1 => upOld[k + 1] = HashChildren(olds[i], olds[i + 1])
    BY ONLY <1>1, PairAt
  <2>5. i % 2 = 0 => upOld[k + 1] = olds[i + 1]
    BY ONLY <1>1, PairAt
  <2> QED
    BY <2>1, <2>2, <2>3, <2>4, <2>5
<1> HIDE DEF up, upOld, k
<1>5. CASE i % 2 = 1
  <2>1. nodes[i] = olds[i]
    BY <1>1, <1>2, <1>5
  <2> QED
    BY <1>2, <1>3, <1>4, <1>5, <2>1 DEF Stand, o, up, upOld, k
<1>6. CASE i % 2 = 0
  BY <1>2, <1>3, <1>4, <1>6 DEF Stand, o, up, upOld, k
<1> QED
  BY <1>1, <1>5, <1>6

\* Two chains that stand at the last node of two levels of one size, with what the log
\* sends for it left, end at the roots.
EdgesReach(new, old, proof, out, last, n) ==
  \A nodes, olds : \A c \in 0 .. last :
    /\ Stand(new[c], old[c], nodes, olds, n - 1)
    /\ Ends(proof, out + c, PathTo(nodes, n, n - 1))
    /\ last - c = Ones[n - 1]
    => /\ Rooted(new[last], nodes, n) /\ Rooted(old[last], olds, n)
       /\ Len(proof) = out + last

\* By descent to the smallest level for which they do not.
LEMMA BorderReaches ==
  ASSUME NEW new, NEW old, NEW sibling, NEW last \in Nat, NEW proof, NEW out \in Nat,
         Climbs(new, sibling, last), Climbs(old, sibling, last),
         \A c \in 1 .. last : sibling[c] = proof[out + c]
  PROVE  \A n \in Nat \ {0} : EdgesReach(new, old, proof, out, last, n)
<1> DEFINE Reach(n) == EdgesReach(new, old, proof, out, last, n)
           Without == {n \in Nat \ {0} : ~Reach(n)}
<1>1. SUFFICES ASSUME Without # {}
               PROVE  FALSE
  BY <1>1
<1>2. PICK n \in Without : \A m \in Without : n <= m
  <2>1. Without \subseteq Nat
    OBVIOUS
  <2> HIDE DEF Without
  <2> QED
    BY <1>1, <2>1, LeastNumber
<1>3. n \in Nat \ {0} /\ ~Reach(n)
  OBVIOUS
<1> DEFINE Wrong(nodes, olds, c) ==
             /\ Stand(new[c], old[c], nodes, olds, n - 1)
             /\ Ends(proof, out + c, PathTo(nodes, n, n - 1))
             /\ last - c = Ones[n - 1]
             /\ ~(/\ Rooted(new[last], nodes, n) /\ Rooted(old[last], olds, n)
                  /\ Len(proof) = out + last)
<1>4. PICK nodes, olds : \E c \in 0 .. last : Wrong(nodes, olds, c)
  BY <1>3 DEF EdgesReach
<1>5. PICK c \in 0 .. last : Wrong(nodes, olds, c)
  BY <1>4
<1>6. /\ Stand(new[c], old[c], nodes, olds, n - 1)
      /\ Ends(proof, out + c, PathTo(nodes, n, n - 1))
      /\ last - c = Ones[n - 1]
      /\ ~(/\ Rooted(new[last], nodes, n) /\ Rooted(old[last], olds, n)
           /\ Len(proof) = out + last)
  BY <1>5
<1> HIDE DEF Wrong
<1>7. CASE n = 1
  <2>1. c = last
    <3>1. Ones[0] = 0
      BY OnesDef
    <3> QED
      BY <1>6, <1>7, <3>1
  <2>2. Len(proof) = out + last
    <3>1. PathTo(nodes, n, n - 1) = <<>>
      BY <1>7, PathToOne
    <3> QED
      BY <1>6, <2>1, <3>1 DEF Ends
  <2>3. new[last] = nodes[1] /\ old[last] = olds[1]
    BY <1>6, <1>7, <2>1 DEF Stand
  <2>4. Rooted(new[last], nodes, n) /\ Rooted(old[last], olds, n)
    BY <1>7, <2>3, RootOfOne DEF Rooted
  <2> QED
    BY <1>6, <2>2, <2>4
<1>8. CASE n # 1
  <2> DEFINE m == (n + 1) \div 2
             i == n - 1
             up == Pairs(nodes, n)
             upOld == Pairs(olds, n)
             b == out + c
  <2>1. /\ n \in Nat \ {0, 1} /\ n \in Nat /\ i \in 0 .. n - 1 /\ i + 1 = n /\ i \in Nat /\ i # 0
        /\ m \in Nat \ {0} /\ m < n /\ i \div 2 = m - 1 /\ m - 1 \in Nat
        /\ b \in Nat
    BY <1>3, <1>8
  <2>2. Ones[i] = (i % 2) + Ones[m - 1] /\ Ones[m - 1] \in Nat
    <3> HIDE DEF i, m
    <3>1. Ones[i] = (i % 2) + Ones[i \div 2]
      BY <2>1, OnesDef
    <3> QED
      BY <2>1, <3>1, OnesType
  <2>3. Reach(m)
    <3> HIDE DEF m, Reach
    <3>1. m \notin Without
      <4> HIDE DEF Without
      <4> QED
        BY <1>2, <1>3, <2>1
    <3> QED
      BY <2>1, <3>1
  <2>4. /\ Roots(nodes, n)[<<0, n>>] = Roots(up, m)[<<0, m>>]
        /\ Roots(olds, n)[<<0, n>>] = Roots(upOld, m)[<<0, m>>]
    BY <1>3, LevelRoot
  <2>5. /\ Promoted(<<i, n>>) => Ends(proof, b, PathTo(up, m, m - 1))
        /\ ~Promoted(<<i, n>>) => /\ Ends(proof, b + 1, PathTo(up, m, m - 1))
                                  /\ proof[b + 1] = Beside(nodes, i)
    <3>1. Ends(proof, b, PathTo(nodes, n, i))
      BY <1>6
    <3>2. /\ Promoted(<<i, n>>) => Ends(proof, b, PathTo(up, m, i \div 2))
          /\ ~Promoted(<<i, n>>) => /\ Ends(proof, b + 1, PathTo(up, m, i \div 2))
                                    /\ proof[b + 1] = Beside(nodes, i)
      <4> HIDE DEF i, b
      <4> QED
        BY <2>1, <3>1, EndsUp
    <3> QED
      BY <2>1, <3>2
  <2>6. ASSUME NEW d \in 0 .. last,
               Stand(new[d], old[d], up, upOld, m - 1),
               Ends(proof, out + d, PathTo(up, m, m - 1)), last - d = Ones[m - 1]
        PROVE  FALSE
    <3>1. /\ Rooted(new[last], up, m) /\ Rooted(old[last], upOld, m)
          /\ Len(proof) = out + last
      <4> HIDE DEF m, up, upOld
      <4> QED
        BY <2>3, <2>6 DEF EdgesReach
    <3> QED
      BY <1>6, <2>4, <3>1 DEF Rooted
  <2>7. Stand(new[c], old[c], nodes, olds, i) /\ last - c = Ones[i]
    BY <1>6
  <2>8. Promoted(<<i, n>>) <=> i % 2 = 0
    <3>1. Promoted(<<i, n>>) <=> n % 2 = 1 /\ i = n - 1
      BY DEF Promoted
    <3> QED
      BY <2>1, <3>1
  <2>9. CASE i % 2 = 0
    <3>1. Stand(new[c], old[c], up, upOld, m - 1)
      <4>1. Stand(new[c], old[c], up, Pairs(olds, i + 1), i \div 2)
        <5>1. i = n - 1
          OBVIOUS
        <5> HIDE DEF i
        <5> QED
          BY <2>1, <2>7, <2>9, <5>1, StandUp
      <4> QED
        BY <2>1, <4>1
    <3>2. last - c = Ones[m - 1]
      BY <2>2, <2>7, <2>9
    <3>3. Ends(proof, out + c, PathTo(up, m, m - 1))
      BY <2>5, <2>8, <2>9
    <3> HIDE DEF m, up, upOld, i
    <3> QED
      BY <2>6, <3>1, <3>2, <3>3
  <2>10. CASE i % 2 = 1
    <3> DEFINE d == c + 1
    <3>1. d \in 1 .. last /\ d - 1 = c /\ out + d = b + 1 /\ last - d = Ones[m - 1]
      <4> HIDE DEF i, m
      <4> QED
        BY <2>1, <2>2, <2>7, <2>10
    <3>2. ~Promoted(<<i, n>>)
      BY <2>8, <2>10
    <3>3. sibling[d] = nodes[i]
      <4>1. proof[b + 1] = nodes[i]
        BY <2>5, <2>10, <3>2 DEF Beside
      <4>2. sibling[d] = proof[out + d]
        BY <3>1
      <4> HIDE DEF d, b
      <4> QED
        BY <3>1, <4>1, <4>2
    <3>4. /\ new[d] = HashChildren(nodes[i], new[c])
          /\ old[d] = HashChildren(nodes[i], old[c])
      <4> HIDE DEF d, i, b
      <4> QED
        BY <3>1, <3>3 DEF Climbs
    <3>5. Stand(new[d], old[d], up, upOld, m - 1)
      <4>1. Stand(HashChildren(nodes[i], new[c]), HashChildren(nodes[i], old[c]),
                  up, Pairs(olds, i + 1), i \div 2)
        <5> HIDE DEF i
        <5> QED
          BY <2>1, <2>7, <2>10, StandUp
      <4> HIDE DEF d
      <4> QED
        BY <2>1, <3>4, <4>1
    <3>6. Ends(proof, out + d, PathTo(up, m, m - 1))
      BY <2>5, <3>1, <3>2
    <3> HIDE DEF m, up, upOld, i, d, b
    <3> QED
      BY <2>6, <3>1, <3>5, <3>6
  <2>11. i % 2 = 0 \/ i % 2 = 1
    BY <2>1
  <2> QED
    BY <2>9, <2>10, <2>11
<1> QED
  BY <1>7, <1>8

\* Where the edges of the two logs meet, with what the log sends for the place left.
Meets(newTop, oldTop, newRoot, oldRoot, proof, out, i) ==
  \E nodes, olds :
    /\ Stand(newTop, oldTop, nodes, olds, i)
    /\ Ends(proof, out, PathTo(nodes, i + 1, i))
    /\ Rooted(newRoot, nodes, i + 1) /\ Rooted(oldRoot, olds, i + 1)

\* Two chains that stand at one place of two levels get there.
LevelsReach(new, old, mask, last, newRoot, oldRoot, proof, out, n) ==
  \A nodes, olds : \A c \in 0 .. last, i \in 0 .. n - 1 :
    /\ i = Shifted[<<mask, c>>]
    /\ last - c = BitsApart[<<i, n - 1>>]
    /\ Stand(new[c], old[c], nodes, olds, i)
    /\ Ends(proof, out + c, PathTo(nodes, n, i))
    /\ Rooted(newRoot, nodes, n) /\ Rooted(oldRoot, olds, i + 1)
    => Meets(new[last], old[last], newRoot, oldRoot, proof, out + last, Shifted[<<mask, last>>])

\* By descent to the smallest level for which they do not.
LEMMA InnerReaches ==
  ASSUME NEW new, NEW old, NEW sibling, NEW mask \in Nat, NEW last \in Nat,
         Joins(new, old, sibling, mask, last), NEW newRoot, NEW oldRoot,
         NEW proof, NEW out \in Nat, \A c \in 1 .. last : sibling[c] = proof[out + c]
  PROVE  \A n \in Nat \ {0} :
           LevelsReach(new, old, mask, last, newRoot, oldRoot, proof, out, n)
<1> DEFINE Reach(n) == LevelsReach(new, old, mask, last, newRoot, oldRoot, proof, out, n)
           Met == Meets(new[last], old[last], newRoot, oldRoot, proof, out + last,
                        Shifted[<<mask, last>>])
           Without == {n \in Nat \ {0} : ~Reach(n)}
<1>1. SUFFICES ASSUME Without # {}
               PROVE  FALSE
  BY <1>1
<1>2. PICK n \in Without : \A m \in Without : n <= m
  <2>1. Without \subseteq Nat
    OBVIOUS
  <2> HIDE DEF Without
  <2> QED
    BY <1>1, <2>1, LeastNumber
<1>3. n \in Nat \ {0} /\ ~Reach(n)
  OBVIOUS
<1> DEFINE Wrong(nodes, olds, c, i) ==
             /\ i = Shifted[<<mask, c>>]
             /\ last - c = BitsApart[<<i, n - 1>>]
             /\ Stand(new[c], old[c], nodes, olds, i)
             /\ Ends(proof, out + c, PathTo(nodes, n, i))
             /\ Rooted(newRoot, nodes, n) /\ Rooted(oldRoot, olds, i + 1)
             /\ ~Met
<1>4. PICK nodes, olds : \E c \in 0 .. last, i \in 0 .. n - 1 : Wrong(nodes, olds, c, i)
  <2>1. ASSUME \A nodes, olds : \A c \in 0 .. last, i \in 0 .. n - 1 : ~Wrong(nodes, olds, c, i)
        PROVE  Reach(n)
    BY <2>1, Zenon DEF LevelsReach
  <2> HIDE DEF Reach, Wrong
  <2> QED
    BY <1>3, <2>1
<1>5. PICK c \in 0 .. last, i \in 0 .. n - 1 : Wrong(nodes, olds, c, i)
  BY <1>4
<1>6. /\ i = Shifted[<<mask, c>>] /\ last - c = BitsApart[<<i, n - 1>>]
      /\ Stand(new[c], old[c], nodes, olds, i)
      /\ Ends(proof, out + c, PathTo(nodes, n, i))
      /\ Rooted(newRoot, nodes, n) /\ Rooted(oldRoot, olds, i + 1)
      /\ ~Met
  BY <1>5
<1>7. i \in Nat /\ i <= n - 1 /\ c \in Nat /\ c <= last /\ n \in Nat
  BY <1>3
<1> HIDE DEF Wrong
<1> DEFINE r == <<i, n - 1>>
           half == <<i \div 2, (n - 1) \div 2>>
           m == (n + 1) \div 2
           k == i \div 2
<1>8. /\ r \in Nat \X Nat /\ r[1] = i /\ r[2] = n - 1
      /\ half \in Nat \X Nat /\ (n - 1) \div 2 = m - 1
  BY <1>3
<1>9. BitsApart[r] = IF r[1] = r[2] THEN 0
                     ELSE 1 + BitsApart[<<r[1] \div 2, r[2] \div 2>>]
  <2> HIDE DEF r
  <2> QED
    BY <1>8, BitsApartDef
<1>10. CASE i = n - 1
  <2>1. c = last
    BY <1>6, <1>7, <1>8, <1>9, <1>10
  <2>2. i + 1 = n /\ i = Shifted[<<mask, last>>]
    <3>1. i + 1 = n
      <4> HIDE DEF Without
      <4> QED
        BY <1>7, <1>10
    <3>2. i = Shifted[<<mask, last>>]
      BY <1>6, <2>1, Zenon
    <3> QED
      BY <3>1, <3>2
  <2>3. Stand(new[last], old[last], nodes, olds, i)
        /\ Ends(proof, out + last, PathTo(nodes, i + 1, i))
        /\ Rooted(newRoot, nodes, i + 1) /\ Rooted(oldRoot, olds, i + 1)
    BY <1>6, <2>1, <2>2
  <2>4. Met
    BY <2>2, <2>3, Zenon DEF Meets
  <2> HIDE DEF Met
  <2> QED
    BY <1>6, <2>4
<1>11. CASE i # n - 1
  <2> DEFINE up == Pairs(nodes, n)
             upOld == Pairs(olds, i + 1)
             d == c + 1
             b == out + c
  <2>1. /\ i < n - 1 /\ m \in Nat \ {0} /\ m < n /\ k \in 0 .. m - 1 /\ b \in Nat
        /\ d \in 1 .. last + 1 /\ d - 1 = c /\ out + d = b + 1 /\ n \in Nat \ {0, 1}
    BY <1>3, <1>7, <1>11
  <2>2. last - d = BitsApart[half] /\ d \in 1 .. last
    <3>1. BitsApart[half] \in Nat
      <4> HIDE DEF half
      <4> QED
        BY <1>8, BitsApartType
    <3>2. BitsApart[r] = 1 + BitsApart[half]
      BY <1>8, <1>9, <1>11
    <3> HIDE DEF half, r
    <3> QED
      BY <1>6, <1>7, <3>1, <3>2 DEF r
  <2>3. Shifted[<<mask, d>>] = k
    <3> DEFINE next == <<mask, d>>
    <3>1. next \in Nat \X Nat /\ next[1] = mask /\ next[2] = d /\ next[2] # 0
          /\ next[2] - 1 = c
      BY <1>7
    <3> HIDE DEF next
    <3>2. Shifted[next] = Shifted[<<next[1], next[2] - 1>>] \div 2
      BY <3>1, ShiftedDef
    <3>3. Shifted[next] = Shifted[<<mask, c>>] \div 2
      BY <3>1, <3>2
    <3> QED
      BY <1>6, <3>3 DEF next
  <2>4. Rooted(newRoot, up, m) /\ Rooted(oldRoot, upOld, k + 1)
    <3>1. newRoot = Roots(up, m)[<<0, m>>]
      BY <1>3, <1>6, LevelRoot DEF Rooted
    <3>2. ((i + 1) + 1) \div 2 = k + 1 /\ i + 1 \in Nat \ {0}
      BY <1>7
    <3>3. Roots(olds, i + 1)[<<0, i + 1>>]
            = Roots(upOld, ((i + 1) + 1) \div 2)[<<0, ((i + 1) + 1) \div 2>>]
      BY <3>2, LevelRoot
    <3> HIDE DEF k
    <3> QED
      BY <1>6, <3>1, <3>2, <3>3 DEF Rooted
  <2>5. Reach(m)
    <3> HIDE DEF m, Reach
    <3>1. m \notin Without
      <4> HIDE DEF Without
      <4> QED
        BY <1>2, <1>3, <2>1
    <3> QED
      BY <2>1, <3>1
  <2>6. /\ Ends(proof, b + 1, PathTo(up, m, k))
        /\ proof[b + 1] = Beside(nodes, i)
    <3>1. ~Promoted(<<i, n>>)
      BY <1>11 DEF Promoted
    <3>2. Ends(proof, b, PathTo(nodes, n, i))
      BY <1>6
    <3> HIDE DEF b
    <3> QED
      BY <2>1, <3>1, <3>2, EndsUp
  <2>7. sibling[d] = Beside(nodes, i)
    <3>1. sibling[d] = proof[out + d]
      BY <2>2
    <3> HIDE DEF d, b
    <3> QED
      BY <2>1, <2>6, <3>1
  <2>8. Bit(mask, d - 1) = i % 2
    <3> HIDE DEF d
    <3> QED
      BY <1>6, <2>1 DEF Bit
  <2>9. /\ i % 2 = 1 => /\ new[d] = HashChildren(sibling[d], new[c])
                        /\ old[d] = HashChildren(sibling[d], old[c])
        /\ i % 2 = 0 => /\ new[d] = HashChildren(new[c], sibling[d])
                        /\ old[d] = old[c]
    <3> HIDE DEF d
    <3> QED
      BY <2>1, <2>2, <2>8 DEF Joins
  <2>10. Stand(new[d], old[d], up, upOld, k)
    <3> HIDE DEF d, b
    <3>1. CASE i % 2 = 1
      <4>1. /\ new[d] = HashChildren(nodes[i], new[c])
            /\ old[d] = HashChildren(nodes[i], old[c])
        BY <2>7, <2>9, <3>1 DEF Beside
      <4>2. Stand(HashChildren(nodes[i], new[c]), HashChildren(nodes[i], old[c]), up, upOld, k)
        BY <1>6, <1>7, <3>1, StandUp
      <4> HIDE DEF up, upOld, k
      <4> QED
        BY <4>1, <4>2
    <3>2. CASE i % 2 = 0
      <4>1. new[d] = HashChildren(new[c], nodes[i + 2]) /\ old[d] = old[c]
        BY <2>7, <2>9, <3>2 DEF Beside
      <4>2. Stand(HashChildren(new[c], nodes[i + 2]), old[c], up, upOld, k)
        BY <1>6, <1>7, <2>1, <3>2, StandUp
      <4> HIDE DEF up, upOld, k
      <4> QED
        BY <4>1, <4>2
    <3> QED
      BY <1>7, <3>1, <3>2
  <2>11. Met
    <3>1. BitsApart[<<k, m - 1>>] = BitsApart[half]
      BY <1>8
    <3>2. d \in 0 .. last /\ Ends(proof, out + d, PathTo(up, m, k))
      BY <2>1, <2>2, <2>6
    <3>3. LevelsReach(new, old, mask, last, newRoot, oldRoot, proof, out, m)
      BY <2>5
    <3> HIDE DEF Reach, up, upOld, half, d, b, m, k
    <3> QED
      BY <2>1, <2>2, <2>3, <2>4, <2>10, <3>1, <3>2, <3>3 DEF LevelsReach
  <2> HIDE DEF Met
  <2> QED
    BY <1>6, <2>11
<1> QED
  BY <1>10, <1>11

\* What the log sends is accepted as growth.
Accepts(proof, oldRoot, newRoot, old, n) ==
  Fits(Cut(old, n), proof) /\ Grown(proof, oldRoot, newRoot, old, n)

\* For an odd older size, from the last leaf of the older log.
LEMMA OddAccepts ==
  ASSUME NEW n \in Nat, NEW old \in 1 .. n - 1, old % 2 = 1,
         NEW nodes, NEW olds, \A j \in 1 .. old : nodes[j] = olds[j],
         NEW newRoot, NEW oldRoot, Rooted(newRoot, nodes, n), Rooted(oldRoot, olds, old)
  PROVE  Accepts(SubPath(nodes, n, old), oldRoot, newRoot, old, n)
<1> DEFINE cut == Cut(old, n)
           mask == old - 1
           proof == SubPath(nodes, n, old)
           path == PathTo(nodes, n, mask)
           seed == Seed(cut, proof, oldRoot)
           i == Shifted[<<mask, cut.inner>>]
<1>1. old \in Nat /\ old > 0 /\ mask \in Nat /\ n \in Nat \ {0} /\ mask \in 0 .. n - 1
      /\ mask + 1 = old /\ mask # n - 1 /\ old \in 1 .. old /\ n - 1 \in Nat
  OBVIOUS
<1>2. /\ cut.start = (IF old = 1 THEN 0 ELSE 1)
      /\ cut.mask = mask /\ mask = Shifted[<<mask, 0>>]
      /\ cut.inner \in Nat /\ cut.inner = BitsApart[<<mask, n - 1>>]
      /\ i \in Nat
      /\ cut.border \in Nat /\ cut.border = Ones[i]
  BY OddCut
<1>3. cut.inner > 0
  <2> DEFINE r == <<mask, n - 1>>
  <2>1. r \in Nat \X Nat /\ r[1] = mask /\ r[2] = n - 1 /\ r[1] # r[2]
        /\ <<r[1] \div 2, r[2] \div 2>> \in Nat \X Nat
    BY <1>1
  <2> HIDE DEF r, cut, mask
  <2>2. BitsApart[r] = 1 + BitsApart[<<r[1] \div 2, r[2] \div 2>>]
    BY <2>1, BitsApartDef
  <2>3. BitsApart[<<r[1] \div 2, r[2] \div 2>>] \in Nat
    BY <2>1, BitsApartType
  <2> QED
    BY <1>2, <2>2, <2>3 DEF r
<1>4. FromLeaf(proof, nodes, old, path)
  BY SubOfOdd
<1>5. Len(path) \in Nat
  <2> HIDE DEF mask
  <2> QED
    BY <1>1, PathToType
<1>6. nodes[old] = olds[old]
  BY <1>1
<1> HIDE DEF cut, proof, path, mask, i
<1>7. seed = nodes[old] /\ Ends(proof, cut.start, path)
  <2>1. CASE old = 1
    <3>1. oldRoot = olds[old]
      BY <2>1, RootOfOne DEF Rooted
    <3> QED
      BY <1>2, <1>4, <1>5, <1>6, <2>1, <3>1 DEF FromLeaf, Ends, Seed
  <2>2. CASE old # 1
    <3>1. Begins(proof, nodes[old], path) /\ cut.start = 1
      BY <1>2, <1>4, <2>2 DEF FromLeaf
    <3>2. Len(proof) = 1 + Len(path)
      BY <1>5, <3>1 DEF Begins
    <3>3. \A j \in 1 .. Len(path) : proof[1 + j] = path[j]
      <4> TAKE j \in 1 .. Len(path)
      <4>1. 1 + j = j + 1
        BY <1>5
      <4> QED
        BY <3>1, <4>1 DEF Begins
    <3>4. seed = nodes[old]
      BY <3>1 DEF Begins, Seed
    <3> QED
      BY <3>1, <3>2, <3>3, <3>4 DEF Ends
  <2> QED
    BY <2>1, <2>2
<1>8. cut.start \in Nat
  BY <1>2
<1>9. PICK new, last, sibling :
        /\ new[0] = seed /\ last[0] = seed
        /\ Joins(new, last, sibling, cut.mask, cut.inner)
        /\ \A c \in 1 .. cut.inner : sibling[c] = proof[cut.start + c]
        /\ new[cut.inner] = ChainInner(cut, seed, proof)
        /\ last[cut.inner] = ChainInnerRight(cut, seed, proof)
  <2>1. cut.inner \in Nat
    BY <1>2
  <2> HIDE DEF seed
  <2> QED
    BY ONLY <2>1, ChainsJoin
<1> DEFINE newTop == new[cut.inner]
           oldTop == last[cut.inner]
           out == cut.start + cut.inner
<1>10. PICK above, aboveOld, left :
        /\ above[0] = newTop /\ aboveOld[0] = oldTop
        /\ Climbs(above, left, cut.border) /\ Climbs(aboveOld, left, cut.border)
        /\ \A c \in 1 .. cut.border : left[c] = proof[cut.start + cut.inner + c]
        /\ above[cut.border] = ChainBorderRight(cut, newTop, proof)
        /\ aboveOld[cut.border] = ChainBorderRight(cut, oldTop, proof)
  <2>1. cut.border \in Nat
    BY <1>2
  <2> HIDE DEF newTop, oldTop
  <2> QED
    BY ONLY <2>1, BordersClimb
<1> HIDE DEF seed
<1>11. Meets(newTop, oldTop, newRoot, oldRoot, proof, out, i)
  <2>1. LevelsReach(new, last, mask, cut.inner, newRoot, oldRoot, proof, cut.start, n)
    BY <1>1, <1>2, <1>8, <1>9, InnerReaches
  <2>2. Stand(new[0], last[0], nodes, olds, mask)
    BY <1>1, <1>6, <1>7, <1>9 DEF Stand
  <2>3. Ends(proof, cut.start + 0, PathTo(nodes, n, mask))
    BY <1>7, <1>8 DEF path
  <2>4. 0 \in 0 .. cut.inner /\ cut.inner - 0 = BitsApart[<<mask, n - 1>>]
    BY <1>2
  <2> QED
    BY <1>1, <1>2, <2>1, <2>2, <2>3, <2>4 DEF LevelsReach, i
<1>12. PICK x, y : /\ Stand(newTop, oldTop, x, y, i)
                   /\ Ends(proof, out, PathTo(x, i + 1, i))
                   /\ Rooted(newRoot, x, i + 1) /\ Rooted(oldRoot, y, i + 1)
  BY <1>11 DEF Meets
<1>13. /\ Rooted(above[cut.border], x, i + 1) /\ Rooted(aboveOld[cut.border], y, i + 1)
       /\ Len(proof) = out + cut.border
  <2>1. i + 1 \in Nat \ {0} /\ (i + 1) - 1 = i /\ out \in Nat /\ 0 \in 0 .. cut.border
        /\ out + 0 = out /\ cut.border - 0 = Ones[i] /\ cut.border \in Nat
    BY <1>2, <1>8
  <2>2. \A c \in 1 .. cut.border : left[c] = proof[out + c]
    BY <1>10
  <2> HIDE DEF out, newTop, oldTop
  <2>3. EdgesReach(above, aboveOld, proof, out, cut.border, i + 1)
    BY <1>10, <2>1, <2>2, BorderReaches
  <2> QED
    BY <1>10, <1>12, <2>1, <2>3 DEF EdgesReach
<1>14. above[cut.border] = newRoot /\ aboveOld[cut.border] = oldRoot
  BY <1>12, <1>13 DEF Rooted
<1>15. Grown(proof, oldRoot, newRoot, old, n)
  BY <1>9, <1>10, <1>14 DEF Grown, OldRoot, NewRoot, cut, seed
<1>16. Fits(cut, proof)
  <2>1. Len(proof) = cut.start + cut.inner + cut.border /\ Len(proof) # 0
    BY <1>2, <1>3, <1>8, <1>13
  <2>2. proof # <<>>
    BY <2>1
  <2> QED
    BY <2>1, <2>2 DEF Fits
<1> QED
  BY <1>15, <1>16 DEF Accepts, cut, proof

\* What the log sends is accepted whenever the older log is a prefix of the newer.
GrowthAccepted(newRoot, oldRoot, n) ==
  \A nodes, olds : \A old \in 1 .. n - 1 :
    /\ \A j \in 1 .. old : nodes[j] = olds[j]
    /\ Rooted(newRoot, nodes, n) /\ Rooted(oldRoot, olds, old)
    => Accepts(SubPath(nodes, n, old), oldRoot, newRoot, old, n)

\* By descent to the smallest newer log: halved while the older size is even.
LEMMA GrowthAccepts ==
  ASSUME NEW oldRoot, NEW newRoot
  PROVE  \A n \in Nat : GrowthAccepted(newRoot, oldRoot, n)
<1> DEFINE Grow(n) == GrowthAccepted(newRoot, oldRoot, n)
           Without == {n \in Nat : ~Grow(n)}
<1>1. SUFFICES ASSUME Without # {}
               PROVE  FALSE
  BY <1>1
<1>2. PICK n \in Without : \A m \in Without : n <= m
  <2>1. Without \subseteq Nat
    OBVIOUS
  <2> HIDE DEF Without
  <2> QED
    BY <1>1, <2>1, LeastNumber
<1>3. n \in Nat /\ ~Grow(n)
  OBVIOUS
<1> DEFINE Right(nodes, olds, old) ==
             (\A j \in 1 .. old : nodes[j] = olds[j])
               /\ Rooted(newRoot, nodes, n) /\ Rooted(oldRoot, olds, old)
               => Accepts(SubPath(nodes, n, old), oldRoot, newRoot, old, n)
<1>4. PICK nodes, olds : \E old \in 1 .. n - 1 : ~Right(nodes, olds, old)
  <2>1. ASSUME \A nodes, olds : \A old \in 1 .. n - 1 : Right(nodes, olds, old)
        PROVE  Grow(n)
    BY ONLY <2>1, Zenon DEF GrowthAccepted
  <2> HIDE DEF Grow, Right
  <2> QED
    BY <1>3, <2>1
<1>5. PICK old \in 1 .. n - 1 : ~Right(nodes, olds, old)
  BY <1>4
<1>6. /\ \A j \in 1 .. old : nodes[j] = olds[j]
      /\ Rooted(newRoot, nodes, n) /\ Rooted(oldRoot, olds, old)
      /\ ~Accepts(SubPath(nodes, n, old), oldRoot, newRoot, old, n)
  BY <1>5
<1> HIDE DEF Right
<1>7. CASE old % 2 = 1
  BY <1>3, <1>6, <1>7, OddAccepts
<1>8. CASE old % 2 = 0
  <2> DEFINE k == old \div 2
             m == (n + 1) \div 2
             up == Pairs(nodes, n)
             upOld == Pairs(olds, old)
  <2>1. /\ old \in Nat \ {0} /\ n \in Nat \ {0} /\ k \in 1 .. m - 1 /\ k \in Nat /\ old = 2 * k
        /\ m \in Nat /\ m < n /\ (old + 1) \div 2 = k /\ old <= n
    BY <1>3, <1>8
  <2>2. Cut(old, n) = Cut(k, m) /\ SubPath(nodes, n, old) = SubPath(up, m, k)
    BY <1>3, <1>8, HalfCut, SubOfPairs
  <2>3. Rooted(newRoot, up, m)
    <3>1. newRoot = Roots(up, m)[<<0, m>>]
      BY <1>6, <2>1, LevelRoot DEF Rooted
    <3> HIDE DEF m, up
    <3> QED
      BY <3>1 DEF Rooted
  <2>4. Rooted(oldRoot, upOld, k)
    <3>1. Roots(olds, old)[<<0, old>>]
            = Roots(upOld, (old + 1) \div 2)[<<0, (old + 1) \div 2>>]
      BY <2>1, LevelRoot
    <3> HIDE DEF k, upOld
    <3> QED
      BY <1>6, <2>1, <3>1 DEF Rooted
  <2>5. Grow(m)
    <3> HIDE DEF m, Grow
    <3>1. m \notin Without
      <4> HIDE DEF Without
      <4> QED
        BY <1>2, <1>3, <2>1
    <3> QED
      BY <2>1, <3>1
  <2>6. \A j \in 1 .. k : up[j] = upOld[j]
    <3> SUFFICES ASSUME NEW j \in 1 .. k
                 PROVE  up[j] = upOld[j]
      OBVIOUS
    <3>1. /\ j \in 1 .. (n + 1) \div 2 /\ 2 * j <= n /\ j \in 1 .. (old + 1) \div 2
          /\ 2 * j <= old /\ 2 * j - 1 \in 1 .. old /\ 2 * j \in 1 .. old
      BY <2>1
    <3>2. /\ up[j] = HashChildren(nodes[2 * j - 1], nodes[2 * j])
          /\ upOld[j] = HashChildren(olds[2 * j - 1], olds[2 * j])
      BY <3>1 DEF Pairs
    <3> HIDE DEF up, upOld
    <3> QED
      BY <1>6, <3>1, <3>2
  <2>7. Accepts(SubPath(up, m, k), oldRoot, newRoot, k, m)
    <3> HIDE DEF m, k, up, upOld
    <3> QED
      BY <2>1, <2>3, <2>4, <2>5, <2>6 DEF GrowthAccepted
  <2>8. Accepts(SubPath(nodes, n, old), oldRoot, newRoot, old, n)
    <3> HIDE DEF m, k, up
    <3> QED
      BY <2>2, <2>7 DEF Accepts, Grown
  <2> QED
    BY <1>6, <2>8
<1>9. old % 2 = 0 \/ old % 2 = 1
  BY <1>3
<1> QED
  BY <1>7, <1>8, <1>9

\* For a log that keeps what it was, the path that RFC 6962 builds is accepted.
LEMMA HonestGrowth ==
  ASSUME NEW S, NEW older \in Seq(S), NEW newer \in Seq(S),
         Len(older) <= Len(newer), SubSeq(newer, 1, Len(older)) = older
  PROVE  VerifyConsistency(Len(older), Len(newer),
                           ConsistencyPath(newer, Len(older), Len(newer)),
                           MTH(older), MTH(newer))
<1> DEFINE o == Len(older)
           n == Len(newer)
           olds == Leaves(older)
           nodes == Leaves(newer)
           proof == ConsistencyPath(newer, o, n)
           oldRoot == MTH(older)
           newRoot == MTH(newer)
<1>1. o \in Nat /\ n \in Nat /\ DOMAIN older = 1 .. o /\ DOMAIN newer = 1 .. n /\ o <= n
  OBVIOUS
<1>2. Rooted(oldRoot, olds, o) /\ Rooted(newRoot, nodes, n)
  BY DEF Rooted, MTH, Subtree, Subtrees
<1>3. \A j \in 1 .. o : newer[j] = older[j]
  <2>1. \A j \in 1 .. o : SubSeq(newer, 1, o)[j] = newer[j]
    <3>1. 1 \in Int /\ o \in Int /\ \A j \in 1 .. o : j \in 1 .. n
      BY <1>1
    <3> QED
      BY <1>1, <3>1
  <2> QED
    BY <2>1
<1>4. \A j \in 1 .. o : nodes[j] = olds[j]
  BY <1>1, <1>3 DEF Leaves
<1>5. o = n => older = newer
  <2> SUFFICES ASSUME o = n
               PROVE  older = newer
    OBVIOUS
  <2>1. Len(older) = Len(newer) /\ \A j \in 1 .. Len(older) : older[j] = newer[j]
    BY <1>3
  <2> QED
    BY <2>1, SeqEqual
<1>6. CASE o = 0
  <2>1. proof = <<>>
    BY <1>6 DEF ConsistencyPath
  <2>2. n = 0 => oldRoot = newRoot
    <3> SUFFICES ASSUME n = 0
                 PROVE  oldRoot = newRoot
      OBVIOUS
    <3>1. older = newer
      BY <1>5, <1>6
    <3> QED
      BY <3>1
  <2> QED
    BY <1>6, <2>1, <2>2 DEF VerifyConsistency
<1>7. CASE o > 0 /\ o = n
  <2>1. oldRoot = newRoot
    BY <1>5, <1>7
  <2>2. proof = <<>>
    <3> DEFINE root == Subtrees(newer)
               r == <<0, n>>
    <3>1. o # 0
      BY <1>7
    <3>2. proof = SubProofs(root, n, n)[r]
      BY <1>7, <3>1 DEF ConsistencyPath
    <3>3. r \in Ranges(n) /\ r[1] = 0 /\ r[2] = n
      BY <1>1 DEF Ranges
    <3> HIDE DEF root, r, n
    <3>4. SubProofs(root, n, n)[r] = SubOver(SubProofs(root, n, n), root, n, r)
      BY <1>1, <1>7, <3>3, SubProofsDef
    <3> HIDE DEF proof
    <3> QED
      BY <3>2, <3>3, <3>4 DEF SubOver
  <2> QED
    BY <1>7, <2>1, <2>2 DEF VerifyConsistency
<1>8. CASE 0 < o /\ o < n
  <2>1. proof = SubPath(nodes, n, o)
    <3>1. o # 0
      BY <1>8
    <3> QED
      BY <3>1 DEF ConsistencyPath, SubPath, Subtrees
  <2>2. Accepts(proof, oldRoot, newRoot, o, n)
    <3>1. o \in 1 .. n - 1
      BY <1>1, <1>8
    <3> HIDE DEF o, n, oldRoot, newRoot, proof, nodes, olds
    <3>2. GrowthAccepted(newRoot, oldRoot, n)
      BY <1>1, GrowthAccepts
    <3> QED
      BY <1>2, <1>4, <2>1, <3>1, <3>2 DEF GrowthAccepted
  <2>3. VerifyGrowth(o, n, proof, oldRoot, newRoot)
    <3> HIDE DEF o, n, oldRoot, newRoot, proof
    <3> QED
      BY <2>2 DEF Accepts, Grown, VerifyGrowth
  <2> QED
    BY <1>8, <2>3 DEF VerifyConsistency
<1>9. o = 0 \/ (o > 0 /\ o = n) \/ (0 < o /\ o < n)
  <2> HIDE DEF o, n
  <2> QED
    BY <1>1
<1> QED
  BY <1>6, <1>7, <1>8, <1>9

-----------------------------------------------------------------------------
(* The client.                                                             *)

Log == Seq(Nat \X BOOLEAN)

\* A proof that is accepted verifies for the log as it is: the log and what was
\* seen of it stay as they are from the moment that there is a claim about them,
\* and the claim from the moment that it is judged.
AcceptedVerifies ==
  /\ log \in Log /\ seen \in Log
  /\ "kind" \in DOMAIN claim
  /\ claim = NoClaim => verdict = "none"
  /\ claim.kind = "inclusion" =>
       /\ {"index", "size"} \subseteq DOMAIN claim
       /\ claim.index \in Nat /\ claim.size \in Nat
  /\ Accepted("inclusion") =>
       VerifyInclusion(HashLeaf(claim.leaf), claim.index, claim.size, claim.proof, MTH(log))
  /\ Accepted("consistency") =>
       VerifyConsistency(Len(seen), Len(log), claim.proof, MTH(seen), MTH(log))

\* A rewritten leaf is a pair again.
LEMMA SecondReplaced ==
  ASSUME NEW a, NEW b, NEW v
  PROVE  [<<a, b>> EXCEPT ![2] = v] = <<a, v>>
<1> DEFINE pair == <<a, b>>
<1>1. pair = [j \in 1 .. 2 |-> IF j = 1 THEN a ELSE b]
  OBVIOUS
<1>2. <<a, v>> = [j \in 1 .. 2 |-> IF j = 1 THEN a ELSE v]
  OBVIOUS
<1> HIDE DEF pair
<1>3. [pair EXCEPT ![2] = v] = [j \in 1 .. 2 |-> IF j = 1 THEN a ELSE v]
  BY <1>1
<1>4. [pair EXCEPT ![2] = v] = <<a, v>>
  BY <1>2, <1>3, Zenon
<1> QED
  BY <1>4 DEF pair

\* The client that has no claim yet has none of either kind.
LEMMA NoClaimKind == NoClaim.kind = "none" /\ DOMAIN NoClaim = {"kind"}
BY DEF NoClaim

\* No claim has been accepted at first.
LEMMA AcceptedVerifiesInit == Init => AcceptedVerifies
<1> SUFFICES ASSUME Init
             PROVE  AcceptedVerifies
  OBVIOUS
<1>1. log \in Log /\ seen \in Log
  BY DEF Init, Log
<1>2. claim = NoClaim /\ verdict = "none"
  BY DEF Init
<1> QED
  BY <1>1, <1>2, NoClaimKind DEF AcceptedVerifies, Accepted

\* Every step of the log and of the client keeps it.
LEMMA AcceptedVerifiesStep == AcceptedVerifies /\ [Next]_vars => AcceptedVerifies'
<1> SUFFICES ASSUME AcceptedVerifies, [Next]_vars
             PROVE  AcceptedVerifies'
  OBVIOUS
<1>1. CASE NoClaimYet /\ log' \in Log /\ seen' \in Log
  <2>1. claim' = NoClaim /\ verdict' = "none" /\ log' \in Log /\ seen' \in Log
    BY <1>1 DEF NoClaimYet, AcceptedVerifies
  <2> QED
    BY <2>1, NoClaimKind DEF AcceptedVerifies, Accepted
<1>2. CASE Append1
  <2>1. Append(log, <<Len(log), FALSE>>) \in Log
    <3> DEFINE S == Nat \X BOOLEAN
               leaf == <<Len(log), FALSE>>
    <3>1. log \in Seq(S) /\ Len(log) \in Nat
      BY DEF AcceptedVerifies, Log
    <3>2. leaf \in S
      BY <3>1
    <3> HIDE DEF S, leaf
    <3>3. Append(log, leaf) \in Seq(S)
      BY <3>1, <3>2
    <3> QED
      BY <3>3 DEF Log, S, leaf
  <2> QED
    BY <1>1, <1>2, <2>1 DEF Append1, AcceptedVerifies
<1>3. CASE Rewrite
  <2>1. PICK i \in DOMAIN log : log' = [log EXCEPT ![i][2] = TRUE]
    BY <1>3 DEF Rewrite
  <2>2. log \in Seq(Nat \X BOOLEAN)
    BY DEF AcceptedVerifies, Log
  <2>3. log[i] \in Nat \X BOOLEAN
    BY <2>1, <2>2
  <2> DEFINE leaf == [log[i] EXCEPT ![2] = TRUE]
  <2>4. leaf \in Nat \X BOOLEAN
    <3> DEFINE rewritten == TRUE
    <3>1. rewritten \in BOOLEAN
      OBVIOUS
    <3> HIDE DEF rewritten
    <3>2. PICK a \in Nat, b \in BOOLEAN : log[i] = <<a, b>>
      BY <2>3
    <3>3. [log[i] EXCEPT ![2] = rewritten] = <<a, rewritten>>
      BY <3>2, SecondReplaced
    <3>4. [log[i] EXCEPT ![2] = rewritten] \in Nat \X BOOLEAN
      BY <3>1, <3>3
    <3> QED
      BY <3>4 DEF rewritten
  <2>5. log' = [log EXCEPT ![i] = leaf]
    BY <2>1
  <2> HIDE DEF leaf
  <2>6. log' \in Log
    <3> DEFINE S == Nat \X BOOLEAN
    <3>1. log \in Seq(S) /\ i \in 1 .. Len(log) /\ leaf \in S
      BY <2>1, <2>2, <2>4
    <3> HIDE DEF S
    <3>2. [log EXCEPT ![i] = leaf] \in Seq(S)
      BY <3>1, ExceptSeq
    <3> QED
      BY <2>5, <3>2 DEF Log, S
  <2> QED
    BY <1>1, <1>3, <2>6 DEF Rewrite, AcceptedVerifies
<1>4. CASE Observe
  <2>1. log' \in Log /\ seen' \in Log
    BY <1>4 DEF Observe, AcceptedVerifies
  <2> QED
    BY <1>1, <1>4, <2>1 DEF Observe
<1>5. CASE ProveInclusion
  <2>1. PICK i \in 0 .. Len(log) - 1 :
          Claims([kind |-> "inclusion", leaf |-> log[i + 1], index |-> i,
                  size |-> Len(log), proof |-> Path(log, i, Len(log))])
    BY <1>5 DEF ProveInclusion
  <2>2. verdict' = "none" /\ log' = log /\ log \in Log /\ seen' \in Log
    BY <2>1 DEF Claims, AcceptedVerifies
  <2>3. /\ DOMAIN claim' = {"kind", "leaf", "index", "size", "proof"}
        /\ claim'.index = i /\ claim'.size = Len(log)
    BY <2>1 DEF Claims
  <2>4. Len(log) \in Nat /\ i \in Nat
    BY <2>2 DEF Log
  <2> QED
    BY <2>2, <2>3, <2>4 DEF AcceptedVerifies, Accepted
<1>6. CASE ProveConsistency
  <2>1. /\ verdict' = "none" /\ log' = log /\ log \in Log /\ seen' \in Log
        /\ claim' = [kind |-> "consistency",
                     proof |-> ConsistencyPath(log, Len(seen), Len(log))]
    BY <1>6 DEF ProveConsistency, Claims, AcceptedVerifies
  <2>2. claim'.kind = "consistency" /\ "kind" \in DOMAIN claim'
    BY <2>1
  <2> QED
    BY <2>1, <2>2 DEF AcceptedVerifies, Accepted
<1>7. CASE Alter
  <2>1. verdict' = "none" /\ log' = log /\ log \in Log /\ seen' \in Log
    BY <1>7 DEF Alter, AcceptedVerifies
  <2>2. CASE AlterHashes
    <3>1. \E proof : claim' = [claim EXCEPT !.proof = proof]
      BY <2>2 DEF AlterHashes
    <3>2. /\ DOMAIN claim' = DOMAIN claim /\ claim'.kind = claim.kind
          /\ claim.kind = "inclusion" => claim'.index = claim.index /\ claim'.size = claim.size
      BY <3>1 DEF AcceptedVerifies
    <3> QED
      BY <2>1, <3>2 DEF AcceptedVerifies, Accepted
  <2>3. CASE AlterPlace
    <3>1. claim.kind = "inclusion" /\ {"kind", "index", "size"} \subseteq DOMAIN claim
      BY <2>3 DEF AlterPlace, AcceptedVerifies
    <3>2. /\ DOMAIN claim' = DOMAIN claim
          /\ claim'.index \in Nat /\ claim'.size \in Nat
      <4>1. CASE \E i \in 0 .. MaxSize - 1 : claim' = [claim EXCEPT !.index = i]
        BY <3>1, <4>1, BoundsAssumption DEF AcceptedVerifies
      <4>2. CASE \E n \in 0 .. MaxSize : claim' = [claim EXCEPT !.size = n]
        BY <3>1, <4>2, BoundsAssumption DEF AcceptedVerifies
      <4>3. CASE claim' = [claim EXCEPT !.leaf[2] = ~@]
        BY <3>1, <4>3 DEF AcceptedVerifies
      <4> QED
        BY <2>3, <4>1, <4>2, <4>3 DEF AlterPlace
    <3> QED
      BY <2>1, <3>1, <3>2 DEF AcceptedVerifies, Accepted
  <2> QED
    BY <1>7, <2>2, <2>3 DEF Alter
<1>8. CASE CheckInclusion
  <2>1. log' = log /\ seen' = seen /\ claim' = claim /\ claim.kind = "inclusion"
    BY <1>8 DEF CheckInclusion, Judge
  <2>2. verdict' = "accepted" =>
          VerifyInclusion(HashLeaf(claim.leaf), claim.index, claim.size, claim.proof, MTH(log))
    BY <1>8 DEF CheckInclusion, Judge
  <2> QED
    BY <2>1, <2>2, NoClaimKind DEF AcceptedVerifies, Accepted
<1>9. CASE CheckConsistency
  <2>1. log' = log /\ seen' = seen /\ claim' = claim /\ claim.kind = "consistency"
    BY <1>9 DEF CheckConsistency, Judge
  <2>2. verdict' = "accepted" =>
          VerifyConsistency(Len(seen), Len(log), claim.proof, MTH(seen), MTH(log))
    BY <1>9 DEF CheckConsistency, Judge
  <2> QED
    BY <2>1, <2>2, NoClaimKind DEF AcceptedVerifies, Accepted
<1>10. CASE UNCHANGED vars
  BY <1>10 DEF vars, AcceptedVerifies, Accepted
<1> QED
  BY <1>2, <1>3, <1>4, <1>5, <1>6, <1>7, <1>8, <1>9, <1>10 DEF Next

\* So it holds in every state.
LEMMA AlwaysVerifies == Spec => []AcceptedVerifies
BY AcceptedVerifiesInit, AcceptedVerifiesStep, PTL DEF Spec

\* Whatever proof is accepted, for logs and proofs of any length: the leaf is one
\* of the log's, and at its index when the size is the log's (proof.rs,
\* verify_inclusion_proof).
THEOREM AcceptedLeafIsLoggedHolds == Spec => []AcceptedLeafIsLogged
<1>1. AcceptedVerifies => AcceptedLeafIsLogged
  <2> SUFFICES ASSUME AcceptedVerifies, Accepted("inclusion")
               PROVE  /\ \E i \in DOMAIN log : log[i] = claim.leaf
                      /\ claim.size = Len(log) => log[claim.index + 1] = claim.leaf
    BY DEF AcceptedLeafIsLogged
  <2> DEFINE leaf == claim.leaf
             index == claim.index
             size == claim.size
             proof == claim.proof
  <2>1. /\ VerifyInclusion(HashLeaf(leaf), index, size, proof, MTH(log))
        /\ index \in Nat /\ size \in Nat
    BY DEF AcceptedVerifies, Accepted
  <2>2. Len(log) \in Nat /\ DOMAIN log = 1 .. Len(log)
    BY DEF AcceptedVerifies, Log
  <2> HIDE DEF leaf, index, size, proof
  <2>3. Len(proof) \in Nat
    <3>1. Siblings[<<index, size>>] \in Nat
      <4> DEFINE r == <<index, size>>
      <4>1. r \in Nat \X Nat
        BY <2>1
      <4> HIDE DEF r
      <4>2. Siblings[r] \in Nat
        BY <4>1, SiblingsType
      <4> QED
        BY <4>2 DEF r
    <3> QED
      BY <2>1, <3>1 DEF VerifyInclusion, ExpectedLength
  <2>4. \E i \in DOMAIN log : log[i] = leaf
    <3>1. RootFromInclusion(HashLeaf(leaf), index, size, proof) = MTH(log)
      BY <2>1 DEF VerifyInclusion
    <3> QED
      BY <2>2, <2>3, <3>1, AcceptedIsLeaf
  <2>5. size = Len(log) => log[index + 1] = leaf
    <3> SUFFICES ASSUME size = Len(log)
                 PROVE  log[index + 1] = leaf
      OBVIOUS
    <3>1. VerifyInclusion(HashLeaf(leaf), index, Len(log), proof, MTH(log))
      BY <2>1
    <3> QED
      BY <2>1, <2>2, <2>3, <3>1, AcceptedIsAtIndex
  <2> QED
    BY <2>4, <2>5 DEF leaf, index, size
<1> QED
  BY <1>1, AlwaysVerifies, PTL

\* Whatever proof is accepted, for logs and proofs of any length: the log that the
\* client has seen is a prefix of the newer one (proof.rs,
\* verify_consistency_proof).
THEOREM AcceptedGrowthKeepsHistoryHolds == Spec => []AcceptedGrowthKeepsHistory
<1>1. AcceptedVerifies => AcceptedGrowthKeepsHistory
  <2> SUFFICES ASSUME AcceptedVerifies, Accepted("consistency")
               PROVE  SubSeq(log, 1, Len(seen)) = seen
    BY DEF AcceptedGrowthKeepsHistory
  <2> DEFINE S == Nat \X BOOLEAN
  <2>1. log \in Seq(S) /\ seen \in Seq(S)
    BY DEF AcceptedVerifies, Log
  <2>2. VerifyConsistency(Len(seen), Len(log), claim.proof, MTH(seen), MTH(log))
    BY DEF AcceptedVerifies
  <2> HIDE DEF S
  <2> QED
    BY <2>1, <2>2, AcceptedIsPrefix
<1> QED
  BY <1>1, AlwaysVerifies, PTL

Included(i) ==
  [kind |-> "inclusion", leaf |-> log[i + 1], index |-> i,
   size |-> Len(log), proof |-> Path(log, i, Len(log))]

Grew == [kind |-> "consistency", proof |-> ConsistencyPath(log, Len(seen), Len(log))]

\* A claim that nobody altered is one that the log sends for itself and for what was
\* seen of it; and what is rejected does not verify.
RejectedFails ==
  /\ alterations \in Nat
  /\ alterations = 0 /\ claim.kind = "inclusion" =>
       \E i \in 0 .. Len(log) - 1 : claim = Included(i)
  /\ alterations = 0 /\ claim.kind = "consistency" =>
       Len(seen) <= Len(log) /\ claim = Grew
  /\ verdict = "rejected" =>
       \/ /\ claim.kind = "inclusion"
          /\ ~VerifyInclusion(HashLeaf(claim.leaf), claim.index, claim.size, claim.proof,
                              MTH(log))
       \/ /\ claim.kind = "consistency"
          /\ ~VerifyConsistency(Len(seen), Len(log), claim.proof, MTH(seen), MTH(log))

\* No claim has been rejected at first.
LEMMA RejectedFailsInit == Init => RejectedFails
BY NoClaimKind DEF Init, RejectedFails

\* Every step of the log and of the client keeps it.
LEMMA RejectedFailsStep ==
  AcceptedVerifies /\ RejectedFails /\ [Next]_vars => RejectedFails'
<1> SUFFICES ASSUME AcceptedVerifies, RejectedFails, [Next]_vars
             PROVE  RejectedFails'
  OBVIOUS
<1>1. CASE NoClaimYet
  <2>1. claim' = NoClaim /\ verdict' = "none" /\ alterations' \in Nat
    BY <1>1 DEF NoClaimYet, AcceptedVerifies, RejectedFails
  <2> QED
    BY <2>1, NoClaimKind DEF RejectedFails
<1>2. CASE ProveInclusion
  <2>1. PICK i \in 0 .. Len(log) - 1 : Claims(Included(i))
    BY <1>2 DEF ProveInclusion, Included
  <2>2. /\ claim' = Included(i) /\ log' = log /\ verdict' = "none" /\ alterations' \in Nat
        /\ claim'.kind = "inclusion"
    BY <2>1 DEF Claims, AcceptedVerifies, RejectedFails, Included
  <2>3. \E j \in 0 .. Len(log') - 1 : claim' = Included(j)'
    BY <2>2 DEF Included
  <2> QED
    BY <2>2, <2>3 DEF RejectedFails
<1>3. CASE ProveConsistency
  <2>1. /\ claim' = Grew /\ log' = log /\ seen' = seen /\ verdict' = "none"
        /\ alterations' \in Nat /\ Len(seen) <= Len(log)
    BY <1>3 DEF ProveConsistency, Claims, AcceptedVerifies, RejectedFails, Grew
  <2>2. claim'.kind = "consistency" /\ claim' = Grew' /\ Len(seen') <= Len(log')
    BY <2>1 DEF Grew
  <2> QED
    BY <2>1, <2>2 DEF RejectedFails
<1>4. CASE Alter
  <2>1. alterations' \in Nat \ {0} /\ verdict' = "none"
    BY <1>4 DEF Alter, RejectedFails
  <2> QED
    BY <2>1 DEF RejectedFails
<1>5. CASE CheckInclusion
  <2>1. log' = log /\ seen' = seen /\ claim' = claim /\ alterations' = alterations
    BY <1>5 DEF CheckInclusion, Judge
  <2>2. verdict' = "rejected" =>
          /\ claim.kind = "inclusion"
          /\ ~VerifyInclusion(HashLeaf(claim.leaf), claim.index, claim.size, claim.proof,
                              MTH(log))
    BY <1>5 DEF CheckInclusion, Judge
  <2> QED
    BY <2>1, <2>2 DEF RejectedFails, Included, Grew
<1>6. CASE CheckConsistency
  <2>1. log' = log /\ seen' = seen /\ claim' = claim /\ alterations' = alterations
    BY <1>6 DEF CheckConsistency, Judge
  <2>2. verdict' = "rejected" =>
          /\ claim.kind = "consistency"
          /\ ~VerifyConsistency(Len(seen), Len(log), claim.proof, MTH(seen), MTH(log))
    BY <1>6 DEF CheckConsistency, Judge
  <2> QED
    BY <2>1, <2>2 DEF RejectedFails, Included, Grew
<1>7. CASE UNCHANGED vars
  BY <1>7 DEF vars, RejectedFails, Included, Grew
<1> QED
  BY <1>1, <1>2, <1>3, <1>4, <1>5, <1>6, <1>7 DEF Next, Append1, Rewrite, Observe

\* What the log sends for a leaf, or for a log that it has kept, is accepted: for
\* logs of any length (proof.rs, verify_inclusion_proof and
\* verify_consistency_proof).
THEOREM HonestProofsAreAcceptedHolds == Spec => []HonestProofsAreAccepted
<1>1. AcceptedVerifies /\ RejectedFails => HonestProofsAreAccepted
  <2> SUFFICES ASSUME AcceptedVerifies, RejectedFails, alterations = 0,
                      claim.kind = "consistency" => SubSeq(log, 1, Len(seen)) = seen,
                      verdict = "rejected"
               PROVE  FALSE
    BY DEF HonestProofsAreAccepted
  <2>1. log \in Log /\ seen \in Log
    BY DEF AcceptedVerifies
  <2>2. CASE claim.kind = "inclusion"
    <3>1. PICK i \in 0 .. Len(log) - 1 : claim = Included(i)
      BY <2>2 DEF RejectedFails
    <3>2. Len(log) \in Nat /\ DOMAIN log = 1 .. Len(log)
      BY <2>1 DEF Log
    <3>3. VerifyInclusion(HashLeaf(log[i + 1]), i, Len(log), Path(log, i, Len(log)), MTH(log))
      BY <3>2, HonestInclusion
    <3>4. /\ claim.leaf = log[i + 1] /\ claim.index = i /\ claim.size = Len(log)
          /\ claim.proof = Path(log, i, Len(log))
      BY <3>1 DEF Included
    <3>5. claim.kind # "consistency"
      BY <2>2
    <3> QED
      BY <3>3, <3>4, <3>5 DEF RejectedFails
  <2>3. CASE claim.kind = "consistency"
    <3>1. Len(seen) <= Len(log) /\ claim.proof = ConsistencyPath(log, Len(seen), Len(log))
      BY <2>3 DEF RejectedFails, Grew
    <3>2. VerifyConsistency(Len(seen), Len(log), ConsistencyPath(log, Len(seen), Len(log)),
                            MTH(seen), MTH(log))
      <4> DEFINE S == Nat \X BOOLEAN
      <4>1. log \in Seq(S) /\ seen \in Seq(S)
        BY <2>1 DEF Log
      <4>2. SubSeq(log, 1, Len(seen)) = seen
        BY <2>3
      <4> HIDE DEF S
      <4> QED
        BY <3>1, <4>1, <4>2, HonestGrowth
    <3>3. claim.kind # "inclusion"
      BY <2>3
    <3> QED
      BY <3>1, <3>2, <3>3 DEF RejectedFails
  <2> QED
    BY <2>2, <2>3 DEF RejectedFails
<1>2. Spec => []RejectedFails
  <2>1. Init /\ []AcceptedVerifies /\ [][Next]_vars => []RejectedFails
    BY RejectedFailsInit, RejectedFailsStep, PTL
  <2> QED
    BY <2>1, AlwaysVerifies, PTL DEF Spec
<1> QED
  BY <1>1, <1>2, AlwaysVerifies, PTL
===============================================================================
