------------------------------- MODULE Merkle -------------------------------
(***************************************************************************)
(* RFC 6962 Merkle trees (sigstore-merkle) with symbolic hashes: the hash  *)
(* of a leaf is <<leaf>>, that of two children <<left, right>>.  Hashes    *)
(* are equal only if what was hashed is, and no leaf is an inner node,     *)
(* which is what the two prefixes of tree.rs are for.                      *)
(*                                                                         *)
(* MTH, Path and SubProofs are the definitions of RFC 6962, section 2.1,   *)
(* the log's side.  The rest is what the crate verifies.                   *)
(***************************************************************************)
EXTENDS Integers, Sequences

HashLeaf(leaf) == <<leaf>>
HashChildren(left, right) == <<left, right>>
EmptyRoot == <<>>

-----------------------------------------------------------------------------
(* The log.  Split is the size of the left subtree.                        *)

Split[n \in Nat \ {0, 1}] == IF n <= 2 THEN 1 ELSE 2 * Split[(n + 1) \div 2]

\* The hash over the nodes from r[1] to r[2], counted from 0, to excluded, of the
\* first so many.
Roots(nodes, number) ==
  LET root[r \in (0 .. number) \X (0 .. number)] ==
        LET mid == r[1] + Split[r[2] - r[1]]
        IN IF r[2] <= r[1] THEN EmptyRoot
           ELSE IF r[2] = r[1] + 1 THEN nodes[r[2]]
           ELSE HashChildren(root[<<r[1], mid>>], root[<<mid, r[2]>>])
  IN root

Leaves(log) == [i \in DOMAIN log |-> HashLeaf(log[i])]

Subtrees(log) == Roots(Leaves(log), Len(log))

Subtree(log, from, to) == Subtrees(log)[<<from, to>>]

MTH(log) == Subtree(log, 0, Len(log))

\* Sibling hashes from leaf m of the first n up to the root over each range.
Paths(root, m, n) ==
  LET path[r \in (0 .. n) \X (0 .. n)] ==
        LET mid == r[1] + Split[r[2] - r[1]]
        IN IF r[2] <= r[1] + 1 THEN <<>>
           ELSE IF m < mid THEN Append(path[<<r[1], mid>>], root[<<mid, r[2]>>])
           ELSE Append(path[<<mid, r[2]>>], root[<<r[1], mid>>])
  IN path

Path(log, m, n) == Paths(Subtrees(log), m, n)[<<0, n>>]

\* What leads from the first m of the first n leaves up to each root; the root over
\* all m is known.
SubProofs(root, m, n) ==
  LET sub[r \in (0 .. n) \X (0 .. n)] ==
        LET mid == r[1] + Split[r[2] - r[1]]
        IN IF r[2] = m THEN IF r[1] = 0 THEN <<>> ELSE <<root[r]>>
           ELSE IF r[2] <= r[1] + 1 THEN <<>>
           ELSE IF m <= mid THEN Append(sub[<<r[1], mid>>], root[<<mid, r[2]>>])
           ELSE Append(sub[<<mid, r[2]>>], root[<<r[1], mid>>])
  IN sub

\* What shows that the first m of the first n leaves are an older log.
ConsistencyPath(log, m, n) ==
  IF m = 0 THEN <<>> ELSE SubProofs(Subtrees(log), m, n)[<<0, n>>]

-----------------------------------------------------------------------------
(* Inclusion.                                                              *)

\* One sibling for every level on which the node is not promoted.
Siblings[r \in Nat \X Nat] ==
  IF r[2] <= 1 THEN 0
  ELSE Siblings[<<r[1] \div 2, (r[2] + 1) \div 2>>]
         + IF r[2] % 2 = 1 /\ r[1] = r[2] - 1 THEN 0 ELSE 1

ExpectedLength(index, size) == Siblings[<<index, size>>]

\* Mutant: the node at the right edge of an incomplete level is forgotten.
OnTheRightByParity(at) == at.index % 2 = 1

OnTheRight(at) == at.index % 2 = 1 \/ at.index = at.last

Climb(at, sibling) ==
  [hash |-> IF OnTheRight(at) THEN HashChildren(sibling, at.hash)
                              ELSE HashChildren(at.hash, sibling),
   index |-> at.index \div 2,
   last |-> at.last \div 2]

\* Where the hash stands when so many siblings are used up.
Ascent(leafHash, index, size, proof) ==
  LET at[c \in 0 .. Len(proof)] ==
        IF c = 0 THEN [hash |-> leafHash, index |-> index, last |-> size - 1]
                 ELSE Climb(at[c - 1], proof[c])
  IN at

RootFromInclusion(leafHash, index, size, proof) ==
  Ascent(leafHash, index, size, proof)[Len(proof)].hash

\* Mutant: the number of hashes is not compared with the place in the tree.
VerifyInclusionAnyLength(leafHash, index, size, proof, root) ==
  /\ index < size
  /\ RootFromInclusion(leafHash, index, size, proof) = root

VerifyInclusion(leafHash, index, size, proof, root) ==
  /\ index < size
  /\ Len(proof) = ExpectedLength(index, size)
  /\ RootFromInclusion(leafHash, index, size, proof) = root

-----------------------------------------------------------------------------
(* Consistency.                                                            *)

Power[n \in Nat] == IF n = 0 THEN 1 ELSE 2 * Power[n - 1]

\* r[1] without its last r[2] bits.
Shifted[r \in Nat \X Nat] ==
  IF r[2] = 0 THEN r[1] ELSE Shifted[<<r[1], r[2] - 1>>] \div 2

Bit(n, i) == Shifted[<<n, i>>] % 2

Ones[n \in Nat] == IF n = 0 THEN 0 ELSE (n % 2) + Ones[n \div 2]

TrailingZeros[n \in Nat \ {0}] ==
  IF n % 2 = 1 THEN 0 ELSE 1 + TrailingZeros[n \div 2]

\* Bits up to the highest one in which two numbers differ.
BitsApart[r \in Nat \X Nat] ==
  IF r[1] = r[2] THEN 0 ELSE 1 + BitsApart[<<r[1] \div 2, r[2] \div 2>>]

Join(side, hash, sibling) ==
  CASE side = "left"  -> HashChildren(sibling, hash)
    [] side = "right" -> HashChildren(hash, sibling)
    [] side = "none"  -> hash

\* The hash after each of so many hashes of the proof, the first ones left out.
\* Each is on one side of the hash so far, or belongs to the other tree.
Chain(seed, proof, out, number, sides) ==
  LET hash[i \in 0 .. number] ==
        IF i = 0 THEN seed ELSE Join(sides[i], hash[i - 1], proof[out + i])
  IN hash

\* How a proof between two trees of different, positive sizes is cut: whether
\* it starts with the root of the largest perfect subtree at the right edge of
\* the older tree, how many hashes join below the level where the two edges
\* part, and how many above it.
Cut(old, new) ==
  LET shift == TrailingZeros[old]
      apart == BitsApart[<<old - 1, new - 1>>]
  IN [start  |-> IF old = Power[shift] THEN 0 ELSE 1,
      inner  |-> IF apart > shift THEN apart - shift ELSE 0,
      border |-> Ones[Shifted[<<old - 1, apart>>]],
      mask   |-> Shifted[<<old - 1, shift>>]]

Fits(cut, proof) ==
  proof # <<>> /\ Len(proof) = cut.start + cut.inner + cut.border

Seed(cut, proof, oldRoot) == IF cut.start = 0 THEN oldRoot ELSE proof[1]

Inner(cut, seed, proof, sides) ==
  Chain(seed, proof, cut.start, cut.inner, sides)[cut.inner]

ChainInner(cut, seed, proof) ==
  Inner(cut, seed, proof,
        [i \in 1 .. cut.inner |-> IF Bit(cut.mask, i - 1) = 0 THEN "right" ELSE "left"])

ChainInnerRight(cut, seed, proof) ==
  Inner(cut, seed, proof,
        [i \in 1 .. cut.inner |-> IF Bit(cut.mask, i - 1) = 1 THEN "left" ELSE "none"])

ChainBorderRight(cut, seed, proof) ==
  Chain(seed, proof, cut.start + cut.inner, cut.border,
        [i \in 1 .. cut.border |-> "left"])[cut.border]

OldRoot(cut, proof, oldRoot) ==
  ChainBorderRight(cut, ChainInnerRight(cut, Seed(cut, proof, oldRoot), proof), proof)

NewRoot(cut, proof, oldRoot) ==
  ChainBorderRight(cut, ChainInner(cut, Seed(cut, proof, oldRoot), proof), proof)

\* Mutant: only the newer root is compared.
VerifyGrowthNewRootOnly(old, new, proof, oldRoot, newRoot) ==
  LET cut == Cut(old, new)
  IN Fits(cut, proof) /\ NewRoot(cut, proof, oldRoot) = newRoot

VerifyGrowth(old, new, proof, oldRoot, newRoot) ==
  LET cut == Cut(old, new)
  IN /\ Fits(cut, proof)
     /\ OldRoot(cut, proof, oldRoot) = oldRoot
     /\ NewRoot(cut, proof, oldRoot) = newRoot

VerifyConsistency(old, new, proof, oldRoot, newRoot) ==
  \/ old = 0 /\ proof = <<>> /\ (new = 0 => oldRoot = newRoot)
  \/ old > 0 /\ old = new /\ proof = <<>> /\ oldRoot = newRoot
  \/ 0 < old /\ old < new /\ VerifyGrowth(old, new, proof, oldRoot, newRoot)
=============================================================================
