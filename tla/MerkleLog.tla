------------------------------ MODULE MerkleLog ------------------------------
(***************************************************************************)
(* A client that checks the proofs of a transparency log with              *)
(* sigstore-merkle.                                                        *)
(*                                                                         *)
(* log is the log as its operator publishes it and seen what it was when   *)
(* the client took its last checkpoint; Append, Rewrite and Observe are    *)
(* the operator's and the client's steps around the crate.  claim is the   *)
(* proof in hand with everything it is checked against.  Proofs are built  *)
(* as RFC 6962 says and then altered up to MaxAlterations times: an index, *)
(* a size or a hash of it, or a hash dropped or repeated.                  *)
(*                                                                         *)
(* Leaf i is <<i, FALSE>>, and <<i, TRUE>> in a log that was rewritten at  *)
(* its place.                                                              *)
(***************************************************************************)
EXTENDS Merkle

CONSTANTS
  MaxSize,          \* leaves in the longest log
  MaxAlterations    \* alterations of one proof

ASSUME BoundsAssumption == MaxSize \in Nat \ {0} /\ MaxAlterations \in Nat

VARIABLES log, seen, claim, verdict, alterations

vars == <<log, seen, claim, verdict, alterations>>

NoClaim == [kind |-> "none"]

Init ==
  /\ log = <<>>
  /\ seen = <<>>
  /\ claim = NoClaim
  /\ verdict = "none"
  /\ alterations = 0

-----------------------------------------------------------------------------
(* The log and its checkpoints.                                            *)

NoClaimYet == claim = NoClaim /\ UNCHANGED <<claim, verdict, alterations>>

Append1 ==
  /\ NoClaimYet
  /\ Len(log) < MaxSize
  /\ log' = Append(log, <<Len(log), FALSE>>)
  /\ UNCHANGED seen

\* The operator publishes another history of the same size.
Rewrite ==
  /\ NoClaimYet
  /\ \A i \in DOMAIN log : ~log[i][2]
  /\ \E i \in DOMAIN log : log' = [log EXCEPT ![i][2] = TRUE]
  /\ UNCHANGED seen

Observe ==
  /\ NoClaimYet
  /\ seen = <<>>
  /\ seen' = log
  /\ UNCHANGED log

-----------------------------------------------------------------------------
(* Proofs.                                                                 *)

Claims(c) ==
  /\ claim = NoClaim
  /\ claim' = c
  /\ UNCHANGED <<log, seen, verdict, alterations>>

ProveInclusion ==
  \E i \in 0 .. Len(log) - 1 :
     Claims([kind |-> "inclusion", leaf |-> log[i + 1], index |-> i,
             size |-> Len(log), proof |-> Path(log, i, Len(log))])

ProveConsistency ==
  /\ Len(seen) <= Len(log)
  /\ Claims([kind |-> "consistency",
             proof |-> ConsistencyPath(log, Len(seen), Len(log))])

\* Hashes of the ranges of leaves of the two logs.
KnownHashes ==
  UNION {{Subtree(l, from, to) : from, to \in 0 .. Len(l)} : l \in {log, seen}}
    \ {EmptyRoot}

AlterHashes ==
  \/ \E i \in DOMAIN claim.proof, hash \in KnownHashes :
        claim' = [claim EXCEPT !.proof[i] = hash]
  \/ \E hash \in KnownHashes : claim' = [claim EXCEPT !.proof = Append(@, hash)]
  \/ claim.proof # <<>> /\ claim' = [claim EXCEPT !.proof = Tail(@)]

AlterPlace ==
  /\ claim.kind = "inclusion"
  /\ \/ \E i \in 0 .. MaxSize - 1 : claim' = [claim EXCEPT !.index = i]
     \/ \E n \in 0 .. MaxSize : claim' = [claim EXCEPT !.size = n]
     \/ claim' = [claim EXCEPT !.leaf[2] = ~@]

Alter ==
  /\ claim # NoClaim
  /\ verdict = "none"
  /\ alterations < MaxAlterations
  /\ alterations' = alterations + 1
  /\ AlterHashes \/ AlterPlace
  /\ UNCHANGED <<log, seen, verdict>>

-----------------------------------------------------------------------------
(* Verification.                                                           *)

Judge(accepted) ==
  /\ verdict = "none"
  /\ verdict' = IF accepted THEN "accepted" ELSE "rejected"
  /\ UNCHANGED <<log, seen, claim, alterations>>

CheckInclusion ==
  /\ claim.kind = "inclusion"
  /\ Judge(VerifyInclusion(HashLeaf(claim.leaf), claim.index, claim.size,
                           claim.proof, MTH(log)))

CheckConsistency ==
  /\ claim.kind = "consistency"
  /\ Judge(VerifyConsistency(Len(seen), Len(log), claim.proof, MTH(seen), MTH(log)))

Next ==
  \/ Append1
  \/ Rewrite
  \/ Observe
  \/ ProveInclusion
  \/ ProveConsistency
  \/ Alter
  \/ CheckInclusion
  \/ CheckConsistency

Spec == Init /\ [][Next]_vars

-----------------------------------------------------------------------------
Accepted(kind) == claim.kind = kind /\ verdict = "accepted"

\* Whatever proof comes with it, a leaf that is accepted for the root of a
\* tree is a leaf of that tree; and if the size it was checked with is the
\* tree's, it stands at the index it was checked with
\* (proof.rs, verify_inclusion_proof).
AcceptedLeafIsLogged ==
  Accepted("inclusion") =>
    /\ \E i \in DOMAIN log : log[i] = claim.leaf
    /\ claim.size = Len(log) => log[claim.index + 1] = claim.leaf

\* Whatever proof comes with it, a newer root is accepted after an older one
\* only if the older log is a prefix of the newer: a rewritten history is
\* noticed (proof.rs, verify_consistency_proof).
AcceptedGrowthKeepsHistory ==
  Accepted("consistency") => SubSeq(log, 1, Len(seen)) = seen

\* What RFC 6962 tells the log to send is accepted, for every leaf, size and
\* pair of sizes: the lengths the code computes, its left and right, and the
\* promoted nodes at the right edge agree with the log's.
HonestProofsAreAccepted ==
  alterations = 0 /\ (claim.kind = "consistency" => SubSeq(log, 1, Len(seen)) = seen)
     => verdict # "rejected"
=============================================================================
