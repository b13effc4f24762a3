------------------------------ MODULE MCTufUpdater ------------------------------
(***************************************************************************)
(* Small worlds for TufUpdater.  The honest publisher issues                *)
(*   root 1 and root 2 (same keys, k1 everywhere):                           *)
(*     timestamp 1 -> snapshot 1 -> targets 1,                               *)
(*     timestamp 2 -> snapshot 2 -> targets 2;                               *)
(*   root 3 (the lower roles move to k2):                                    *)
(*     timestamp 3 -> snapshot 3 -> targets 3.                               *)
(* Documents of one generation overlap in time with those of the next.      *)
(***************************************************************************)
EXTENDS TufUpdater

By(ks) == [keyids |-> ks, threshold |-> 1]
NoOne == [keyids |-> {}, threshold |-> 0]

MkRoot(v, expires, lower, signers) ==
  [version |-> v, expires |-> expires, consistent |-> TRUE,
   roles |-> [r \in TopLevelRole |-> IF r = "root" THEN By({"k1"}) ELSE By(lower)],
   signers |-> signers, repeated |-> {}]
MkTimestamp(v, expires, snap, digest, k) ==
  [version |-> v, expires |-> expires, snap |-> [version |-> snap, digest |-> digest],
   signers |-> {k}, repeated |-> {}]
MkSnapshot(v, expires, digest, targets, bin, k) ==
  [version |-> v, expires |-> expires, digest |-> digest,
   meta |-> [r \in TargetsRole |->
               LET p == IF r = "targets" THEN targets ELSE bin
               IN IF p = 0 THEN NoPin ELSE [version |-> p, digest |-> NoDigest]],
   signers |-> {k}, repeated |-> {}]
MkTargets(v, expires, digest, k) ==
  [version |-> v, expires |-> expires, digest |-> digest,
   delegations |-> [r \in RoleName |-> IF r = "bin" THEN By({"k1"}) ELSE NoOne],
   signers |-> {k}, repeated |-> {}]

R1 == MkRoot(1, 1, {"k1"}, {"k1"})
R2 == MkRoot(2, 2, {"k1"}, {"k1"})
R3 == MkRoot(3, 2, {"k2"}, {"k1"})
T1 == MkTimestamp(1, 1, 1, "s1", "k1")
T2 == MkTimestamp(2, 1, 2, NoDigest, "k1")
T3 == MkTimestamp(3, 2, 3, "s3", "k2")
S1 == MkSnapshot(1, 1, "s1", 1, 0, "k1")
S2 == MkSnapshot(2, 2, "s2", 2, 0, "k1")
S3 == MkSnapshot(3, 2, "s3", 3, 1, "k2")
G1 == MkTargets(1, 1, "g1", "k1")
G2 == MkTargets(2, 1, "g2", "k1")
G3 == MkTargets(3, 2, "g3", "k2")
B1 == MkTargets(1, 2, "b1", "k1")

MCDigest == {"s1", "s2", "s2b", "s3", "g1", "g2", "g2b", "g3", "b1"}
EmptyStore == {[f \in {} |-> NoDoc]}

HonestRoots == {R1, R2, R3}
HonestTimestamps == {T1, T2, T3}
HonestSnapshots == {S1, S2, S3}
HonestTargets == {G1, G2, G3, B1}

-----------------------------------------------------------------------------
(* Documents of a publisher that makes mistakes or has lost a key: a root 2  *)
(* that rotates and one by a key of its own that root 1 does not trust, a    *)
(* timestamp that pins nothing, one already expired, a second snapshot 2 and *)
(* a second targets 2.                                                      *)

R2k == MkRoot(2, 1, {"k2"}, {"k1"})
Usurper == [MkRoot(2, 1, {"k2"}, {"k2"}) EXCEPT !.roles["root"] = By({"k2"})]
MixedRoots == {R1, R2k, Usurper, MkRoot(3, 1, {"k2"}, {"k1"})}
MixedTimestamps ==
  { MkTimestamp(1, 1, 1, NoDigest, "k1"), MkTimestamp(2, 0, 2, "s2b", "k2"),
    MkTimestamp(3, 1, 2, NoDigest, "k2"),
    [MkTimestamp(4, 1, 0, NoDigest, "k2") EXCEPT !.snap = NoPin] }
MixedSnapshots ==
  { MkSnapshot(1, 0, "s1", 1, 1, "k1"), MkSnapshot(2, 1, "s2", 2, 0, "k2"),
    MkSnapshot(2, 1, "s2b", 2, 1, "k2") }
MixedTargets == { G1, MkTargets(2, 0, "g2", "k2"), MkTargets(2, 1, "g2b", "k2") }

OneRoot == {R1}

CONSTANT RootsOnly   \* bound: these clients go no further than the root chain

RootChainOnly ==
  \A u \in RootsOnly : pc[u] \in {"boot", "idle", "root"} /\ now[u] = 0

-----------------------------------------------------------------------------
(* Honest mirrors.  One serves the third generation all along.  The other    *)
(* starts with a repository whose versions ran far ahead, and recovers at    *)
(* time 2 with root 3, a new key and low versions.                          *)

Repo == [f \in { RootFile(1), RootFile(2), RootFile(3), <<"timestamp">>,
                 <<"snapshot", 3>>, <<"targets", 3>>, <<"bin", 1>> } |->
  CASE f = RootFile(1) -> R1
    [] f = RootFile(2) -> R2
    [] f = RootFile(3) -> R3
    [] f = <<"timestamp">> -> T3
    [] f = <<"snapshot", 3>> -> S3
    [] f = <<"targets", 3>> -> G3
    [] f = <<"bin", 1>> -> B1]
SteadyRepo == [t \in Time |-> Repo]

Tfar == MkTimestamp(9, 2, 9, NoDigest, "k1")
Sfar == MkSnapshot(9, 2, "s2b", 9, 0, "k1")
Gfar == MkTargets(9, 2, "g2b", "k1")

FarTimestamps == {T1, T2, T3, Tfar}
FarSnapshots == {S1, S2, S3, Sfar}
FarTargets == {G1, G2, G3, B1, Gfar}

FarRepo == [f \in { RootFile(1), RootFile(2), <<"timestamp">>,
                    <<"snapshot", 9>>, <<"targets", 9>> } |->
  CASE f = RootFile(1) -> R1
    [] f = RootFile(2) -> R2
    [] f = <<"timestamp">> -> Tfar
    [] f = <<"snapshot", 9>> -> Sfar
    [] f = <<"targets", 9>> -> Gfar]
RecoveringRepo == [t \in Time |-> IF t < 2 THEN FarRepo ELSE Repo]

-----------------------------------------------------------------------------
TMS(u) == INSTANCE TrustedMetadataSet WITH trusted <- trusted[u]

\* Whatever an Updater reads from the mirror or from a store shared with others,
\* its trusted set only changes by the operations of TrustedMetadataSet, or by a
\* new process starting from the pinned root (client.rs, cache.rs: "re-runs every
\* signature/version/expiry check").
OnlyVerifiedSteps ==
  [][\A u \in Updater :
       trusted'[u] # trusted[u] =>
         TMS(u)!Next \/ trusted'[u] = FromRoot(PinnedRoot)]_vars
===============================================================================
