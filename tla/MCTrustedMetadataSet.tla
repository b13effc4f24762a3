-------------------------- MODULE MCTrustedMetadataSet --------------------------
(***************************************************************************)
(* A small world for TrustedMetadataSet: three generations of the root (the *)
(* second rotates the timestamp, snapshot and targets keys, the third the  *)
(* root key), documents of each role signed before and after the rotation, *)
(* re-issued at the same version, pinning backwards, dropping a pin, and    *)
(* pinned with and without a digest.                                       *)
(***************************************************************************)
EXTENDS TrustedMetadataSet

By(ks, n) == [keyids |-> ks, threshold |-> n]

MCRoot(v, rootKeys, lowerKeys, signers) ==
  [version |-> v, expires |-> 2, consistent |-> TRUE,
   roles |-> [r \in TopLevelRole |->
                IF r = "root" THEN rootKeys ELSE lowerKeys],
   signers |-> signers, repeated |-> {}]

MCRootDoc ==
  { MCRoot(1, By({"k1", "k2"}, 2), By({"k1"}, 1), {"k1", "k2"}),
    MCRoot(2, By({"k1", "k2"}, 2), By({"k2"}, 1), {"k1", "k2"}),
    MCRoot(2, By({"k2"}, 1), By({"k2"}, 1), {"k2"}),
    MCRoot(3, By({"k3"}, 1), By({"k2"}, 1), {"k1", "k2", "k3"}),
    MCRoot(3, By({"k3"}, 1), By({"k2"}, 1), {"k1", "k2"}),
    [MCRoot(1, By({"k1"}, 1), By({"k1"}, 0), {"k1"}) EXCEPT !.repeated = {"k1"}] }

Pinning(v, digest) == [version |-> v, digest |-> digest]

MCTimestamp(v, expires, pin, ks) ==
  [version |-> v, expires |-> expires, snap |-> pin, signers |-> ks, repeated |-> {}]

MCTimestampDoc ==
  { MCTimestamp(1, 1, Pinning(1, NoDigest), {"k1"}),
    MCTimestamp(2, 2, Pinning(2, "s2"), {"k1", "k2"}),
    MCTimestamp(3, 2, Pinning(1, NoDigest), {"k1"}),
    MCTimestamp(3, 2, NoPin, {"k1"}),
    MCTimestamp(4, 2, Pinning(1, "s1"), {"k1"}),
    MCTimestamp(4, 2, Pinning(3, NoDigest), {"k2"}) }

MCSnapshot(v, expires, digest, targetsPin, binPin, ks) ==
  [version |-> v, expires |-> expires, digest |-> digest,
   meta |-> [r \in TargetsRole |-> IF r = "targets" THEN targetsPin ELSE binPin],
   signers |-> ks, repeated |-> {}]

MCSnapshotDoc ==
  { MCSnapshot(1, 1, "s1", Pinning(1, "t1"), Pinning(1, "b1"), {"k1"}),
    MCSnapshot(1, 2, "s1b", Pinning(1, NoDigest), Pinning(1, NoDigest), {"k1"}),
    MCSnapshot(2, 2, "s2", Pinning(2, "t2"), Pinning(1, "b1"), {"k1", "k2"}),
    MCSnapshot(3, 2, "s3", Pinning(1, NoDigest), Pinning(1, "b1"), {"k2"}),
    MCSnapshot(3, 2, "s3b", Pinning(2, "t2"), NoPin, {"k2"}) }

MCTargets(v, digest, binKeys, ks) ==
  [version |-> v, expires |-> 2, digest |-> digest,
   delegations |-> [r \in RoleName |->
                      IF r \in {"bin", "snapshot"} THEN binKeys ELSE By({}, 0)],
   signers |-> ks, repeated |-> {}]

MCTargetsDoc ==
  { MCTargets(1, "t1", By({"k1"}, 1), {"k1"}),
    MCTargets(1, "t1b", By({"k3"}, 1), {"k1"}),
    MCTargets(2, "t2", By({"k2", "k3"}, 1), {"k1", "k2"}),
    MCTargets(1, "b1", By({}, 0), {"k1"}),
    MCTargets(1, "b1b", By({}, 0), {"k3"}) }

MCDigest == {"s1", "s1b", "s2", "s3", "s3b", "t1", "t1b", "t2", "b1", "b1b"}
===============================================================================
