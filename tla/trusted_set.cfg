CONSTANTS
  Key = {"k1", "k2", "k3"}
  Digest <- MCDigest
  DelegatedName = {"bin"}
  RootDoc <- MCRootDoc
  TimestampDoc <- MCTimestampDoc
  SnapshotDoc <- MCSnapshotDoc
  TargetsDoc <- MCTargetsDoc
  NoDoc = NoDoc
  NoPin = NoPin
  NoDigest = NoDigest
  Time = {1, 2}
SPECIFICATION Spec
INVARIANTS
  TypeOK
  VerifiedUnderRoot
  PinnedBySnapshot
  DelegationAuthorized
PROPERTY NeverBelowFloor
CHECK_DEADLOCK FALSE
