CONSTANTS
  Key = {"k1", "k2"}
  Digest <- MCDigest
  DelegatedName = {"bin"}
  RootDoc <- OneRoot
  TimestampDoc <- HonestTimestamps
  SnapshotDoc <- HonestSnapshots
  TargetsDoc <- HonestTargets
  NoDoc = NoDoc
  NoPin = NoPin
  NoDigest = NoDigest
  FetchError = FetchError
  Updater = {u1, u2}
  WithStore = {u1, u2}
  Offline = {}
  PinnedRoot <- R1
  MaxRotations = 2
  MayBeLost = {}
  MayCrash = {u1}
  MaxTime = 0
  HonestFrom = 2
  Published = NoDoc
  InitialStore <- EmptyStore
  RootsOnly = {}
SPECIFICATION Spec
PROPERTIES
  FloorSpansRuns
