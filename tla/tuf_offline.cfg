CONSTANTS
  Key = {"k1", "k2"}
  Digest <- MCDigest
  DelegatedName = {"bin"}
  RootDoc <- HonestRoots
  TimestampDoc <- HonestTimestamps
  SnapshotDoc <- HonestSnapshots
  TargetsDoc <- HonestTargets
  NoDoc = NoDoc
  NoPin = NoPin
  NoDigest = NoDigest
  FetchError = FetchError
  Updater = {u1, u2}
  WithStore = {u1}
  Offline = {u2}
  PinnedRoot <- R3
  MaxRotations = 3
  MayBeLost = {}
  MayCrash = {}
  MaxTime = 2
  HonestFrom = 0
  Published <- SteadyRepo
  InitialStore <- EmptyStore
  RootsOnly = {}
SPECIFICATION PollingSpec
PROPERTIES
  OfflineReverifies
