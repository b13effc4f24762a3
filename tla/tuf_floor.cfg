CONSTANTS
  Key = {"k1", "k2"}
  Digest <- MCDigest
  DelegatedName = {"bin"}
  RootDoc <- HonestRoots
  TimestampDoc <- FarTimestamps
  SnapshotDoc <- FarSnapshots
  TargetsDoc <- FarTargets
  NoDoc = NoDoc
  NoPin = NoPin
  NoDigest = NoDigest
  FetchError = FetchError
  Updater = {u1}
  WithStore = {u1}
  Offline = {}
  PinnedRoot <- R1
  MaxRotations = 1
  MayBeLost = {}
  MayCrash = {u1}
  MaxTime = 2
  HonestFrom = 2
  Published <- RecoveringRepo
  InitialStore <- EmptyStore
  RootsOnly = {}
SPECIFICATION PollingSpec
PROPERTIES
  FloorSpansRuns
  RefreshReturns
  Recovers
