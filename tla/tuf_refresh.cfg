CONSTANTS
  Key = {"k1", "k2"}
  Digest <- MCDigest
  DelegatedName = {"bin"}
  RootDoc <- MixedRoots
  TimestampDoc <- MixedTimestamps
  SnapshotDoc <- MixedSnapshots
  TargetsDoc <- MixedTargets
  NoDoc = NoDoc
  NoPin = NoPin
  NoDigest = NoDigest
  FetchError = FetchError
  Updater = {u1, u2}
  WithStore = {u1, u2}
  Offline = {}
  PinnedRoot <- R1
  MaxRotations = 1
  MayBeLost = {"root_history/N.root.json"}
  MayCrash = {u1}
  MaxTime = 1
  HonestFrom = 2
  Published = NoDoc
  InitialStore <- EmptyStore
  RootsOnly = {u2}
SPECIFICATION Spec
CONSTRAINT RootChainOnly
INVARIANTS
  TypeOK
  CompletedIsCurrent
  HistoryChains
PROPERTIES
  OnlyVerifiedSteps
