CONSTANTS
  Process = {p1, p2}
  Instance = {"github", "public"}
  GivenDir = {"d"}
  Target = {"trusted_root", "signing_config"}
  p1 = p1
  p2 = p2
  Uses <- MCUses
  Request <- MCRequest
  Embedded <- MCEmbedded
  MaxGeneration = 2
  Content <- MCContent
  Garbage = Garbage
  NoFile = NoFile
  Undirected = Undirected
SPECIFICATION FairSpec
CONSTRAINT OnePublic
INVARIANTS
  TypeOK
  OneGeneration
  ServedWasPublished
PROPERTIES
  OfflineServesKept
  FetchReturns
