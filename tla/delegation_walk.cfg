CONSTANTS
  Role <- MCRole
  Path = {"p"}
  MaxDelegations = 3
  Repository <- Graphs
  NoRole = NoRole
SPECIFICATION Spec
INVARIANTS
  TypeOK
  VisitedIsDelegated
  FollowsPreorder
  VisitsBounded
PROPERTY SearchEnds
