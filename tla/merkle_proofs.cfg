CONSTANTS
  MaxSize = 9
  MaxAlterations = 1
SPECIFICATION Spec
INVARIANTS
  AcceptedLeafIsLogged
  AcceptedGrowthKeepsHistory
  HonestProofsAreAccepted
CHECK_DEADLOCK FALSE
