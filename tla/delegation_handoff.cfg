CONSTANTS
  Role <- MCRole
  Path = {"p", "q"}
  MaxDelegations = 4
  Repository <- TwoParents
  NoRole = NoRole
SPECIFICATION Spec
INVARIANT VouchedByDelegator
