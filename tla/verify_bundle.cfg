CONSTANTS
  Unset = Unset
  Other = Other
  a = a
  b = b
  Skew = 1
  Root <- MCRoot
  Request <- MCRequest
  Signing <- MCSigning
  Logs <- MCLogs
  MinTime <- MCMinTime
  MaxTime <- MCMaxTime
SPECIFICATION Spec
INVARIANTS
  TypeOK
  AcceptedWasLogged
  TimeWasAttested
  GenuineIsAccepted
  AcceptedStaysAccepted
CHECK_DEADLOCK FALSE
