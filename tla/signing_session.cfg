CONSTANTS
  Flow = {f1, f2}
  f1 = f1
  f2 = f2
  a = a
  b = b
  Port = {q}
  Expiry = {1, 9}
  Oob = Oob
  None = None
  Malformed = Malformed
  TufConfig <- MCTufConfig
  DefaultUrl <- MCDefaultUrl
  Default <- MCDefault
  Job <- MCJob
  Fulcio <- MCFulcio
  Rekor <- MCRekor
  Tsa <- MCTsa
  InLog <- MCInLog
  Prove <- HonestProof
  Lifetime = 1
  MaxTime = 3
  MaxAttempts = 2
  Unset = Unset
  Root <- MCRoot
  Skew = 1
SPECIFICATION SessionSpec
CONSTRAINT OneAtATime
INVARIANTS
  SessionTypeOK
  RedirectedCodeIsHonoured
  LogIsAccountable
  BestEndpoint
  ReturnedVerifies
  AcceptedWasTimely
CHECK_DEADLOCK FALSE
