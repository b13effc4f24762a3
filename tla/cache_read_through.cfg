CONSTANTS
  Task = {t1, t2}
  Discarding = {t2}
  MaxVersion = 2
  TTL = 1
  MaxCuts = 1
  Absent = Absent
  Torn = Torn
  NoAnswer = NoAnswer
  Failed = Failed
SPECIFICATION PollingSpec
INVARIANTS
  TypeOK
  LiveEntryIsFresh
PROPERTIES
  Converges
