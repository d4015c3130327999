SPECIFICATION MCSpec
CONSTANTS
  d1 = d1
  d2 = d2
  w1 = w1
  w2 = w2
  Domains <- MCDomains
  Selectors = {"s"}
  Slots <- MCSlots
  Sweeps <- MCSweeps
  Rechecks = {"r"}
  Nobody = Nobody
  NoDomain = NoDomain
  Stale = 1
  MaxClock = 3
  MaxEdits = 1
  MaxFaults = 1
CHECK_DEADLOCK FALSE
INVARIANTS
  LatestIsOneRun
  RunsTellTheTruth
PROPERTIES
  DueIsChecked
