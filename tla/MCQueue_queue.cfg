SPECIFICATION QueueSpec
CONSTANTS
  Job = {j1, j2}
  Key = {k1}
  NoKey = NoKey
  Worker = {w1, w2}
  Slot = {s1}
  NoWorker = NoWorker
  NoHolder = NoHolder
  MaxAttempts = 3
  AttemptCap = 5
  BackoffBase = 1
  BackoffMax = 1
  Stale = 1
  Keep = 1
  MaxRun = 1
  Losses = 1
  OrgList <- MCOrgList
  Names <- MCNames
  Slots <- MCSlots
  OrgOf <- MCOrgOf
  Home = {"a"}
  Refresher = "job"
  Readers = {"r"}
  MaxEdits = 3
CHECK_DEADLOCK FALSE
INVARIANTS
  ClaimsHold
PROPERTIES
  KeepsContract
  QueueProgresses
  RefreshLeavesNothingHandled
  ResolvedStays
  RefreshKeepsUp
