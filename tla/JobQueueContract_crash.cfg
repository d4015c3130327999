SPECIFICATION FairSpec
CONSTANTS
  Job = {j1}
  Key = {k1}
  NoKey = NoKey
  Worker = {w1, w2}
  Slot = {s1}
  NoWorker = NoWorker
  NoHolder = NoHolder
  MaxAttempts = 2
  AttemptCap = 4
  BackoffBase = 1
  BackoffMax = 1
  Stale = 1
  Keep = 1
  MaxRun = 1
  Losses <- Unbounded
PROPERTIES
  CrashingJobFailsOut
