SPECIFICATION FairFleetSpec
CONSTANTS
  poll1 = poll1
  Job = {j1}
  Key = {poll1}
  NoKey = NoKey
  Worker = {w1, w2}
  Slot = {s1}
  NoWorker = NoWorker
  MaxAttempts = 1
  AttemptCap = 2
  BackoffBase = 1
  BackoffMax = 1
  Stale = 1
  Keep = 0
  MaxRun = 1
  Losses = 1
  Agenda <- OnePoll
  Reap = Reap
  Interval <- EveryTick
  ApiKey = {poll1}
  Nobody = Nobody
  Ghost = Ghost
  Faults = 1
PROPERTIES
  PassesHold
  ImplementsQueue
  FleetProgresses
