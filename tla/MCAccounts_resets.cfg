SPECIFICATION Spec
CONSTANTS
  Member = {m1}
  Glass = {}
  Request = {r1, r2}
  Slot = {s1, s2}
  None = None
  Steps = 1
  Work = 3
CHECK_DEADLOCK FALSE
INVARIANTS
  ResetsEndSignIns
