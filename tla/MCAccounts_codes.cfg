SPECIFICATION Spec
CONSTANTS
  Member = {m1}
  Glass = {}
  Request = {r1}
  Slot = {s1, s2}
  None = None
  Steps = 2
  Work = 3
CHECK_DEADLOCK FALSE
PROPERTIES
  EachCodeWorksOnce
