SPECIFICATION Spec
CONSTANTS
  Member = {m1, m2}
  Glass = {g}
  Request = {r1, r2}
  Slot = {s1, s2}
  None = None
  Steps = 2
  Work = 3
SYMMETRY Symmetric
CHECK_DEADLOCK FALSE
INVARIANTS
  ChangesSignOut
  SecretsWorkOnce
  SecondFactor
PROPERTIES
  AnAdminRemains
