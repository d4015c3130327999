SPECIFICATION UpgradeSpec
CONSTANTS
  Modes = {"compose", "azure"}
  Newest = 4
  Stable <- MCStable
  Revision <- MCRevision
  Runs = {u1}
  MaxFaults = 1
  MaxHelpers = 2
  k1 = k1
  k2 = k2
  Stops <- MCStops
  Keys <- MCKeys
  MaxUses = 2
SYMMETRY MCSymmetry
INVARIANTS
  SchemaCoversApp
  OverlapsKeepSchema
  CommittedIsItsVersion
  RunsStopOnlyOverRows
  LatestIsTheModels
  OrganizationsStandApart
  RowsFitVersion
PROPERTIES
  UpdatesGoForward
