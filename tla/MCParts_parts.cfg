SPECIFICATION PartsSpec
CONSTANTS
  root = root
  sub = sub
  rep = rep
  Name = {root, sub}
  Lineage <- MCLineage
  Key = {rep}
  Published <- MCPublished
  Froms <- MCFroms
  Facts <- MCFacts
  Ingester = {own, hosted}
  NoDomain = NoDomain
  Gone = Gone
  NoRow = NoRow
  Check = {c1, c2}
  None = None
  MaxEvents = 2
  Window = 3
  Wait = 2
  MaxAge = 5
  End = 8
  Ids = {1, 2, 3, 4}
  Keys = {1, 2}
  Shown = {1, 3, 4}
  Limit = 2
  MaxRowEdits = 2
  Hosts <- MCHosts
  Root = "r"
  SpfRecords <- MCSpfRecords
  MaxDepth = 2
  MaxLookups = 3
  MaxVoidLookups = 1
  Checked = {"dmarc", "spf"}
  Weight <- MCWeight
  FindingSets <- MCFindingSets
  Counts <- MCCounts
  RatingDays = 2
  MinVolume = 3
  MinPass = 980
  StableDays = 2
  RecentDays = 2
  BaselineDays = 1
  MinDays = 1
  MinRecent = 4
  MinBaseline = 4
  MinExcess = 1
  MinChange = 2
  ExactBelow = 6
  MaxDay = 3
  MaxChanges = 3
SYMMETRY Alike
CHECK_DEADLOCK FALSE
INVARIANTS
  VerdictsHold
  AttributionHolds
  OneActivePerKey
  WindowHolds
  WaitSuffices
  ListIsComplete
  SpfVerdictIsTrue
  ReadyIsRecommended
  FewerPassesNeverLookBetter
PROPERTIES
  NothingIsLost
  BetterNeverScoresWorse
