SPECIFICATION FairSpec
CONSTANTS
  Buckets = {1}
  K = 1
  RungLots <- OneRung
  NMin = 1
  MaxAmends = 1
  MaxSets = 2
  HoldOn = TRUE
  MaxCoid = 3
  Contexts <- Flicker
  Clocks <- Calm
  PollOn = FALSE
  Unreadable = FALSE
  Crossing = FALSE
  Rejecting = TRUE
  MaxLots = 0
INVARIANTS
  NoUnownedRest
PROPERTIES
  EventuallyFlat
  OutstandingDrains
