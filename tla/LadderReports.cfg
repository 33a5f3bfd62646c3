SPECIFICATION Spec
CONSTANTS
  Buckets = {1, 2}
  K = 1
  RungLots <- HeavyRung
  NMin = 1
  MaxAmends = 1
  MaxSets = 2
  HoldOn = TRUE
  MaxCoid = 2
  Contexts <- TwoBuckets
  Clocks <- Calm
  PollOn = FALSE
  Unreadable = TRUE
  Crossing = FALSE
  Rejecting = FALSE
  MaxLots = 2
INVARIANTS
  HedgedAtMostOnce
