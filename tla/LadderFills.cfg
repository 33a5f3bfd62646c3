SPECIFICATION Spec
CONSTANTS
  Buckets = {1}
  K = 1
  RungLots <- OneRung
  NMin = 1
  MaxAmends = 1
  MaxSets = 2
  HoldOn = TRUE
  MaxCoid = 4
  Contexts <- Climb
  Clocks <- Calm
  PollOn = TRUE
  Unreadable = FALSE
  Crossing = TRUE
  Rejecting = TRUE
  MaxLots = 2
INVARIANTS
  NoNakedFill
