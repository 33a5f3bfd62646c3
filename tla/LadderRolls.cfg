SPECIFICATION Spec
CONSTANTS
  Buckets = {1}
  K = 2
  RungLots <- TwoRungs
  NMin = 1
  MaxAmends = 2
  MaxSets = 2
  HoldOn = TRUE
  MaxCoid = 5
  Contexts <- Jump
  Clocks <- Ringing
  PollOn = FALSE
  Unreadable = FALSE
  Crossing = FALSE
  Rejecting = TRUE
  MaxLots = 0
INVARIANTS
  LadderPriceUnique
  AwaitingClear
PROPERTIES
  NoQuoteAfterEnd
