SPECIFICATION Spec
CONSTANTS
  Sources = {"sub$1-flip", "Q1-strangle", "wide-box"}
  Pairs <- PairsBySource
  Costs = {3, 6}
  Bids = {2}
  Dollar = 10
  EntryCost = 10
  Ceiling = 10
  BoxCostMax = 11
  MaxRetries = 1
  MaxAttempts = 3
  MaxLost = 1
  MaxPolls = 1
INVARIANTS
  NoSpuriousS3
  NeverOverbought
  LedgerTruth
  UnpairedIsStopped
