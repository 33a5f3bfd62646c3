SPECIFICATION Spec
CONSTANTS
  Buckets = {1}
  MaxBatches = 1
  MaxLots = 2
  MaxTakes = 3
  Nows <- Timed
  RateLimited = TRUE
  Lossy = TRUE
  ConfirmFails = TRUE
INVARIANTS
  PendingUnderWay
  NeverOverHedged
