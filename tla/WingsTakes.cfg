SPECIFICATION Spec
CONSTANTS
  Buckets = {1, 2}
  MaxBatches = 2
  MaxLots = 2
  MaxTakes = 3
  Nows <- Partial
  RateLimited = FALSE
  Lossy = FALSE
  ConfirmFails = FALSE
INVARIANTS
  HeldIsBought
  OneOrderPerLeg
