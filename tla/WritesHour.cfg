SPECIFICATION Spec
CONSTANTS
  c1 = c1
  c2 = c2
  Coids = {c1, c2}
  Strays = {x}
  Wings = {w}
  Size = 2
  Reserve = 1
  CostCreate = 1
  CostCancel = 1
  Workers <- OneWorker
  RetryWait = 1
  Ladders <- LadderChoices
  WingOrders = 2
  WingBatchMax = 1
  MaxRejects = 1
  MaxRetries = 1
  MaxFaults = 1
CHECK_DEADLOCK FALSE
INVARIANTS
  CancelledMeansGone
  NothingLeftResting
  NoFalseViolation
PROPERTIES
  HeadroomKept
