SPECIFICATION Spec
CONSTANTS
  Buckets = {1, 2}
  Allotments = {1, 2}
  Modes = {"armed", "dry"}
  Contexts <- MCContexts
  MaxOrders = 2
  MaxCoids = 3
  MaxTicks = 4
  MaxRejects = 2
  MaxFaults = 2
CHECK_DEADLOCK FALSE
INVARIANTS HoldReleased NoForgottenRest BookedOnce
PROPERTY RefinesSlot
