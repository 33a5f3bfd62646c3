SPECIFICATION FairSpec
CONSTANTS
  None = None
  Hosts = {"record", "flip", "box"}
  Listings <- AllOf
  Anchors = {90, 100, 150, 260}
  Limits = {0, 1}
  OpenAt = 1
  CloseAt = 4
  WindowLen = 3
  CutOff = 1
  Fresh = 1
  MaxLag = 1
  Grace = 1
  Slack = 1
  StopGrace = 2
  PollFor = 1
  MaxRedials = 2
INVARIANTS
  HoleShortLived
  PairIsVetted
PROPERTIES
  EndsInTime
CHECK_DEADLOCK FALSE
