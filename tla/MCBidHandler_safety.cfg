SPECIFICATION Spec
CONSTANTS
  None = None
  Requests = {r1, r2}
  EventWorkers = {e1}
  NurlWorkers = {n1}
  MaxImps = 2
  EventQueueCap = 1
  NurlQueueCap = 1
  MaxRetries = 3
  MinIncrement = 1
  EnableFirstPrice = TRUE
  EnableMultiImp = TRUE
  HouseAdsEnabled = TRUE
  HouseAdPrice = 1
  BidRequests <- MCBidRequests
  Campaigns <- MCCampaigns
  ActiveReads <- MCActiveReads
  DSPs <- MCDSPs
  FanoutResults <- MCFanoutResults
CONSTRAINT WideAlone
SYMMETRY RequestSymmetry
\* All requests served and both queues drained: the system is at rest.
CHECK_DEADLOCK FALSE
INVARIANTS
  TypeOK
  EventAccounted
  KafkaCopies
  NoticeAccounted
  HouseAdIsLastResort
  SoldAtOrAboveFloor
  ServedOnlyOnTarget
  BidForItsImp
