SPECIFICATION ServerSpec
CONSTANTS
  None = None
  NoUser = NoUser
  Other = Other
  Requests = {r1}
  EventWorkers = {e1}
  NurlWorkers = {n1}
  Clicks = {}
  MaxTries = 1
  Admins = {}
  MaxImps = 1
  EventQueueCap = 1
  NurlQueueCap = 1
  MaxRetries = 2
  MinIncrement = 1
  EnableFirstPrice = FALSE
  EnableMultiImp = TRUE
  HouseAdsEnabled = FALSE
  HouseAdPrice = 1
  BidRequests <- MCBodiesWithHeader
  Campaigns = {}
  ActiveReads = {}
  DSPs <- MCDSPs
  FanoutResults <- MCFanoutResults

CHECK_DEADLOCK FALSE
INVARIANT EventNamesItsUser
