SPECIFICATION FairServer
CONSTANTS
  None = None
  NoUser = NoUser
  Other = Other
  Requests = {r1}
  EventWorkers = {e1}
  NurlWorkers = {n1}
  Clicks = {k1}
  MaxTries = 2
  Admins = {a1}
  MaxImps = 2
  EventQueueCap = 1
  NurlQueueCap = 1
  MaxRetries = 2
  MinIncrement = 1
  EnableFirstPrice = FALSE
  EnableMultiImp = TRUE
  HouseAdsEnabled = FALSE
  HouseAdPrice = 1
  BidRequests <- MCBodies
  Campaigns = {}
  ActiveReads = {}
  DSPs <- MCDSPs
  FanoutResults <- MCFanoutResults
CONSTRAINT ClickBesideNarrow
\* The process has exited.
CHECK_DEADLOCK FALSE
INVARIANTS
  AnswerComplete
  ClickStored
PROPERTIES
  ImplementsReporting
  AnsweredUnlessExited
  EverythingSettles
