SPECIFICATION FairSpec
CONSTANTS
  Calls = {r1, r2}
  Limit = 1
  Window = 2
  Skew = 0
  LastTick = 1
  MaxArrivals = 2
  Resends = 1
  Faulty = TRUE
\* The bounded time is over.
CHECK_DEADLOCK FALSE
PROPERTY KeysExpire
