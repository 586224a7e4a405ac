SPECIFICATION Spec
CONSTANTS
  Calls = {r1, r2, r3}
  Limit = 2
  Window = 2
  Skew = 1
  LastTick = 3
  MaxArrivals = 4
  Resends = 1
  Faulty = TRUE
SYMMETRY CallSymmetry
\* The bounded time is over.
CHECK_DEADLOCK FALSE
INVARIANTS
  TypeOK
  GrantedWithinLimit
  ClosedStaysClosed
