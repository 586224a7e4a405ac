SPECIFICATION FairSpec
CONSTANTS
  Callers = {g1, g2, g3}
  MaxRequests = 2
  TripRequests = 3
  MaxCounted = 5
INVARIANTS
  TypeOK
  CountsAddUp
  TrialSound
PROPERTIES
  ChangesForCause
  AskedAgain
