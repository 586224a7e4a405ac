SPECIFICATION FairSpec
CONSTANTS
  None = None
  Ids = {c1}
  InitialIds = {}
  Budgets = {1}
  Rules = {t1}
  Creatives = {k1}
  Admins = {a1}
  Getters = {g1}
  Listers = {l1}
  MaxChanges = 2
  Faults = {"redis", "db"}
INVARIANT CachedWasStored
PROPERTY EventuallyFresh
