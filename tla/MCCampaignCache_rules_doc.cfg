SPECIFICATION Spec
CONSTANTS
  None = None
  Ids = {c1}
  InitialIds = {c1}
  Budgets = {1, 2}
  Rules = {t1, t2}
  Creatives = {k1}
  Admins = {}
  Getters = {}
  Listers = {l1}
  MaxChanges = 0
  Faults = {"db"}
INVARIANT ListHasAllRules
