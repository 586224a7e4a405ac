SPECIFICATION Spec
CONSTANTS
  None = None
  Ids = {c1}
  InitialIds = {c1}
  Budgets = {1, 2}
  Rules = {t1, t2}
  Creatives = {k1}
  Admins = {a1, a2}
  Getters = {}
  Listers = {}
  MaxChanges = 2
  Faults = {}
PROPERTY PatchKeepsOtherFields
CHECK_DEADLOCK FALSE
