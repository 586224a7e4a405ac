SPECIFICATION Spec
CONSTANTS
  None = None
  Ids = {c1, c2}
  InitialIds = {c1}
  Budgets = {1, 2}
  Rules = {t1, t2}
  Creatives = {k1}
  Admins = {a1}
  Getters = {}
  Listers = {l1, l2}
  MaxChanges = 2
  Faults = {}
SYMMETRY ListerSymmetry
INVARIANTS
  TypeOK
  ListHasAllRules
PROPERTY PatchKeepsOtherFields
