\* SaveUser with one statement failing in the engine and rolled back.
CONSTANTS
  User = u
  p1 = p1
  t1 = t1
  t2 = t2
  NULL = NULL
  Collection <- MCCollection
  KindOf <- MCKindOf
  UserID = 100
  ServerIDs = {1}
  Values = {1, 2}
  MaxLocalID = 2
  MaxFailures = 1
SPECIFICATION Spec
PROPERTIES AtomicSave
