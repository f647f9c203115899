\* SaveUser with statement failures and rollbacks: rowids stay within the table bound.
CONSTANTS
  User = u
  p1 = p1
  t1 = t1
  t2 = t2
  NULL = NULL
  Collection <- MCCollection
  KindOf <- MCKindOf
  UserID = 100
  ServerIDs = {1}
  Values = {1, 2}
  MaxLocalID = 2
  MaxFailures = 1
SPECIFICATION Spec
INVARIANT TypeOK
