SPECIFICATION Spec
CONSTANTS
  e1 = e1  e2 = e2  e3 = e3  e4 = e4
  u1 = u1  u2 = u2  u4 = u4
  Null = Null
  Changing = {e3}
  Endpoints = {e1, e2, e3, e4}
  Uris = {u1, u2, u4}
  Uri <- MCUri
  Valid = {e1, e2, e3}
  MaxBundles = 2
  MaxChanges = 4
INVARIANT RegistryConsistent
INVARIANT ErasureCostsOne
INVARIANT BuffersInOrder
CHECK_DEADLOCK FALSE
