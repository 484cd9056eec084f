SPECIFICATION Spec
CONSTANTS
  c1 = c1
  c2 = c2
  h1 = h1
  f1 = f1
  f2 = f2
  none = none
  v1 = v1
  ok = ok
  error = error
  NoRow = NoRow
  Clients <- TwoClients
  Hosts <- OneHost
  Fields <- TwoFields
  Values <- TwoValues
  References <- OneReference
  None = none
  Marks <- TwoMarks
  CacheErrors = TRUE
INVARIANTS TypeOK CacheIsRow CacheIsCommitted
PROPERTY OnlyRequested
SYMMETRY Symmetry
