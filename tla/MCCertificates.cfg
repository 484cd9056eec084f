SPECIFICATION Spec
CONSTANTS
  t1 = t1
  t2 = t2
  NoTask = NoTask
  Lost = Lost
  Tasks <- TwoTasks
  Providers <- AllProviders
  MaxPairs = 2
  Unmatched = {2}
  MaxFaults = 1
INVARIANTS TypeOK PairIsWhole RowIsServed
PROPERTY RenewalEnds
CHECK_DEADLOCK FALSE
