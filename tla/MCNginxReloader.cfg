SPECIFICATION Spec
CONSTANTS
  c1 = c1
  c2 = c2
  t1 = t1
  t2 = t2
  t3 = t3
  Callers <- MCCallers
  Timers <- MCTimers
  NoTimer = NoTimer
  MaxWrites = 3
INVARIANTS TypeOK PendingHasTimer NoLostReload
PROPERTIES RequestServed
