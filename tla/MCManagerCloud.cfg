SPECIFICATION ManagerSpec
CONSTANTS
  p1 = p1
  p2 = p2
  h1 = h1
  h2 = h2
  n1 = n1
  n2 = n2
  good = good
  other = other
  bad = bad
  NoProc = NoProc
  NoFile = NoFile
  Procs <- MCProcs
  Hosts <- MCHosts
  Names <- MCNames
  Bodies <- MCBodies
  BadBodies <- MCBadBodies
  Inputs <- CloudInputs
  Ops <- RollbackOps
  NginxErrors = FALSE
  FileErrors = FALSE
INVARIANT FailSafe
