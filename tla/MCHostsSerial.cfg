SPECIFICATION Spec
CONSTANTS
  p1 = p1
  p2 = p2
  h1 = h1
  h2 = h2
  d1 = d1
  d2 = d2
  n1 = n1
  n2 = n2
  good = good
  other = other
  bad = bad
  NoProc = NoProc
  NoFile = NoFile
  NoRow = NoRow
  Gone = Gone
  Procs <- OneClient
  Hosts <- TwoHosts
  Names <- TwoNames
  Domains <- TwoDomains
  FileOf <- OwnFiles
  Bodies <- MCBodies
  BadBodies <- GoodBodies
  Inputs <- AllData
  Ops <- ManagerOps
  NginxErrors = FALSE
  FileErrors = FALSE
  NewRows <- GoodNewRows
  Requests <- SerialRequests
  ServiceOps <- AllOps
  DBErrors = FALSE
INVARIANTS ServiceTypeOK DBIsNginx NoOrphans
CHECK_DEADLOCK FALSE
