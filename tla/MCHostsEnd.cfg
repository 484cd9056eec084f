SPECIFICATION Spec
CONSTANTS
  p1 = p1
  p2 = p2
  h1 = h1
  h2 = h2
  d1 = d1
  d2 = d2
  n1 = n1
  n2 = n2
  good = good
  other = other
  bad = bad
  NoProc = NoProc
  NoFile = NoFile
  NoRow = NoRow
  Gone = Gone
  Procs <- TwoClients
  Hosts <- OneHost
  Names <- TwoNames
  Domains <- TwoDomains
  FileOf <- OwnFiles
  Bodies <- MCBodies
  BadBodies <- MCBadBodies
  Inputs <- AllData
  Ops <- ManagerOps
  NginxErrors = TRUE
  FileErrors = TRUE
  NewRows <- DisabledNewRows
  Requests <- EndRequests
  ServiceOps <- EndOps
  DBErrors = TRUE
PROPERTY RequestEnds
CHECK_DEADLOCK FALSE
