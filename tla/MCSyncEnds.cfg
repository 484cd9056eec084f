SPECIFICATION SyncSpec
CONSTANTS
  p1 = p1
  h1 = h1
  h2 = h2
  h3 = h3
  d1 = d1
  d2 = d2
  d3 = d3
  n1 = n1
  n2 = n2
  n3 = n3
  good = good
  bad = bad
  NoProc = NoProc
  NoFile = NoFile
  NoRow = NoRow
  Gone = Gone
  Procs <- OneClient
  Hosts <- TwoHosts
  Names <- TwoNames
  Domains <- TwoDomains
  FileOf <- OwnTwoFiles
  Bodies <- MCBodies
  BadBodies <- MCBadBodies
  Inputs <- AllData
  Ops <- ManagerOps
  NginxErrors = TRUE
  FileErrors = TRUE
  NewRows <- AnyRows
  Requests <- GoodRequests
  ServiceOps <- EndOps
  DBErrors = TRUE
  MaxAttempts = 1
  Matches <- AnyFound
  CanCrash = TRUE
INVARIANT SyncTypeOK
PROPERTY RestartEnds
CHECK_DEADLOCK FALSE
