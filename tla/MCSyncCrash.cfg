SPECIFICATION SyncSpec
CONSTANTS
  p1 = p1
  h1 = h1
  h2 = h2
  h3 = h3
  d1 = d1
  d2 = d2
  d3 = d3
  n1 = n1
  n2 = n2
  n3 = n3
  good = good
  bad = bad
  NoProc = NoProc
  NoFile = NoFile
  NoRow = NoRow
  Gone = Gone
  Procs <- OneClient
  Hosts <- ThreeHosts
  Names <- ThreeNames
  Domains <- ThreeDomains
  FileOf <- OwnFiles
  Bodies <- MCBodies
  BadBodies <- MCBadBodies
  Inputs <- AllData
  Ops <- ManagerOps
  NginxErrors = FALSE
  FileErrors = FALSE
  NewRows <- AnyRows
  Requests <- GoodRequests
  ServiceOps <- CrashOps
  DBErrors = FALSE
  MaxAttempts = 2
  Matches <- NotThird
  CanCrash = TRUE
INVARIANTS RestartRepairs RemovedIsMarked RestIsServed
PROPERTY RecoversIfItCan
SYMMETRY HostSymmetry
CHECK_DEADLOCK FALSE
