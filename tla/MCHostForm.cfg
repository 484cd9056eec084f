SPECIFICATION Spec
CONSTANTS
  Extras = {"geo", "cloud"}
  Values = {"default", "set"}
  Default = "default"
  MaxOrders = 1
INVARIANTS TypeOK CompleteIsTrue CertificateIsThere
PROPERTIES ClosesItsForm SubmissionEnds
CHECK_DEADLOCK FALSE
