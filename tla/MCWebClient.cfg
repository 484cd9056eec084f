SPECIFICATION Spec
CONSTANTS
  MaxVersion = 2
  MaxSends = 2
INVARIANTS TypeOK OwnWritesShown ForItsHost
PROPERTIES LastRequestWins LandsOnItsDialog RefetchKeepsEdits CatchesUp
