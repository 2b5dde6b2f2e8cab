SPECIFICATION VBFairSpec
CONSTANTS
  LastCommit = 2
  MaxMoves = 2
  MaxFaults = 1
  MaxCleans = 1
PROPERTIES IdentFresh FailsOnlyIfBroken IdentCatchesUp
