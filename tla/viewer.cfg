\* A handshake, six packets read in any pieces, the server leaving, stop.
CONSTANTS
  Media <- MCMedia
  LookAlikes <- MCLookAlikes
  ResponseSize = 2
SPECIFICATION FairSpec
INVARIANTS TypeOK LossBeginsWithACut ParsedInOrder UnitsAreWhole
PROPERTY StopCompletes
CHECK_DEADLOCK FALSE
