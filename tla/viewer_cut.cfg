\* A packet that two reads divide is not given to the assembler.
CONSTANTS
  Media <- MCMedia
  LookAlikes <- NoLookAlikes
  ResponseSize = 2
SPECIFICATION FairSpec
INVARIANT CompletePacketsAreParsed
CHECK_DEADLOCK FALSE
