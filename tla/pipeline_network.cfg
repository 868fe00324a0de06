\* The network loses, duplicates and reorders; sockets may fail.
CONSTANTS
  SeqSpace = 8
  jitter_size = 2
  MaxPayload = 4
  MaxSent = 4
  Network = {"lose", "duplicate", "reorder"}
  SocketsMayFail = TRUE
  Frames <- MCFrames
SPECIFICATION Spec
INVARIANTS TypeOK ThreadsOwnTheirSockets HalfIsEnough
