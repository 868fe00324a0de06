\* Packets get lost; the client stops and restarts.
CONSTANTS
  SeqSpace = 8
  jitter_size = 4
  MaxPayload = 4
  MaxSent = 5
  Network = {"lose"}
  SocketsMayFail = FALSE
  Frames <- MCFrames
SPECIFICATION FairSpec
INVARIANT LossIsNoticed
PROPERTIES InOrder StopCompletes
