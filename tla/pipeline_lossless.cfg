\* Nothing is lost, the numbers wrap, and the client does not stop.
CONSTANTS
  SeqSpace = 4
  jitter_size = 2
  MaxPayload = 4
  MaxSent = 7
  Network = {}
  SocketsMayFail = FALSE
  Frames <- MCFrames
SPECIFICATION NoStop
INVARIANT LossIsNoticed
PROPERTIES NoneLeftOut SentIsDelivered
