\* Are the fragments of a unit put together?
CONSTANTS
  SeqSpace = 4
  MaxPayload = 4
  Frames <- MCFrames
  RtpPackets <- MCPackets
  MaxStats = 6
  MaxUnits = 3
  MaxFragments = 3
  WrittenPackets <- MCRtpPackets
  Payloads <- MCPayloads
SPECIFICATION MCSpec
PROPERTY FragmentsJoin
