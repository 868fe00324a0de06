\* Payloads of at most 4 bytes, units of 1 to 12, numbers modulo 4; packets of
\* three laps of the numbers; frames of up to 8 bytes.
CONSTANTS
  SeqSpace = 4
  MaxPayload = 4
  Frames <- MCFrames
  RtpPackets <- MCPackets
  MaxStats = 6
  MaxUnits = 3
  MaxFragments = 3
  WrittenPackets <- MCRtpPackets
  Payloads <- MCPayloads
SPECIFICATION MCSpec
INVARIANTS CodecsTypeOK UnitsAreCarriedWhole FragmentsAreProper MarkersEndUnits
  UnitsAreFramed FramesAreDivided PacketsComeBack
PROPERTY NumbersRunOn
