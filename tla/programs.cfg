\* The relay with two clients, one browser and three descriptors; targets around the
\* bounds, which are a few kilobits apart; frames of up to two packets; three objects
\* of each class that owns something; six packets of a stream whose numbers do not wrap,
\* and a jitter buffer with room for four.
CONSTANTS
  Clients = {alice, bob}
  Browsers = {carol}
  FDs = {3, 4, 5}
  min_bitrate = 9500
  max_bitrate = 12500
  target_bitrates = {5000, 9000, 9500, 11000, 20000}
  measurement_window = 5
  keyframe_interval = 2
  ReportInterval = 2
  MaxUpdates = 3
  Updates <- MCUpdates
  MaxFrames = 2
  MaxPackets = 2
  MaxSent = 4
  MaxQueued = 2
  Sockets = {s1, s2, s3}
  Descriptors = {d1, d2, d3}
  INVALID_SOCKET = INVALID_SOCKET
  Tasks = {t1, t2, t3}
  Frames = {f1, f2, f3}
  NoFrame = NoFrame
  SeqSpace = 7
  m_max_packets = 4
  Packets <- MCUnwrapped
SPECIFICATION MCSpec
INVARIANTS ProgramsTypeOK TableIsExact ReadingsMakeSense OnePacketAfterStop
  TypeOK WithinCapacity
PROPERTIES HandlesAreOwned PlaysByPosition Settles EveryStopEnds
CHECK_DEADLOCK FALSE
