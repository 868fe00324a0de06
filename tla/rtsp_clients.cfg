\* Two clients come, play and leave; the server is started and stopped.
CONSTANTS
  Clients = {alice, bob}
  FDs = {3, 4, 5}
  MaxPackets = 2
SPECIFICATION Spec
INVARIANTS TypeOK TablesAgree NothingMissedAfterPlay NothingLeft
  StrayMediaIsOnePacket OnlyNotifyAfterStop
PROPERTY OwnConnectionWhileRunning
SYMMETRY Symmetry
