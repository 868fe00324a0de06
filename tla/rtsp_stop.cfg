\* Does stop always end?
CONSTANTS
  Clients = {alice, bob}
  FDs = {3, 4, 5}
  MaxPackets = 1
SPECIFICATION FairSpec
PROPERTY StopCompletes
