\* The announcement of the end after a crash.
CONSTANTS
  NumPeers = 3
  Peer <- MCPeer
  Piece = {i0}
  None = None
  Seeders = {1}
  NumberOfPreferredNeighbors = 1
  MaxHasty = 0
  MaxFaults = 1
  MaxLost = 2
SPECIFICATION Spec
INVARIANT AnnouncedIsTrue

CHECK_DEADLOCK FALSE
