\* One piece that cannot be written.
CONSTANTS
  NumPeers = 2
  Peer <- MCPeer
  Piece = {i0, i1}
  None = None
  Seeders = {1}
  NumberOfPreferredNeighbors = 1
  MaxHasty = 0
  MaxFaults = 1
  MaxLost = 2
SPECIFICATION FairSpec
PROPERTY NotStuckAfterFailedWrite

CHECK_DEADLOCK FALSE
