\* From the first connection to the end of every process.
CONSTANTS
  NumPeers = 3
  Peer <- MCPeer
  Piece = {i0}
  None = None
  Seeders = {1}
  NumberOfPreferredNeighbors = 1
  MaxHasty = 1
  MaxFaults = 0
  MaxLost = 2
SPECIFICATION FairSpec
PROPERTIES EveryoneStops ImplementsDistribution

CHECK_DEADLOCK FALSE
