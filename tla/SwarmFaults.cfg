\* One crash or one failed write anywhere in the exchange.
CONSTANTS
  NumPeers = 3
  Peer <- MCPeer
  Piece = {i0}
  None = None
  Seeders = {1}
  NumberOfPreferredNeighbors = 1
  MaxHasty = 1
  MaxFaults = 1
  MaxLost = 2
SPECIFICATION Spec
INVARIANTS TypeOK RequestsReserved RequestAnswered BeliefsTrue NoFalseTermination

CHECK_DEADLOCK FALSE
