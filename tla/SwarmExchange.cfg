\* One seeder, two leechers, two pieces: the messages of an exchange.
CONSTANTS
  NumPeers = 3
  Peer <- MCPeer
  Piece = {i0, i1}
  None = None
  Seeders = {1}
  NumberOfPreferredNeighbors = 1
  MaxHasty = 1
  MaxFaults = 0
  MaxLost = 2
SPECIFICATION Spec
INVARIANTS RequestsReserved RequestAnswered ChokeAgreement InterestAgreement ViewsConverge
SYMMETRY PieceSymmetry
CHECK_DEADLOCK FALSE
