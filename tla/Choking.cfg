\* The two timer threads and three neighbours, one preferred slot.
CONSTANTS
  Peer = {q1, q2, q3}
  Piece = {i0}
  None = None
  NumberOfPreferredNeighbors = 1
SPECIFICATION Spec
INVARIANTS TypeOK FlagsTold ChosenServed OneLeftOver
SYMMETRY PeerSymmetry
