\* Two later peers that come, die and come again, and one earlier peer.
CONSTANTS
  Earlier = {e}
  Later = {p, q}
  Port = {x, y}
  Incoming = {c1, c2, c3}
  None = None
SPECIFICATION Spec
INVARIANTS TypeOK OneKeyEach NeighborsConnected LiveConnected DeadForgotten OnlyRestartsRefused
SYMMETRY NameSymmetry
CHECK_DEADLOCK FALSE
