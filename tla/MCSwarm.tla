------------------------------- MODULE MCSwarm -------------------------------
(* Instances of Swarm for TLC. *)
EXTENDS SwarmProperties, TLC

MCPeer == 1 .. NumPeers

\* Pieces are interchangeable; peers are not, they are ordered.
PieceSymmetry == Permutations(Piece)

=============================================================================
