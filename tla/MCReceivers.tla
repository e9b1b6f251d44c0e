----------------------------- MODULE MCReceivers -----------------------------
(* Instances of Receivers for TLC. *)
EXTENDS Receivers, TLC

MCPiece == Indices

\* Neighbours are interchangeable.
NeighborSymmetry == Permutations(Neighbor)

=============================================================================
