------------------------------ MODULE MCChoking ------------------------------
(* Instances of Choking for TLC. *)
EXTENDS Choking, TLC

PeerSymmetry == Permutations(Peer)

=============================================================================
