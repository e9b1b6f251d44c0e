----------------------------- MODULE MCRegistry -----------------------------
(* Instance of Registry for TLC. *)
EXTENDS Registry, TLC

NameSymmetry == Permutations(Later) \cup Permutations(Port) \cup Permutations(Incoming)

=============================================================================
