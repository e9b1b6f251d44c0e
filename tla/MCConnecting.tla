---------------------------- MODULE MCConnecting ----------------------------
(* Instances of Connecting for TLC. *)
EXTENDS Connecting

\* No message begins like it.
MCHeader == <<7, 6>>

=============================================================================
