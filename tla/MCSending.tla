------------------------------ MODULE MCSending ------------------------------
(* Instance of Sending for TLC. *)
EXTENDS Sending, TLC

CONSTANTS a, b, i0, i1, i2

MCShare == a :> {i0, i1} @@ b :> {i2}

MCMaxChanges == a :> 3 @@ b :> 3

\* One UNCHOKE each.
MCOneChange == a :> 1 @@ b :> 1

=============================================================================
