------------------------------- MODULE MCTrimd -------------------------------
(* Trimd with few calls and short times. *)
EXTENDS Trimd

CONSTANTS t1, g1

=============================================================================
