------------------------------- MODULE MCGate -------------------------------
(* A small instance of Gate for TLC. *)
EXTENDS Gate, TLC

CONSTANTS c1, c2   \* two addresses

Symmetry == Permutations(Clients)
=============================================================================
