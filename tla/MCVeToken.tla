------------------------------ MODULE MCVeToken ------------------------------
(***************************************************************************)
(* Small instances of the ve-token contract.                               *)
(***************************************************************************)
EXTENDS VeProperties, TLC

CONSTANTS u1, u2

Symmetry == Permutations(Users)

=============================================================================
