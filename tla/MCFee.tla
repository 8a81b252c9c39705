------------------------------- MODULE MCFee -------------------------------
(***************************************************************************)
(* Small instances of the ve-token contract and the fee distributor.       *)
(***************************************************************************)
EXTENDS FeeProperties, TLC

CONSTANTS u1, u2, owner, gov

Symmetry == Permutations(Users)

=============================================================================
