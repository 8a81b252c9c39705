----------------------------- MODULE MCStaking -----------------------------
(***************************************************************************)
(* Small instances of LP staking.                                          *)
(***************************************************************************)
EXTENDS StakingProperties, TLC

CONSTANTS u1, u2, owner

\* Two slots that overlap; a later slot is added.
MCSchedule == << <<0, 2, 5>>, <<1, 3, 7>> >>
MCSchedules == {MCSchedule}
MCExtended == {Append(MCSchedule, <<3, 4, 4>>)}

Symmetry == Permutations(Stakers)

=============================================================================
