---------------------------- MODULE MCGlowFunds ----------------------------
(***************************************************************************)
(* Small instances of the contracts that hold GLOW.                        *)
(***************************************************************************)
EXTENDS GlowFunds

CONSTANTS u1, u2, admin, gov, lotto, lotto2

MCEndowment ==
    [airdrop |-> 9, vesting |-> 12, distributor |-> 4, community |-> 4, pair |-> 2]

\* Each contract for itself: they do not call each other.
MCDeployments == {{c} : c \in Contracts}

\* u1 has two leaves in the first snapshot.
MCSnapshots == {{<<u1, 1>>, <<u1, 2>>, <<u2, 1>>}, {<<u2, 3>>}}

\* Overlapping schedules whose rates do not come out even.
MCBatches ==
    {[u \in {u1} |-> <<<<1, 4, 5>>, <<2, 3, 1>>>>],
     [u \in {u1, u2} |-> <<<<0, 3, 2>>>>]}

MCDistributor ==
    [owner |-> admin, whitelist |-> <<lotto, lotto>>, spend_limit |-> 2,
      emission_cap |-> 12, emission_floor |-> 4,
      increment_multiplier |-> 20, decrement_multiplier |-> 5]

NoChange ==
    [spend_limit |-> None, emission_cap |-> None, emission_floor |-> None,
     increment_multiplier |-> None, decrement_multiplier |-> None]

MCDistributorUpdates ==
    {[NoChange EXCEPT !.emission_cap = 3], [NoChange EXCEPT !.emission_floor = 9],
     [NoChange EXCEPT !.emission_floor = 2, !.emission_cap = 8],
     [NoChange EXCEPT !.spend_limit = 1, !.decrement_multiplier = 11],
     [NoChange EXCEPT !.spend_limit = 1, !.increment_multiplier = 10]}

=============================================================================
