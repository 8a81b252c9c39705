\* Two stakers and a schedule of overlapping slots that is extended and
\* stopped.
SPECIFICATION StakingSpec
CONSTANTS
    u1 = u1
    u2 = u2
    owner = owner
    None = None
    Stakers = {u1, u2}
    Owners = {owner}
    One = 100
    TOTAL_DISTRIBUTION_AMOUNT = 16
    InitSchedules <- MCSchedules
    NewSchedules <- MCExtended
    BondAmounts = {1, 2}
    MaxTime = 4
    Purse = 3
SYMMETRY Symmetry
INVARIANT StakersCovered
PROPERTY EarnedNeverLost
CHECK_DEADLOCK FALSE
