\* Two users who lock and withdraw while two distributions are made
\* and claimed, in one claim or in two.
SPECIFICATION FeeSpec
CONSTANTS
    u1 = u1
    u2 = u2
    owner = owner
    gov = gov
    Users = {u1, u2}
    One = 1000
    SECONDS_PER_WEEK = 2
    MAX_WEEKS = 3
    CatchUpLimit = 3
    Genesis = 9
    LockAmounts = {20}
    IncreaseAmounts = {}
    EndTimes = {15}
    MaxTime = 14
    Purse = 40
    Fees = {6}
    Limits = {1, 2}
    Owners = {owner}
    FeePurse = 12
SYMMETRY Symmetry
INVARIANT FeesReserved
PROPERTY WeeksSettleOnce
CHECK_DEADLOCK FALSE
