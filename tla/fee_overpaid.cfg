\* Two users, one of whom holds the shorter lock, and two distributions,
\* claimed once the shorter lock has expired.
SPECIFICATION FeeSpec
CONSTANTS
    u1 = u1
    u2 = u2
    owner = owner
    gov = gov
    Users = {u1, u2}
    One = 1000
    SECONDS_PER_WEEK = 2
    MAX_WEEKS = 2
    CatchUpLimit = 2
    Genesis = 7
    LockAmounts = {20}
    IncreaseAmounts = {}
    EndTimes = {10, 13}
    MaxTime = 12
    Purse = 40
    Fees = {6}
    Limits = {1, 2}
    Owners = {owner}
    FeePurse = 12
SYMMETRY Symmetry
INVARIANTS WeekNotOverpaid
CHECK_DEADLOCK FALSE
