\* Two users, weeks of two seconds, locks of at most two weeks; the chain is
\* older than one catch-up reaches, as it is in reality.
SPECIFICATION VeSpec
CONSTANTS
    u1 = u1
    u2 = u2
    Users = {u1, u2}
    One = 1000
    SECONDS_PER_WEEK = 2
    MAX_WEEKS = 2
    CatchUpLimit = 2
    Genesis = 7
    LockAmounts = {20}
    IncreaseAmounts = {20}
    EndTimes = {10, 13}
    MaxTime = 11
    Purse = 60
SYMMETRY Symmetry
INVARIANTS LocksWellFormed DepositsHeld
PROPERTIES LockHistoryIsFixed ImplementsVePower
CHECK_DEADLOCK FALSE
