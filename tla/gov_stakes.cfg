SPECIFICATION FairSpec
CONSTANTS
    u1 = u1
    u2 = u2
    creator = creator
    gov = gov
    None = None
    One = 10
    Users = {u1, u2}
    Creator = creator
    GovContract = gov
    InitConfig <- MCConfig
    StakeAmounts = {1, 2}
    WithdrawAmounts = {None, 3, 4}
    DepositAmounts = {2}
    Sweeps = {2}
    PollMessages <- MCSpending
    ConfigUpdates <- MCNoUpdates
    VotingBalances <- MCBalances
    VeAnswers = {TRUE, FALSE}
    MaxPolls = 1
    MaxHeight = 3
    Purse = 5
INVARIANT TotalsAreSums
INVARIANT VotesWithinStake
PROPERTY DepositsCovered
PROPERTY StakesNeverDiluted
PROPERTY PollEventuallyEnds
PROPERTY PassedEventuallySettled
CHECK_DEADLOCK FALSE
