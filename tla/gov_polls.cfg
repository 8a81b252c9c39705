SPECIFICATION Spec
CONSTANTS
    u1 = u1
    u2 = u2
    creator = creator
    gov = gov
    None = None
    One = 10
    Users = {u1, u2}
    Creator = creator
    GovContract = gov
    InitConfig <- MCConfig
    StakeAmounts = {}
    WithdrawAmounts = {}
    DepositAmounts = {2}
    Sweeps = {}
    PollMessages <- MCMessages
    ConfigUpdates <- MCHandOver
    VotingBalances <- MCBalances
    VeAnswers = {TRUE}
    MaxPolls = 2
    MaxHeight = 3
    Purse = 4
INVARIANT TallyIsSumOfVotes
INVARIANT IndexMatchesStatus
PROPERTY DecisionsAreFinal
CHECK_DEADLOCK FALSE
