\* The airdrop with up to two stages; vesting with claims at every time;
\* the distributor and the community fund under one governance.
SPECIFICATION FundsSpec
CONSTANTS
    u1 = u1
    u2 = u2
    admin = admin
    gov = gov
    lotto = lotto
    lotto2 = lotto2
    None = None
    Users = {u1, u2}
    Owners = {admin, gov}
    Creator = admin
    One = 10
    TaxRate = 5
    TaxCap = 3
    Base = 2
    TicketLength = 1
    RAND_GENESIS = 0
    RAND_PERIOD = 1
    Endowment <- MCEndowment
    Deployments <- MCDeployments
    MaxTime = 5
    Snapshots <- MCSnapshots
    Durations = {0, 1, 3}
    AirdropRecipients = {gov}
    MaxStage = 2
    VestingBatches <- MCBatches
    InitGenesis = 0
    GenesisTimes = {0, 2}
    Spenders = {lotto}
    InitDistributor <- MCDistributor
    DistributorUpdates <- MCDistributorUpdates
    SpendAmounts = {1, 2}
    Awards = {0, 1}
    Lottos = {lotto, lotto2}
    InitLotto = None
    InitLimit = 1
    FundLimits = {1, 2}
    FundAmounts = {1, 2}
    SwapReturns = {1}
    InitUst = 4
INVARIANTS AirdropPaidOnce VestingOnSchedule
PROPERTIES OpenStagesUntouched AdviceWithinBand
CHECK_DEADLOCK FALSE
